------------------------ MODULE SessionRegistryProofs ------------------------
(***************************************************************************)
(* What holds of SessionRegistry for every number of callers, sessions and   *)
(* Session objects, checked by TLAPS.                                        *)
(*                                                                           *)
(*   TypeOK              is inductive as it stands                           *)
(*   OneRevivalPerId     is inductive relative to it                         *)
(*   RegistryInv         LiveIsAccountedFor and ClosedIsOver, with who has   *)
(*                       which object in hand and what a Close has seen      *)
(***************************************************************************)
EXTENDS SessionRegistry, TLAPS

ObjectType == [id : Ids \cup {None}, st : ObjStates, revived : BOOLEAN, fate : Fates]

Ranges ==
  /\ row \in [Ids -> {"absent", "open", "ended"}]
  /\ sessions \in [Ids -> Objects \cup {None}]
  /\ reviving \in [Ids -> Callers \cup {None}]
  /\ obj \in [Objects -> ObjectType]
  /\ pc \in [Callers -> Steps]
  /\ arg \in [Callers -> Ids \cup {None}]
  /\ held \in [Callers -> Objects \cup Callers \cup {None}]

InHand(c) ==
  /\ pc[c] \in Holding => held[c] \in Objects
  /\ pc[c] = "wait" => held[c] \in Callers
  /\ pc[c] # "idle" => arg[c] \in Ids

\* TypeOK is Ranges with InHand.
LEMMA TypeParts == TypeOK <=> Ranges /\ \A c \in Callers : InHand(c)
  BY DEF TypeOK, Ranges, InHand, ObjectType

\* The step of one caller: where it is afterwards, with what.
Becomes(c, step, a, h) ==
  /\ pc'[c] = step /\ arg'[c] = a /\ held'[c] = h
  /\ \A d \in Callers \ {c} : pc'[d] = pc[d] /\ arg'[d] = arg[d] /\ held'[d] = held[d]

CallerRanges == /\ pc \in [Callers -> Steps]
                /\ arg \in [Callers -> Ids \cup {None}]
                /\ held \in [Callers -> Objects \cup Callers \cup {None}]

\* How an update of one caller reads: a new step with what it holds,
LEMMA Moved ==
  ASSUME CallerRanges, NEW c \in Callers, NEW step \in Steps, NEW a \in Ids \cup {None},
         NEW h \in Objects \cup Callers \cup {None},
         Goto(c, step), arg' = [arg EXCEPT ![c] = a], held' = [held EXCEPT ![c] = h]
  PROVE  CallerRanges' /\ Becomes(c, step, a, h)
  BY DEF CallerRanges, Goto, Becomes

\* a new step alone,
LEMMA Went ==
  ASSUME CallerRanges, NEW c \in Callers, NEW step \in Steps, Goto(c, step), UNCHANGED <<arg, held>>
  PROVE  CallerRanges' /\ Becomes(c, step, arg[c], held[c])
  BY DEF CallerRanges, Goto, Becomes

\* and the return.
LEMMA Returned ==
  ASSUME CallerRanges, NEW c \in Callers, Return(c)
  PROVE  CallerRanges' /\ Becomes(c, "idle", None, None)
  BY DEF CallerRanges, Return, Goto, Becomes, Steps

\* The object that is made.
LEMMA Made ==
  ASSUME Ranges, NEW c, NEW i \in Ids, NEW b \in BOOLEAN, Make(c, i, b)
  PROVE  \E o \in Objects :
           /\ obj[o].st = "fresh" /\ held' = [held EXCEPT ![c] = o]
           /\ obj' \in [Objects -> ObjectType]
           /\ obj'[o].id = i /\ obj'[o].st = "idle" /\ obj'[o].fate = "none"
           /\ \A p \in Objects \ {o} : obj'[p] = obj[p]
<1> DEFINE o == CHOOSE o \in Fresh : TRUE
           n == [Unmade EXCEPT !.id = i, !.st = "idle", !.revived = b]
<1>1. o \in Objects /\ obj[o].st = "fresh"
  BY DEF Make, Fresh
<1>2. obj' = [obj EXCEPT ![o] = n] /\ held' = [held EXCEPT ![c] = o]
  BY DEF Make
<1>3. n \in ObjectType /\ n.id = i /\ n.st = "idle" /\ n.fate = "none"
  BY DEF Unmade, ObjectType, ObjStates, Fates
<1> HIDE DEF o, n
<1> QED
  BY <1>1, <1>2, <1>3 DEF Ranges

\* An object is published.
LEMMA Registers ==
  ASSUME Ranges, NEW i \in Ids, NEW o \in Objects, Register(i, o)
  PROVE  /\ sessions' \in [Ids -> Objects \cup {None}] /\ obj' \in [Objects -> ObjectType]
         /\ sessions'[i] = o /\ \A j \in Ids \ {i} : sessions'[j] = sessions[j]
         /\ obj'[o].st = "live" /\ obj'[o].id = obj[o].id
         /\ obj'[o].fate = IF CloseHasLooked(i) THEN "late" ELSE obj[o].fate
         /\ \A p \in Objects \ {o} :
              /\ obj'[p].st = obj[p].st /\ obj'[p].id = obj[p].id
              /\ obj'[p].fate = IF p = sessions[i] THEN "replaced" ELSE obj[p].fate
<1> DEFINE fate == IF CloseHasLooked(i) THEN "late" ELSE obj[o].fate
<1>1. sessions' = [sessions EXCEPT ![i] = o]
  BY DEF Register
<1>2. \A p \in Objects : obj[p] \in ObjectType
  BY DEF Ranges
<1>3. fate \in Fates
  BY <1>2 DEF Fates, ObjectType
<1>4. obj' = [x \in Objects |->
        IF x = o THEN [obj[x] EXCEPT !.st = "live", !.fate = IF CloseHasLooked(i) THEN "late" ELSE @]
        ELSE IF x = sessions[i] THEN [obj[x] EXCEPT !.fate = "replaced"] ELSE obj[x]]
  BY DEF Register
<1>5. obj'[o] = [obj[o] EXCEPT !.st = "live", !.fate = fate]
  BY <1>2, <1>4 DEF ObjectType
<1> HIDE DEF fate
<1>6. obj'[o] \in ObjectType /\ obj'[o].st = "live" /\ obj'[o].id = obj[o].id /\ obj'[o].fate = fate
  BY <1>2, <1>3, <1>5 DEF ObjectType, ObjStates
<1>7. ASSUME NEW p \in Objects \ {o}
      PROVE  /\ obj'[p] \in ObjectType /\ obj'[p].st = obj[p].st /\ obj'[p].id = obj[p].id
             /\ obj'[p].fate = IF p = sessions[i] THEN "replaced" ELSE obj[p].fate
  <2>1. obj'[p] = IF p = sessions[i] THEN [obj[p] EXCEPT !.fate = "replaced"] ELSE obj[p]
    BY <1>4
  <2> QED
    BY <1>2, <2>1 DEF ObjectType, Fates
<1>8. obj' \in [Objects -> ObjectType]
  BY <1>4, <1>6, <1>7
<1> QED
  BY <1>1, <1>6, <1>7, <1>8 DEF fate, Ranges
-----------------------------------------------------------------------------
(* What each step does, caller by caller and object by object.                *)

Quiet == UNCHANGED <<row, sessions, obj>>

Looks(c) == \E i \in Ids :
  /\ pc[c] = "idle" /\ row[i] # "absent" /\ Quiet /\ UNCHANGED reviving
  /\ \/ sessions[i] = None /\ Becomes(c, "enter", i, None)
     \/ sessions[i] \in Objects /\ Becomes(c, "check", i, sessions[i])

Checks(c) ==
  /\ pc[c] = "check" /\ Quiet /\ UNCHANGED reviving
  /\ \/ obj[held[c]].st \in {"ended", "over"} /\ Becomes(c, "drop", arg[c], held[c])
     \/ Becomes(c, "idle", None, None)
     \/ Becomes(c, "branch", arg[c], None)

Drops(c) ==
  /\ pc[c] = "drop" /\ UNCHANGED <<row, reviving, obj>>
  /\ sessions'[arg[c]] = IF sessions[arg[c]] = held[c] THEN None ELSE sessions[arg[c]]
  /\ \A j \in Ids \ {arg[c]} : sessions'[j] = sessions[j]
  /\ Becomes(c, "enter", arg[c], None)

Enters(c) ==
  /\ pc[c] = "enter" /\ Quiet
  /\ \/ /\ reviving[arg[c]] \in Callers /\ UNCHANGED reviving
        /\ Becomes(c, "wait", arg[c], reviving[arg[c]])
     \/ /\ reviving[arg[c]] = None /\ Becomes(c, "load", arg[c], held[c])
        /\ reviving'[arg[c]] = c /\ \A j \in Ids \ {arg[c]} : reviving'[j] = reviving[j]

Loads(c) ==
  /\ pc[c] \in {"load", "start"} /\ Quiet /\ UNCHANGED reviving
  /\ \/ Becomes(c, "start", arg[c], held[c])
     \/ Becomes(c, "finish", arg[c], held[c])

Makes(c) == \E o \in Objects, i \in Ids :
  /\ UNCHANGED <<row, sessions, reviving>>
  /\ obj[o].st = "fresh" /\ obj'[o].id = i /\ obj'[o].st = "idle" /\ obj'[o].fate = "none"
  /\ \A p \in Objects \ {o} : obj'[p] = obj[p]
  /\ \/ pc[c] = "start" /\ i = arg[c] /\ Becomes(c, "publish", i, o)
     \/ pc[c] \in {"idle", "branch"} /\ Becomes(c, "save", i, o)

Publishes(c) ==
  /\ pc[c] \in {"publish", "announce"} /\ UNCHANGED <<row, reviving>>
  /\ Register(arg[c], held[c])
  /\ \/ pc[c] = "publish" /\ Becomes(c, "finish", arg[c], held[c])
     \/ pc[c] = "announce" /\ Becomes(c, "idle", None, None)

Finishes(c) ==
  /\ pc[c] = "finish" /\ Quiet
  /\ reviving'[arg[c]] = None /\ \A j \in Ids \ {arg[c]} : reviving'[j] = reviving[j]
  /\ \A w \in Callers :
       IF w = c \/ (pc[w] = "wait" /\ held[w] = c)
       THEN /\ held'[w] = None
            /\ \/ pc'[w] = "idle" /\ arg'[w] = None
               \/ pc'[w] = "branch" /\ arg'[w] = arg[w]
       ELSE pc'[w] = pc[w] /\ arg'[w] = arg[w] /\ held'[w] = held[w]

\* A call of another kind that ends.
Ends(c) ==
  /\ pc[c] \in {"branch", "markGone"} /\ UNCHANGED <<sessions, reviving, obj>>
  /\ row' = row \/ (pc[c] = "markGone" /\ row' = [row EXCEPT ![arg[c]] = "ended"])
  /\ Becomes(c, "idle", None, None)

Saves(c) ==
  /\ pc[c] = "save" /\ UNCHANGED <<sessions, reviving, obj>>
  /\ row' = [row EXCEPT ![arg[c]] = "open"]
  /\ Becomes(c, "announce", arg[c], held[c])

Undoes(c) ==
  /\ pc[c] = "save" /\ UNCHANGED <<sessions, reviving>>
  /\ row' = row \/ row' = [row EXCEPT ![arg[c]] = "open"]
  /\ obj'[held[c]].st = "over" /\ \A p \in Objects \ {held[c]} : obj'[p] = obj[p]
  /\ Becomes(c, "idle", None, None)

Removes(c) == \E i \in Ids :
  /\ pc[c] = "idle" /\ row[i] # "absent" /\ UNCHANGED <<row, reviving, obj>>
  /\ sessions'[i] = None /\ \A j \in Ids \ {i} : sessions'[j] = sessions[j]
  /\ \/ sessions[i] = None /\ Becomes(c, "markGone", i, None)
     \/ sessions[i] \in Objects /\ Becomes(c, "mark", i, sessions[i])

Marks(c) ==
  /\ pc[c] = "mark" /\ UNCHANGED <<sessions, reviving, obj>>
  /\ row' = [row EXCEPT ![arg[c]] = "ended"]
  /\ Becomes(c, "stop", arg[c], held[c])

\* The last step of a Close, or the first that fails.
Closes(c) ==
  /\ pc[c] \in {"mark", "stop"} /\ UNCHANGED <<sessions, reviving>>
  /\ row' = row \/ (pc[c] = "mark" /\ row' = [row EXCEPT ![arg[c]] = "ended"])
  /\ \A p \in Objects \ {held[c]} : obj'[p] = obj[p]
  /\ obj'[held[c]].id = obj[held[c]].id
  /\ \/ obj'[held[c]].st = obj[held[c]].st /\ obj'[held[c]].fate = "leaked"
     \/ obj[held[c]].st = "live" /\ obj'[held[c]].st = "closing"
     \/ obj[held[c]].st # "live" /\ obj'[held[c]] = obj[held[c]]
  /\ Becomes(c, "idle", None, None)

StreamStops(o) ==
  /\ obj[o].st \in {"live", "closing"} /\ UNCHANGED <<row, sessions, reviving, pc, arg, held>>
  /\ obj'[o].st = "ended" /\ obj'[o].id = obj[o].id
  /\ \A p \in Objects \ {o} : obj'[p] = obj[p]

Forgets(o) ==
  /\ obj[o].st = "ended" /\ UNCHANGED <<row, reviving, pc, arg, held>>
  /\ obj'[o].st = "over" /\ \A p \in Objects \ {o} : obj'[p] = obj[p]
  /\ \A i \in Ids : sessions'[i] = IF i = obj[o].id /\ sessions[i] = o THEN None ELSE sessions[i]

CallerSteps(c) ==
  \/ Looks(c) \/ Checks(c) \/ Drops(c) \/ Enters(c) \/ Loads(c) \/ Makes(c) \/ Publishes(c)
  \/ Finishes(c) \/ Ends(c) \/ Saves(c) \/ Undoes(c) \/ Removes(c) \/ Marks(c) \/ Closes(c)

\* What the steps of a caller keep of the types.
LEMMA TypeFacts ==
  ASSUME TypeOK, NEW c \in Callers
  PROVE  /\ Ranges /\ CallerRanges /\ InHand(c)
         /\ pc[c] \in Steps /\ arg[c] \in Ids \cup {None}
         /\ held[c] \in Objects \cup Callers \cup {None}
  BY TypeParts DEF Ranges, CallerRanges

\* The steps of Resolve keep the types and have the effects named here,
LEMMA ResolveEffects ==
  ASSUME TypeOK, NEW c \in Callers
  PROVE  /\ \A i \in Ids : Lookup(c, i) => Ranges' /\ Looks(c)
         /\ Check(c) => Ranges' /\ Checks(c)
         /\ Drop(c) => Ranges' /\ Drops(c)
         /\ Enter(c) => Ranges' /\ Enters(c)
         /\ Load(c) \/ StartFails(c) => Ranges' /\ Loads(c)
<1>1. /\ Ranges /\ CallerRanges /\ InHand(c) /\ arg[c] \in Ids \cup {None}
      /\ held[c] \in Objects \cup Callers \cup {None}
  BY TypeFacts
<1>2. {"check", "drop", "enter", "wait", "load", "start", "finish", "branch"} \subseteq Steps
  BY DEF Steps
<1>3. ASSUME NEW i \in Ids, Lookup(c, i) PROVE Ranges' /\ Looks(c)
  <2>1. sessions[i] \in Objects \cup {None}
    BY <1>1 DEF Ranges
  <2> DEFINE step == IF sessions[i] = None THEN "enter" ELSE "check"
  <2>2. step \in Steps
    BY <1>2
  <2>3. Goto(c, step) /\ arg' = [arg EXCEPT ![c] = i] /\ held' = [held EXCEPT ![c] = sessions[i]]
    BY <1>3 DEF Lookup
  <2> HIDE DEF step
  <2>4. CallerRanges' /\ Becomes(c, step, i, sessions[i])
    BY <1>1, <2>1, <2>2, <2>3, Moved
  <2> QED
    BY <1>1, <1>3, <2>1, <2>4 DEF Lookup, Looks, Quiet, Ranges, CallerRanges, step, Table
<1>4. ASSUME Check(c) PROVE Ranges' /\ Checks(c)
  <2>1. UNCHANGED <<row, sessions, obj, reviving>> /\ pc[c] = "check"
    BY <1>4 DEF Check, Table
  <2>2. CASE obj[held[c]].st \in {"ended", "over"}
    <3>1. Goto(c, "drop") /\ UNCHANGED <<arg, held>>
      BY <1>4, <2>2 DEF Check
    <3>2. CallerRanges' /\ Becomes(c, "drop", arg[c], held[c])
      BY <1>1, <1>2, <3>1, Went
    <3> QED
      BY <1>1, <2>1, <2>2, <3>2 DEF Checks, Quiet, Ranges, CallerRanges
  <2>3. CASE Return(c)
    <3>1. CallerRanges' /\ Becomes(c, "idle", None, None)
      BY <1>1, <2>3, Returned
    <3> QED
      BY <1>1, <2>1, <3>1 DEF Checks, Quiet, Ranges, CallerRanges
  <2>4. CASE Goto(c, "branch") /\ held' = [held EXCEPT ![c] = None] /\ UNCHANGED arg
    <3>1. arg' = [arg EXCEPT ![c] = arg[c]]
      BY <1>1, <2>4 DEF CallerRanges
    <3>2. CallerRanges' /\ Becomes(c, "branch", arg[c], None)
      BY <1>1, <1>2, <2>4, <3>1, Moved
    <3> QED
      BY <1>1, <2>1, <3>2 DEF Checks, Quiet, Ranges, CallerRanges
  <2> QED
    BY <1>4, <2>2, <2>3, <2>4 DEF Check
<1>5. ASSUME Drop(c) PROVE Ranges' /\ Drops(c)
  <2>1. arg[c] \in Ids /\ pc[c] = "drop"
    BY <1>1, <1>5 DEF Drop, InHand
  <2>2. arg' = [arg EXCEPT ![c] = arg[c]]
    BY <1>1, <1>5 DEF Drop, CallerRanges
  <2>3. CallerRanges' /\ Becomes(c, "enter", arg[c], None)
    BY <1>1, <1>2, <1>5, <2>2, Moved DEF Drop
  <2>4. /\ sessions' \in [Ids -> Objects \cup {None}]
        /\ sessions'[arg[c]] = IF sessions[arg[c]] = held[c] THEN None ELSE sessions[arg[c]]
        /\ \A j \in Ids \ {arg[c]} : sessions'[j] = sessions[j]
    BY <1>1, <1>5, <2>1 DEF Drop, Ranges
  <2> QED
    BY <1>1, <1>5, <2>1, <2>3, <2>4 DEF Drop, Drops, Ranges, CallerRanges
<1>6. ASSUME Enter(c) PROVE Ranges' /\ Enters(c)
  <2>1. arg[c] \in Ids /\ pc[c] = "enter" /\ UNCHANGED <<row, sessions, obj, arg>>
    BY <1>1, <1>6 DEF Enter, InHand
  <2>2. reviving[arg[c]] \in Callers \cup {None}
    BY <1>1, <2>1 DEF Ranges
  <2>3. arg' = [arg EXCEPT ![c] = arg[c]]
    BY <1>1, <2>1 DEF CallerRanges
  <2>4. CASE reviving[arg[c]] # None
    <3>1. CallerRanges' /\ Becomes(c, "wait", arg[c], reviving[arg[c]])
      BY <1>1, <1>2, <1>6, <2>2, <2>3, <2>4, Moved DEF Enter
    <3> QED
      BY <1>1, <1>6, <2>1, <2>2, <2>4, <3>1 DEF Enter, Enters, Quiet, Ranges, CallerRanges
  <2>5. CASE reviving[arg[c]] = None
    <3>1. Goto(c, "load") /\ UNCHANGED <<arg, held>> /\ reviving' = [reviving EXCEPT ![arg[c]] = c]
      BY <1>6, <2>5 DEF Enter
    <3>2. CallerRanges' /\ Becomes(c, "load", arg[c], held[c])
      BY <1>1, <1>2, <3>1, Went
    <3> QED
      BY <1>1, <2>1, <2>5, <3>1, <3>2 DEF Enters, Quiet, Ranges, CallerRanges
  <2> QED
    BY <2>4, <2>5
<1>7. ASSUME Load(c) \/ StartFails(c) PROVE Ranges' /\ Loads(c)
  <2>1. UNCHANGED <<row, sessions, obj, reviving, arg, held>> /\ pc[c] \in {"load", "start"}
    BY <1>7 DEF Load, StartFails, Table
  <2>2. Goto(c, "start") \/ Goto(c, "finish")
    BY <1>7 DEF Load, StartFails
  <2>3. CallerRanges' /\ (Becomes(c, "start", arg[c], held[c]) \/ Becomes(c, "finish", arg[c], held[c]))
    BY <1>1, <1>2, <2>1, <2>2, Went
  <2> QED
    BY <1>1, <2>1, <2>3 DEF Loads, Quiet, Ranges, CallerRanges
<1> QED
  BY <1>3, <1>4, <1>5, <1>6, <1>7

\* likewise those of Create, Fork and a revival,
LEMMA MakeEffects ==
  ASSUME TypeOK, NEW c \in Callers
  PROVE  /\ Start(c) \/ Create(c) => Ranges' /\ Makes(c)
         /\ Branch(c) => Ranges' /\ (Makes(c) \/ Ends(c))
         /\ Publish(c) \/ Announce(c) => Ranges' /\ Publishes(c)
         /\ Save(c) => Ranges' /\ Saves(c)
         /\ SaveFails(c) => Ranges' /\ Undoes(c)
<1>1. /\ Ranges /\ CallerRanges /\ InHand(c) /\ arg[c] \in Ids \cup {None}
      /\ held[c] \in Objects \cup Callers \cup {None}
  BY TypeFacts
<1>2. {"publish", "save", "finish", "announce"} \subseteq Steps
  BY DEF Steps
<1>3. ASSUME NEW i \in Ids, NEW b \in BOOLEAN, NEW step \in {"publish", "save"}, Make(c, i, b),
             Goto(c, step), arg' = [arg EXCEPT ![c] = i], UNCHANGED <<row, sessions, reviving>>,
             (step = "publish" /\ pc[c] = "start" /\ i = arg[c])
               \/ (step = "save" /\ pc[c] \in {"idle", "branch"})
      PROVE  Ranges' /\ Makes(c)
  <2>1. PICK o \in Objects :
          /\ obj[o].st = "fresh" /\ held' = [held EXCEPT ![c] = o]
          /\ obj' \in [Objects -> ObjectType]
          /\ obj'[o].id = i /\ obj'[o].st = "idle" /\ obj'[o].fate = "none"
          /\ \A p \in Objects \ {o} : obj'[p] = obj[p]
    <3>1. Ranges /\ Make(c, i, b)
      BY <1>1, <1>3
    <3> HIDE <1>1, <1>3
    <3> QED
      BY <3>1, Made
  <2>2. CallerRanges' /\ Becomes(c, step, i, o)
    BY <1>1, <1>2, <1>3, <2>1, Moved
  <2> QED
    BY <1>1, <1>3, <2>1, <2>2 DEF Makes, Ranges, CallerRanges
<1>4. ASSUME Start(c) PROVE Ranges' /\ Makes(c)
  <2>1. arg[c] \in Ids /\ pc[c] = "start" /\ arg' = [arg EXCEPT ![c] = arg[c]]
    BY <1>1, <1>4 DEF Start, InHand, CallerRanges
  <2>2. Make(c, arg[c], TRUE) /\ Goto(c, "publish") /\ UNCHANGED <<row, sessions, reviving>>
    BY <1>4 DEF Start
  <2> QED
    BY <1>3, <2>1, <2>2
<1>5. ASSUME Create(c) PROVE Ranges' /\ Makes(c)
  <2>1. PICK i \in Ids : arg' = [arg EXCEPT ![c] = i] /\ Make(c, i, FALSE)
    BY <1>5 DEF Create, NewId
  <2>2. pc[c] = "idle" /\ Goto(c, "save") /\ UNCHANGED <<row, sessions, reviving>>
    BY <1>5 DEF Create
  <2> QED
    BY <1>3, <2>1, <2>2
<1>6. ASSUME Branch(c) PROVE Ranges' /\ (Makes(c) \/ Ends(c))
  <2>1. pc[c] = "branch" /\ UNCHANGED <<row, sessions, reviving>>
    BY <1>6 DEF Branch
  <2>2. CASE \E i \in NewId : arg' = [arg EXCEPT ![c] = i] /\ Make(c, i, FALSE) /\ Goto(c, "save")
    <3>1. PICK i \in Ids : arg' = [arg EXCEPT ![c] = i] /\ Make(c, i, FALSE) /\ Goto(c, "save")
      BY <2>2 DEF NewId
    <3> QED
      BY <1>3, <2>1, <3>1
  <2>3. CASE Return(c) /\ UNCHANGED obj
    <3>1. CallerRanges' /\ Becomes(c, "idle", None, None)
      BY <1>1, <2>3, Returned
    <3> QED
      BY <1>1, <2>1, <2>3, <3>1 DEF Ends, Ranges, CallerRanges
  <2> QED
    BY <1>6, <2>2, <2>3 DEF Branch
<1>7. ASSUME Publish(c) \/ Announce(c) PROVE Ranges' /\ Publishes(c)
  <2>1. /\ arg[c] \in Ids /\ held[c] \in Objects /\ pc[c] \in {"publish", "announce"}
        /\ Register(arg[c], held[c]) /\ UNCHANGED <<row, reviving>>
    BY <1>1, <1>7 DEF Publish, Announce, InHand, Holding
  <2>2. sessions' \in [Ids -> Objects \cup {None}] /\ obj' \in [Objects -> ObjectType]
    BY <1>1, <2>1, Registers
  <2>3. \/ pc[c] = "publish" /\ CallerRanges' /\ Becomes(c, "finish", arg[c], held[c])
        \/ pc[c] = "announce" /\ CallerRanges' /\ Becomes(c, "idle", None, None)
    BY <1>1, <1>2, <1>7, Went, Returned DEF Publish, Announce
  <2> QED
    BY <1>1, <2>1, <2>2, <2>3 DEF Publishes, Ranges, CallerRanges
<1>8. ASSUME Save(c) PROVE Ranges' /\ Saves(c)
  <2>1. CallerRanges' /\ Becomes(c, "announce", arg[c], held[c])
    BY <1>1, <1>2, <1>8, Went DEF Save
  <2> QED
    BY <1>1, <1>8, <2>1 DEF Save, Saves, Ranges, CallerRanges
<1>9. ASSUME SaveFails(c) PROVE Ranges' /\ Undoes(c)
  <2>1. CallerRanges' /\ Becomes(c, "idle", None, None)
    BY <1>1, <1>9, Returned DEF SaveFails
  <2>2. held[c] \in Objects /\ pc[c] = "save" /\ UNCHANGED <<sessions, reviving>>
        /\ (row' = row \/ row' = [row EXCEPT ![arg[c]] = "open"])
    BY <1>1, <1>9 DEF SaveFails, InHand, Holding
  <2> DEFINE n == [Unmade EXCEPT !.st = "over"]
  <2>3. n \in ObjectType /\ n.st = "over" /\ obj' = [obj EXCEPT ![held[c]] = n]
    BY <1>9 DEF SaveFails, Unmade, ObjectType, ObjStates, Fates
  <2> HIDE DEF n
  <2>4. /\ obj' \in [Objects -> ObjectType] /\ obj'[held[c]].st = "over"
        /\ \A p \in Objects \ {held[c]} : obj'[p] = obj[p]
    BY <1>1, <2>2, <2>3 DEF Ranges
  <2>5. row' \in [Ids -> {"absent", "open", "ended"}]
    BY <1>1, <2>2 DEF Ranges
  <2> QED
    BY <1>1, <2>1, <2>2, <2>4, <2>5 DEF Undoes, Ranges, CallerRanges
<1> QED
  BY <1>4, <1>5, <1>6, <1>7, <1>8, <1>9

\* those of Close,
LEMMA CloseEffects ==
  ASSUME TypeOK, NEW c \in Callers
  PROVE  /\ \A i \in Ids : Remove(c, i) => Ranges' /\ Removes(c)
         /\ MarkGone(c) => Ranges' /\ Ends(c)
         /\ Mark(c) => Ranges' /\ Marks(c)
         /\ MarkFails(c) \/ Stop(c) => Ranges' /\ Closes(c)
<1>1. /\ Ranges /\ CallerRanges /\ InHand(c) /\ arg[c] \in Ids \cup {None}
      /\ held[c] \in Objects \cup Callers \cup {None}
  BY TypeFacts
<1>2. {"markGone", "mark", "stop"} \subseteq Steps
  BY DEF Steps
<1>3. ASSUME NEW i \in Ids, Remove(c, i) PROVE Ranges' /\ Removes(c)
  <2>1. sessions[i] \in Objects \cup {None}
    BY <1>1 DEF Ranges
  <2> DEFINE step == IF sessions[i] = None THEN "markGone" ELSE "mark"
  <2>2. step \in Steps
    BY <1>2
  <2>3. Goto(c, step) /\ arg' = [arg EXCEPT ![c] = i] /\ held' = [held EXCEPT ![c] = sessions[i]]
    BY <1>3 DEF Remove
  <2> HIDE DEF step
  <2>4. CallerRanges' /\ Becomes(c, step, i, sessions[i])
    BY <1>1, <2>1, <2>2, <2>3, Moved
  <2>5. /\ sessions' \in [Ids -> Objects \cup {None}] /\ sessions'[i] = None
        /\ \A j \in Ids \ {i} : sessions'[j] = sessions[j]
    BY <1>1, <1>3 DEF Remove, Ranges
  <2>6. pc[c] = "idle" /\ row[i] # "absent" /\ UNCHANGED <<row, reviving, obj>>
    BY <1>3 DEF Remove
  <2> QED
    BY <1>1, <2>1, <2>4, <2>5, <2>6 DEF Removes, Ranges, CallerRanges, step
<1>4. ASSUME MarkGone(c) PROVE Ranges' /\ Ends(c)
  <2>1. CallerRanges' /\ Becomes(c, "idle", None, None)
    BY <1>1, <1>4, Returned DEF MarkGone
  <2>2. /\ pc[c] = "markGone" /\ UNCHANGED <<sessions, reviving, obj>>
        /\ row' = row \/ row' = [row EXCEPT ![arg[c]] = "ended"]
    BY <1>4 DEF MarkGone
  <2>3. row' \in [Ids -> {"absent", "open", "ended"}]
    BY <1>1, <2>2 DEF Ranges
  <2> QED
    BY <1>1, <2>1, <2>2, <2>3 DEF Ends, Ranges, CallerRanges
<1>5. ASSUME Mark(c) PROVE Ranges' /\ Marks(c)
  <2>1. CallerRanges' /\ Becomes(c, "stop", arg[c], held[c])
    BY <1>1, <1>2, <1>5, Went DEF Mark
  <2> QED
    BY <1>1, <1>5, <2>1 DEF Mark, Marks, Ranges, CallerRanges
<1>6. ASSUME MarkFails(c) PROVE Ranges' /\ Closes(c)
  <2>1. CallerRanges' /\ Becomes(c, "idle", None, None)
    BY <1>1, <1>6, Returned DEF MarkFails
  <2>2. /\ pc[c] = "mark" /\ held[c] \in Objects /\ UNCHANGED <<sessions, reviving>>
        /\ row' = row \/ row' = [row EXCEPT ![arg[c]] = "ended"]
        /\ obj' = [obj EXCEPT ![held[c]].fate = "leaked"]
    BY <1>1, <1>6 DEF MarkFails, InHand, Holding
  <2>3. row' \in [Ids -> {"absent", "open", "ended"}]
    BY <1>1, <2>2 DEF Ranges
  <2>4. obj[held[c]] \in ObjectType
    BY <1>1, <2>2 DEF Ranges
  <2>5. obj'[held[c]] = [obj[held[c]] EXCEPT !.fate = "leaked"]
        /\ \A p \in Objects \ {held[c]} : obj'[p] = obj[p]
    BY <1>1, <2>2 DEF Ranges
  <2>6. obj'[held[c]] \in ObjectType /\ obj'[held[c]].st = obj[held[c]].st
        /\ obj'[held[c]].id = obj[held[c]].id /\ obj'[held[c]].fate = "leaked"
    BY <2>4, <2>5 DEF ObjectType, Fates
  <2>7. obj' \in [Objects -> ObjectType]
    BY <1>1, <2>2, <2>5, <2>6 DEF Ranges
  <2> QED
    BY <1>1, <2>1, <2>2, <2>3, <2>5, <2>6, <2>7 DEF Closes, Ranges, CallerRanges
<1>7. ASSUME Stop(c) PROVE Ranges' /\ Closes(c)
  <2>1. CallerRanges' /\ Becomes(c, "idle", None, None)
    BY <1>1, <1>7, Returned DEF Stop
  <2>2. pc[c] = "stop" /\ held[c] \in Objects /\ UNCHANGED <<row, sessions, reviving>>
    BY <1>1, <1>7 DEF Stop, InHand, Holding
  <2> DEFINE p == obj[held[c]]
  <2>3. p \in ObjectType
    BY <1>1, <2>2 DEF Ranges
  <2>4. obj' = [obj EXCEPT ![held[c]] =
                  IF p.st = "live" THEN [p EXCEPT !.st = "closing", !.fate = "none"] ELSE p]
    BY <1>7 DEF Stop
  <2>5. /\ obj'[held[c]] = IF p.st = "live" THEN [p EXCEPT !.st = "closing", !.fate = "none"] ELSE p
        /\ \A q \in Objects \ {held[c]} : obj'[q] = obj[q]
    BY <1>1, <2>2, <2>4 DEF Ranges
  <2> HIDE DEF p
  <2>6. /\ obj'[held[c]] \in ObjectType /\ obj'[held[c]].id = p.id
        /\ IF p.st = "live" THEN obj'[held[c]].st = "closing" ELSE obj'[held[c]] = p
    <3>1. CASE p.st = "live"
      <4>1. obj'[held[c]] = [p EXCEPT !.st = "closing", !.fate = "none"]
        BY <2>5, <3>1
      <4> QED
        BY <2>3, <3>1, <4>1 DEF ObjectType, Fates, ObjStates
    <3>2. CASE p.st # "live"
      BY <2>3, <2>5, <3>2
    <3> QED
      BY <3>1, <3>2
  <2>7. obj' \in [Objects -> ObjectType]
    BY <1>1, <2>2, <2>4, <2>5, <2>6 DEF Ranges
  <2> QED
    BY <1>1, <2>1, <2>2, <2>5, <2>6, <2>7 DEF Closes, Ranges, CallerRanges, p
<1> QED
  BY <1>3, <1>4, <1>5, <1>6, <1>7

\* the deferred end of a revival,
LEMMA FinishEffects ==
  ASSUME TypeOK, NEW c \in Callers, Finish(c)
  PROVE  Ranges' /\ Finishes(c)
<1>1. Ranges /\ CallerRanges /\ InHand(c)
  BY TypeFacts
<1>2. arg[c] \in Ids /\ pc[c] = "finish" /\ UNCHANGED <<row, sessions, obj>>
      /\ reviving' = [reviving EXCEPT ![arg[c]] = None]
  BY <1>1 DEF Finish, InHand
<1> DEFINE done == {c} \cup {w \in Callers : pc[w] = "wait" /\ held[w] = c}
<1>3. PICK forks \in SUBSET done :
        /\ pc' = [w \in Callers |-> IF w \in forks THEN "branch"
                                    ELSE IF w \in done THEN "idle" ELSE pc[w]]
        /\ arg' = [w \in Callers |-> IF w \in done \ forks THEN None ELSE arg[w]]
        /\ held' = [w \in Callers |-> IF w \in done THEN None ELSE held[w]]
  BY DEF Finish
<1>4. \A w \in Callers : w \in done <=> w = c \/ (pc[w] = "wait" /\ held[w] = c)
  OBVIOUS
<1>5. forks \subseteq done
  OBVIOUS
<1> HIDE DEF done
<1>6. CallerRanges'
  BY <1>1, <1>3 DEF CallerRanges, Steps
<1>7. \A w \in Callers :
        IF w = c \/ (pc[w] = "wait" /\ held[w] = c)
        THEN /\ held'[w] = None
             /\ \/ pc'[w] = "idle" /\ arg'[w] = None
                \/ pc'[w] = "branch" /\ arg'[w] = arg[w]
        ELSE pc'[w] = pc[w] /\ arg'[w] = arg[w] /\ held'[w] = held[w]
  BY <1>3, <1>4, <1>5
<1>8. /\ reviving' \in [Ids -> Callers \cup {None}] /\ reviving'[arg[c]] = None
      /\ \A j \in Ids \ {arg[c]} : reviving'[j] = reviving[j]
  BY <1>1, <1>2 DEF Ranges
<1> QED
  BY <1>1, <1>2, <1>6, <1>7, <1>8 DEF Finishes, Quiet, Ranges, CallerRanges

\* and those of the pump.
LEMMA PumpEffects ==
  ASSUME TypeOK, NEW o \in Objects
  PROVE  /\ StreamEnds(o) => Ranges' /\ StreamStops(o)
         /\ ForgetEnded(o) => Ranges' /\ Forgets(o)
<1>1. Ranges /\ obj[o] \in ObjectType
  BY TypeParts DEF Ranges
<1>2. ASSUME StreamEnds(o) PROVE Ranges' /\ StreamStops(o)
  <2>1. /\ obj[o].st \in {"live", "closing"} /\ UNCHANGED <<row, sessions, reviving, pc, arg, held>>
        /\ obj' = [obj EXCEPT ![o].st = "ended", ![o].fate = "none"]
    BY <1>2 DEF StreamEnds
  <2>2. /\ obj'[o] = [obj[o] EXCEPT !.st = "ended", !.fate = "none"]
        /\ \A p \in Objects \ {o} : obj'[p] = obj[p]
    BY <1>1, <2>1 DEF Ranges, ObjectType
  <2>3. obj'[o] \in ObjectType /\ obj'[o].st = "ended" /\ obj'[o].id = obj[o].id
    BY <1>1, <2>2 DEF ObjectType, ObjStates, Fates
  <2>4. obj' \in [Objects -> ObjectType]
    BY <1>1, <2>1, <2>2, <2>3 DEF Ranges
  <2> QED
    BY <1>1, <2>1, <2>2, <2>3, <2>4 DEF StreamStops, Ranges
<1>3. ASSUME ForgetEnded(o) PROVE Ranges' /\ Forgets(o)
  <2> DEFINE n == [Unmade EXCEPT !.st = "over"]
             i == obj[o].id
  <2>1. /\ obj[o].st = "ended" /\ UNCHANGED <<row, reviving, pc, arg, held>>
        /\ obj' = [obj EXCEPT ![o] = n]
        /\ sessions' = [sessions EXCEPT ![i] = IF @ = o THEN None ELSE @]
    BY <1>3 DEF ForgetEnded
  <2>2. n \in ObjectType /\ n.st = "over"
    BY DEF Unmade, ObjectType, ObjStates, Fates
  <2> HIDE DEF n, i
  <2>3. /\ obj' \in [Objects -> ObjectType] /\ obj'[o].st = "over"
        /\ \A p \in Objects \ {o} : obj'[p] = obj[p]
    BY <1>1, <2>1, <2>2 DEF Ranges
  <2>4. /\ sessions' \in [Ids -> Objects \cup {None}]
        /\ \A j \in Ids : sessions'[j] = IF j = i /\ sessions[j] = o THEN None ELSE sessions[j]
    BY <1>1, <2>1 DEF Ranges
  <2> QED
    BY <1>1, <2>1, <2>3, <2>4 DEF Forgets, Ranges, i
<1> QED
  BY <1>2, <1>3

\* Every step has one of these effects.
LEMMA StepEffects ==
  ASSUME TypeOK, Next
  PROVE  /\ Ranges'
         /\ \/ \E c \in Callers : CallerSteps(c)
            \/ \E o \in Objects : StreamStops(o) \/ Forgets(o)
            \/ Crash
<1>1. CASE \E c \in Callers : \/ \E i \in Ids : Lookup(c, i) \/ Remove(c, i)
                              \/ Create(c) \/ Step(c)
  <2>1. PICK c \in Callers : \/ \E i \in Ids : Lookup(c, i) \/ Remove(c, i)
                             \/ Create(c) \/ Step(c)
    BY <1>1
  <2>2. CASE \/ \E i \in Ids : Lookup(c, i)
             \/ Check(c) \/ Drop(c) \/ Enter(c) \/ Load(c) \/ StartFails(c)
    BY <2>2, ResolveEffects DEF CallerSteps
  <2>3. CASE Start(c) \/ Create(c) \/ Branch(c) \/ Publish(c) \/ Announce(c) \/ Save(c) \/ SaveFails(c)
    BY <2>3, MakeEffects DEF CallerSteps
  <2>4. CASE (\E i \in Ids : Remove(c, i)) \/ MarkGone(c) \/ Mark(c) \/ MarkFails(c) \/ Stop(c)
    BY <2>4, CloseEffects DEF CallerSteps
  <2>5. CASE Finish(c)
    BY <2>5, FinishEffects DEF CallerSteps
  <2> QED
    BY <2>1, <2>2, <2>3, <2>4, <2>5 DEF Step
<1>2. CASE \E o \in Objects : StreamEnds(o) \/ ForgetEnded(o)
  BY <1>2, PumpEffects
<1>3. CASE Crash
  <2>1. Unmade \in ObjectType
    BY DEF Unmade, ObjectType, ObjStates, Fates
  <2>2. row \in [Ids -> {"absent", "open", "ended"}]
    BY TypeParts DEF Ranges
  <2> QED
    BY <1>3, <2>1, <2>2 DEF Crash, Ranges, Steps
<1> QED
  BY <1>1, <1>2, <1>3 DEF Next
-----------------------------------------------------------------------------
(* Types.                                                                     *)

\* Every step leaves each caller with what its next step needs.
LEMMA HandsKept ==
  ASSUME TypeOK, Next
  PROVE  \A c \in Callers : InHand(c)'
<1>1. \A d \in Callers : InHand(d) /\ pc[d] \in Steps
  BY TypeParts DEF Ranges
<1>2. CASE \E c \in Callers : CallerSteps(c)
  <2>1. PICK c \in Callers : CallerSteps(c)
    BY <1>2
  <2>2. CASE Finishes(c)
    BY <1>1, <2>2 DEF Finishes, InHand, Holding
  <2>3. ASSUME NEW step, NEW a, NEW h, Becomes(c, step, a, h),
               step \in Holding => h \in Objects, step = "wait" => h \in Callers,
               step # "idle" => a \in Ids
        PROVE  \A d \in Callers : InHand(d)'
    BY <1>1, <2>3 DEF Becomes, InHand
  <2>4. "enter" \notin Holding /\ "idle" \notin Holding /\ "branch" \notin Holding
        /\ "load" \notin Holding /\ "wait" \notin Holding /\ "start" \notin Holding
        /\ "finish" \notin Holding /\ "markGone" \notin Holding
    BY DEF Holding
  <2>5. pc[c] # "idle" => arg[c] \in Ids
    BY <1>1 DEF InHand
  <2>6. CASE Looks(c)
    BY <2>3, <2>4, <2>6 DEF Looks
  <2>7. CASE Checks(c)
    <3>1. held[c] \in Objects /\ arg[c] \in Ids
      BY <1>1, <2>7 DEF Checks, InHand, Holding
    <3> QED
      BY <2>3, <2>4, <2>7, <3>1 DEF Checks
  <2>8. CASE Drops(c)
    BY <2>3, <2>4, <2>5, <2>8 DEF Drops
  <2>9. CASE Enters(c)
    BY <2>3, <2>4, <2>5, <2>9 DEF Enters
  <2>10. CASE Loads(c)
    BY <2>3, <2>4, <2>5, <2>10 DEF Loads
  <2>11. CASE Makes(c)
    BY <2>3, <2>4, <2>11 DEF Makes
  <2>12. CASE Publishes(c)
    BY <2>3, <2>4, <2>5, <2>12 DEF Publishes
  <2>13. CASE Ends(c) \/ Undoes(c) \/ Closes(c)
    BY <2>3, <2>4, <2>13 DEF Ends, Undoes, Closes
  <2>14. CASE Saves(c)
    <3>1. held[c] \in Objects /\ arg[c] \in Ids
      BY <1>1, <2>14 DEF Saves, InHand, Holding
    <3> QED
      BY <2>3, <2>14, <3>1 DEF Saves
  <2>15. CASE Removes(c)
    BY <2>3, <2>4, <2>15 DEF Removes
  <2>16. CASE Marks(c)
    <3>1. held[c] \in Objects /\ arg[c] \in Ids
      BY <1>1, <2>16 DEF Marks, InHand, Holding
    <3> QED
      BY <2>3, <2>16, <3>1 DEF Marks
  <2> QED
    BY <2>1, <2>2, <2>6, <2>7, <2>8, <2>9, <2>10, <2>11, <2>12, <2>13, <2>14, <2>15, <2>16 DEF CallerSteps
<1>3. CASE UNCHANGED <<pc, arg, held>>
  BY <1>1, <1>3 DEF InHand
<1>4. CASE Crash
  BY <1>4 DEF Crash, InHand, Holding
<1> QED
  BY <1>2, <1>3, <1>4, StepEffects DEF StreamStops, Forgets

\* The types hold at first,
LEMMA TypesInit == Init => TypeOK
<1> SUFFICES ASSUME Init PROVE TypeOK
  OBVIOUS
<1>1. Unmade \in ObjectType
  BY DEF Unmade, ObjectType, ObjStates, Fates
<1>2. Ranges
  BY <1>1 DEF Init, Ranges, Steps
<1>3. \A c \in Callers : InHand(c)
  BY DEF Init, InHand, Holding
<1> QED
  BY <1>2, <1>3, TypeParts

\* and are kept by every step.
LEMMA TypesStep == TypeOK /\ [Next]_vars => TypeOK'
<1>1. ASSUME TypeOK, Next PROVE TypeOK'
  <2>1. Ranges' /\ \A c \in Callers : InHand(c)'
    BY <1>1, StepEffects, HandsKept
  <2> QED
    BY <2>1, TypeParts DEF TypeOK, Ranges, InHand, ObjectType
<1>2. ASSUME TypeOK, UNCHANGED vars PROVE TypeOK'
  BY <1>2 DEF TypeOK, vars
<1> QED
  BY <1>1, <1>2

\* Types, and every caller holds what its step works on, for any number of callers, sessions
\* and objects (manager.go:213, :251, :300).
THEOREM TypeCorrect == Spec => []TypeOK
  BY TypesInit, TypesStep, PTL DEF Spec
-----------------------------------------------------------------------------
(* The revivals.                                                              *)

Entries == \A i \in Ids, c \in Callers : reviving[i] = c <=> pc[c] \in Reviving /\ arg[c] = i
Waiters == \A w \in Callers : pc[w] = "wait" =>
             held[w] \in Callers /\ pc[held[w]] \in Reviving /\ arg[held[w]] = arg[w]

\* The property, read from the map's entries and from the waiters.
LEMMA RevivalParts == OneRevivalPerId <=> Entries /\ Waiters
  BY DEF OneRevivalPerId, Entries, Waiters

\* A caller that moves within its revival, or outside of any.
LEMMA RevivalFrame ==
  ASSUME Entries, Waiters, UNCHANGED reviving, NEW c \in Callers, NEW step, NEW a, NEW h,
         Becomes(c, step, a, h), step # "wait", step \in Reviving <=> pc[c] \in Reviving,
         step \in Reviving => a = arg[c]
  PROVE  Entries' /\ Waiters'
<1>1. \A d \in Callers : /\ pc'[d] \in Reviving <=> pc[d] \in Reviving
                         /\ pc[d] \in Reviving => arg'[d] = arg[d]
  BY DEF Becomes
<1>2. Entries'
  BY <1>1 DEF Entries
<1>3. \A w \in Callers : pc'[w] = "wait" => pc[w] = "wait" /\ held'[w] = held[w] /\ arg'[w] = arg[w]
  BY DEF Becomes
<1>4. Waiters'
  BY <1>1, <1>3 DEF Waiters
<1> QED
  BY <1>2, <1>4

\* Every step keeps both readings.
LEMMA RevivalStep ==
  ASSUME TypeOK, Entries, Waiters, Next
  PROVE  Entries' /\ Waiters'
<1> USE DEF Reviving
<1>1. \A d \in Callers : InHand(d) /\ pc[d] \in Steps
  BY TypeParts DEF Ranges
<1>2. ASSUME NEW c \in Callers, CallerSteps(c) PROVE Entries' /\ Waiters'
  <2>1. CASE Looks(c)
    BY <2>1, RevivalFrame DEF Looks
  <2>2. CASE Checks(c)
    BY <2>2, RevivalFrame DEF Checks
  <2>3. CASE Drops(c)
    BY <2>3, RevivalFrame DEF Drops
  <2>4. CASE Loads(c)
    BY <2>4, RevivalFrame DEF Loads
  <2>5. CASE Makes(c)
    BY <2>5, RevivalFrame DEF Makes
  <2>6. CASE Publishes(c)
    BY <2>6, RevivalFrame DEF Publishes
  <2>7. CASE Ends(c)
    BY <2>7, RevivalFrame DEF Ends
  <2>8. CASE Undoes(c)
    BY <2>8, RevivalFrame DEF Undoes
  <2>9. CASE Saves(c)
    BY <2>9, RevivalFrame DEF Saves
  <2>10. CASE Removes(c)
    BY <2>10, RevivalFrame DEF Removes
  <2>11. CASE Marks(c)
    BY <2>11, RevivalFrame DEF Marks
  <2>12. CASE Closes(c)
    BY <2>12, RevivalFrame DEF Closes
  <2>13. CASE Enters(c)
    <3>1. arg[c] \in Ids /\ pc[c] = "enter"
      BY <1>1, <2>13 DEF Enters, InHand
    <3>2. CASE reviving[arg[c]] \in Callers /\ UNCHANGED reviving
               /\ Becomes(c, "wait", arg[c], reviving[arg[c]])
      <4> DEFINE d == reviving[arg[c]]
      <4>1. d \in Callers /\ pc[d] \in Reviving /\ arg[d] = arg[c] /\ d # c
        BY <3>1, <3>2 DEF Entries
      <4>2. \A w \in Callers : /\ pc'[w] \in Reviving <=> pc[w] \in Reviving
                               /\ arg'[w] = arg[w]
        BY <3>1, <3>2 DEF Becomes
      <4>3. Entries'
        BY <3>2, <4>2 DEF Entries
      <4>4. ASSUME NEW w \in Callers, pc'[w] = "wait"
            PROVE  held'[w] \in Callers /\ pc'[held'[w]] \in Reviving /\ arg'[held'[w]] = arg'[w]
        <5>1. CASE w = c
          <6>1. held'[w] = d
            BY <3>2, <5>1 DEF Becomes
          <6> QED
            BY <4>1, <4>2, <5>1, <6>1
        <5>2. CASE w # c
          <6>1. pc[w] = "wait" /\ held'[w] = held[w]
            BY <3>2, <4>4, <5>2 DEF Becomes
          <6> QED
            BY <4>2, <6>1 DEF Waiters
        <5> QED
          BY <5>1, <5>2
      <4> QED
        BY <4>3, <4>4 DEF Waiters
    <3>3. CASE /\ reviving[arg[c]] = None /\ Becomes(c, "load", arg[c], held[c])
               /\ reviving'[arg[c]] = c /\ \A j \in Ids \ {arg[c]} : reviving'[j] = reviving[j]
      <4>1. \A d \in Callers : d # None
        BY ConstantsOK
      <4>2. \A d \in Callers : /\ arg'[d] = arg[d]
                               /\ pc'[d] = IF d = c THEN "load" ELSE pc[d]
                               /\ held'[d] = held[d]
        BY <3>3 DEF Becomes
      <4>3. \A d \in Callers : ~(pc[d] \in Reviving /\ arg[d] = arg[c])
        BY <3>1, <3>3, <4>1 DEF Entries
      <4>4. ASSUME NEW i \in Ids, NEW d \in Callers
            PROVE  reviving'[i] = d <=> pc'[d] \in Reviving /\ arg'[d] = i
        <5>1. CASE i = arg[c]
          <6>1. reviving'[i] = c
            BY <3>3, <5>1
          <6> QED
            BY <4>2, <4>3, <5>1, <6>1
        <5>2. CASE i # arg[c]
          <6>1. reviving'[i] = reviving[i]
            BY <3>3, <5>2
          <6> QED
            BY <3>1, <4>2, <5>2, <6>1 DEF Entries
        <5> QED
          BY <5>1, <5>2
      <4>5. Waiters'
        BY <4>2 DEF Waiters
      <4> QED
        BY <4>4, <4>5 DEF Entries
    <3> QED
      BY <2>13, <3>2, <3>3 DEF Enters
  <2>14. CASE Finishes(c)
    <3>1. arg[c] \in Ids /\ pc[c] = "finish" /\ reviving[arg[c]] = c
      BY <1>1, <2>14 DEF Finishes, InHand, Entries
    <3>2. \A d \in Callers : d # None
      BY ConstantsOK
    <3>3. \A d \in Callers : /\ pc'[d] \in Reviving <=> (pc[d] \in Reviving /\ d # c)
                             /\ pc'[d] \in Reviving => arg'[d] = arg[d]
      BY <2>14, <3>1 DEF Finishes
    <3>4. ASSUME NEW i \in Ids, NEW d \in Callers
          PROVE  reviving'[i] = d <=> pc'[d] \in Reviving /\ arg'[d] = i
      <4>1. CASE i = arg[c]
        <5>1. reviving'[i] = None
          BY <2>14, <4>1 DEF Finishes
        <5>2. pc[d] \in Reviving /\ arg[d] = i => d = c
          BY <3>1, <4>1 DEF Entries
        <5> QED
          BY <3>2, <3>3, <5>1, <5>2
      <4>2. CASE i # arg[c]
        <5>1. reviving'[i] = reviving[i]
          BY <2>14, <4>2 DEF Finishes
        <5> QED
          BY <3>1, <3>3, <4>2, <5>1 DEF Entries
      <4> QED
        BY <4>1, <4>2
    <3>5. ASSUME NEW w \in Callers, pc'[w] = "wait"
          PROVE  held'[w] \in Callers /\ pc'[held'[w]] \in Reviving /\ arg'[held'[w]] = arg'[w]
      <4>1. pc[w] = "wait" /\ held[w] # c /\ held'[w] = held[w] /\ arg'[w] = arg[w]
        BY <2>14, <3>5 DEF Finishes
      <4> QED
        BY <3>3, <4>1 DEF Waiters
    <3> QED
      BY <3>4, <3>5 DEF Entries, Waiters
  <2> QED
    BY <1>2, <2>1, <2>2, <2>3, <2>4, <2>5, <2>6, <2>7, <2>8, <2>9, <2>10, <2>11, <2>12, <2>13, <2>14
       DEF CallerSteps
<1>3. CASE UNCHANGED <<reviving, pc, arg, held>>
  BY <1>3 DEF Entries, Waiters
<1>4. CASE Crash
  BY <1>4, ConstantsOK DEF Crash, Entries, Waiters
<1> QED
  BY <1>2, <1>3, <1>4, StepEffects DEF StreamStops, Forgets

\* The revivals of a session are one at a time, and nobody waits for one that is over, for
\* any number of callers and sessions (manager.go:213).
THEOREM RevivalCorrect == Spec => []OneRevivalPerId
<1>1. Init => Entries /\ Waiters
  BY ConstantsOK DEF Init, Entries, Waiters, Reviving
<1>2. TypeOK /\ Entries /\ Waiters /\ [Next]_vars => Entries' /\ Waiters'
  <2>1. ASSUME Entries, Waiters, UNCHANGED vars PROVE Entries' /\ Waiters'
    BY <2>1 DEF Entries, Waiters, vars
  <2> QED
    BY <2>1, RevivalStep
<1> QED
  BY <1>1, <1>2, TypeCorrect, RevivalParts, PTL DEF Spec
-----------------------------------------------------------------------------
(* The registry and the objects.                                              *)

\* The steps of a caller whose session id has a row.
Known == {"check", "drop", "enter", "wait", "load", "start", "publish", "finish", "announce",
          "markGone", "mark", "stop"}
Making == {"publish", "save", "announce"}
Closing == {"mark", "stop"}

Rows == \A c \in Callers : pc[c] \in Known => row[arg[c]] # "absent"

\* An object that is not published is in the hands of one caller.
Makers == /\ \A c \in Callers : pc[c] \in Making =>
               obj[held[c]].st = "idle" /\ obj[held[c]].id = arg[c]
          /\ \A c, d \in Callers : pc[c] \in Making /\ pc[d] \in Making /\ held[c] = held[d] => c = d

\* What Resolve drops is over; what Close stops was published and is out of the registry.
Droppers == \A c \in Callers : pc[c] = "drop" => obj[held[c]].st \in {"ended", "over"}
Closers == \A c \in Callers : pc[c] \in Closing =>
             /\ obj[held[c]].st \in {"live", "closing", "ended", "over"}
             /\ \A i \in Ids : sessions[i] # held[c]

Registered == \A i \in Ids : sessions[i] # None =>
                /\ row[i] # "absent"
                /\ obj[sessions[i]].id = i /\ obj[sessions[i]].st \in {"live", "ended"}

Accounted == \A o \in Objects : obj[o].st = "live" =>
               \/ obj[o].id \in Ids /\ sessions[obj[o].id] = o
               \/ \E c \in Callers : held[c] = o /\ pc[c] \in Closing
               \/ obj[o].fate \in {"replaced", "leaked"}

\* What is in the registry once a Close has looked into it was published late.
Overtaken == \A i \in Ids : sessions[i] # None /\ CloseHasLooked(i) /\ obj[sessions[i]].st = "live"
               => obj[sessions[i]].fate # "none"

RegistryInv == Rows /\ Makers /\ Droppers /\ Closers /\ Registered /\ Accounted /\ Overtaken

\* Both properties follow.
LEMMA RegistryImplies == TypeOK /\ RegistryInv => LiveIsAccountedFor /\ ClosedIsOver
<1> SUFFICES ASSUME TypeOK, RegistryInv PROVE LiveIsAccountedFor /\ ClosedIsOver
  OBVIOUS
<1>1. LiveIsAccountedFor
  BY DEF RegistryInv, Registered, Accounted, LiveIsAccountedFor, Closing
<1>2. ASSUME NEW o \in Objects, obj[o].st = "live", row[obj[o].id] = "ended",
             ~\E c \in Callers : held[c] = o /\ pc[c] \in {"mark", "stop"}, obj[o].fate = "none"
      PROVE  FALSE
  <2>1. obj[o].id \in Ids /\ sessions[obj[o].id] = o /\ o # None
    BY <1>2, ConstantsOK DEF RegistryInv, Accounted, Closing
  <2>2. CloseHasLooked(obj[o].id)
    BY <1>2 DEF CloseHasLooked
  <2> QED
    BY <1>2, <2>1, <2>2 DEF RegistryInv, Overtaken
<1> QED
  BY <1>1, <1>2 DEF ClosedIsOver

\* Facts about every caller and every session id.
LEMMA CallerFacts ==
  ASSUME TypeOK
  PROVE  /\ \A c \in Callers : InHand(c) /\ pc[c] \in Steps
         /\ \A i \in Ids : sessions[i] \in Objects \cup {None}
         /\ row \in [Ids -> {"absent", "open", "ended"}]
         /\ None \notin Objects /\ None \notin Ids
  BY TypeParts, ConstantsOK DEF Ranges

\* A step that leaves rows, registry and objects alone, and moves nobody into or out of the
\* steps that make or close.
Calm == /\ UNCHANGED <<row, sessions, obj>>
        /\ \A d \in Callers :
             /\ pc'[d] \in Making \cup Closing \cup {"markGone"} =>
                  pc'[d] = pc[d] /\ held'[d] = held[d] /\ arg'[d] = arg[d]
             /\ pc[d] \in Closing => pc'[d] = pc[d] /\ held'[d] = held[d]
             /\ pc'[d] = "drop" => obj[held'[d]].st \in {"ended", "over"}
             /\ pc'[d] \in Known => row[arg'[d]] # "absent"

\* Steps that touch neither registry nor sessions are calm,
LEMMA CalmSteps ==
  ASSUME TypeOK, RegistryInv, NEW c \in Callers,
         Looks(c) \/ Checks(c) \/ Enters(c) \/ Loads(c) \/ Finishes(c)
  PROVE  Calm
<1> USE DEF Known, Making, Closing
<1>1. /\ \A d \in Callers : pc[d] \in Known => row[arg[d]] # "absent"
      /\ \A d \in Callers : pc[d] = "drop" => obj[held[d]].st \in {"ended", "over"}
  BY DEF RegistryInv, Rows, Droppers
<1>2. CASE Looks(c)
  BY <1>1, <1>2 DEF Looks, Quiet, Becomes, Calm
<1>3. CASE Checks(c)
  BY <1>1, <1>3 DEF Checks, Quiet, Becomes, Calm
<1>4. CASE Enters(c)
  BY <1>1, <1>4 DEF Enters, Quiet, Becomes, Calm
<1>5. CASE Loads(c)
  BY <1>1, <1>5 DEF Loads, Quiet, Becomes, Calm
<1>6. CASE Finishes(c)
  BY <1>1, <1>6 DEF Finishes, Quiet, Calm
<1> QED
  BY <1>2, <1>3, <1>4, <1>5, <1>6

\* and calm steps keep the invariant.
LEMMA CalmKeeps ==
  ASSUME RegistryInv, Calm
  PROVE  RegistryInv'
<1>1. Rows' /\ Droppers'
  BY DEF Calm, Rows, Droppers
<1>2. Makers'
  BY DEF Calm, RegistryInv, Makers
<1>3. Closers' /\ Registered'
  BY DEF Calm, RegistryInv, Closers, Registered
<1>4. Accounted'
  BY DEF Calm, RegistryInv, Accounted
<1>5. Overtaken'
  <2>1. \A i : CloseHasLooked(i)' => CloseHasLooked(i)
    BY DEF Calm, CloseHasLooked, Closing
  <2> QED
    BY <2>1 DEF Calm, RegistryInv, Overtaken
<1> QED
  BY <1>1, <1>2, <1>3, <1>4, <1>5 DEF RegistryInv

\* Resolve drops what is over.
LEMMA DropsKeeps ==
  ASSUME TypeOK, RegistryInv, NEW c \in Callers, Drops(c)
  PROVE  RegistryInv'
<1> USE DEF Known, Making, Closing
<1>1. Rows'
  BY CallerFacts DEF RegistryInv, Drops, Becomes, InHand, Rows
<1>2. Makers'
  BY CallerFacts DEF RegistryInv, Drops, Becomes, InHand, Makers
<1>3. Droppers'
  BY CallerFacts DEF RegistryInv, Drops, Becomes, InHand, Holding, Makers, Droppers
<1>4. Closers'
  BY CallerFacts DEF RegistryInv, Drops, Becomes, InHand, Holding, Makers, Closers, Registered
<1>5. Registered'
  BY CallerFacts DEF RegistryInv, Drops, Becomes, InHand, Holding, Rows, Makers, Closers, Registered
<1>6. Accounted'
  BY CallerFacts DEF RegistryInv, Drops, Becomes, InHand, Holding, Makers, Droppers, Closers, Registered, Accounted
<1>7. Overtaken'
  BY CallerFacts DEF RegistryInv, Drops, Becomes, InHand, Holding, Makers, Closers, Registered, Overtaken,
       CloseHasLooked
<1> QED
  BY <1>1, <1>2, <1>3, <1>4, <1>5, <1>6, <1>7 DEF RegistryInv

\* A new object is in nobody else's hands.
LEMMA MakesKeeps ==
  ASSUME TypeOK, RegistryInv, NEW c \in Callers, Makes(c)
  PROVE  RegistryInv'
<1> USE DEF Known, Making, Closing
<1>1. Rows'
  BY CallerFacts DEF RegistryInv, Makes, Becomes, InHand, Rows
<1>2. Makers'
  BY CallerFacts DEF RegistryInv, Makes, Becomes, InHand, Holding, Makers
<1>3. Droppers'
  BY CallerFacts DEF RegistryInv, Makes, Becomes, InHand, Holding, Makers, Droppers
<1>4. Closers'
  BY CallerFacts DEF RegistryInv, Makes, Becomes, InHand, Holding, Makers, Closers, Registered
<1>5. Registered'
  BY CallerFacts DEF RegistryInv, Makes, Becomes, InHand, Holding, Rows, Makers, Closers, Registered
<1>6. Accounted'
  BY CallerFacts DEF RegistryInv, Makes, Becomes, InHand, Holding, Makers, Droppers, Closers, Registered, Accounted
<1>7. Overtaken'
  BY CallerFacts DEF RegistryInv, Makes, Becomes, InHand, Holding, Makers, Closers, Registered, Overtaken,
       CloseHasLooked
<1> QED
  BY <1>1, <1>2, <1>3, <1>4, <1>5, <1>6, <1>7 DEF RegistryInv

\* What is published is in the registry, late when a Close has looked.
LEMMA PublishesKeeps ==
  ASSUME TypeOK, RegistryInv, NEW c \in Callers, Publishes(c)
  PROVE  RegistryInv'
<1> USE DEF Known, Making, Closing
<1>1. PICK i \in Ids, o \in Objects : i = arg[c] /\ o = held[c]
  BY CallerFacts DEF Publishes, InHand, Holding
<1>2. Ranges
  BY TypeParts
<1>3. Register(i, o)
  BY <1>1 DEF Publishes
<1>4. /\ sessions'[i] = o /\ \A j \in Ids \ {i} : sessions'[j] = sessions[j]
      /\ obj'[o].st = "live" /\ obj'[o].id = obj[o].id
      /\ obj'[o].fate = IF CloseHasLooked(i) THEN "late" ELSE obj[o].fate
      /\ \A p \in Objects \ {o} :
           /\ obj'[p].st = obj[p].st /\ obj'[p].id = obj[p].id
           /\ obj'[p].fate = IF p = sessions[i] THEN "replaced" ELSE obj[p].fate
  BY <1>2, <1>3, Registers
<1>5. obj[o].st = "idle" /\ obj[o].id = i /\ pc[c] \in Making
  BY <1>1 DEF Publishes, RegistryInv, Makers
<1>6. \A d \in Callers \ {c} : pc[d] \in Making => held[d] # o
  BY <1>1, <1>5 DEF RegistryInv, Makers
<1>7. \A d \in Callers : pc[d] \in Closing \cup {"drop"} => held[d] # o
  BY <1>5 DEF RegistryInv, Closers, Droppers
<1>8. /\ UNCHANGED row /\ \A d \in Callers \ {c} : pc'[d] = pc[d] /\ arg'[d] = arg[d] /\ held'[d] = held[d]
      /\ pc'[c] \in {"finish", "idle"} /\ (pc'[c] = "finish" => pc[c] = "publish" /\ arg'[c] = i)
  BY <1>1 DEF Publishes, Becomes
<1>9. \A j \in Ids : sessions[j] # o /\ sessions[j] \in Objects \cup {None}
  BY <1>5, CallerFacts DEF RegistryInv, Registered
<1>10. row[i] # "absent"
  BY <1>1 DEF Publishes, RegistryInv, Rows
<1>11. \A d \in Callers : pc[d] \in Holding => held[d] \in Objects
  BY CallerFacts DEF InHand
<1>12. Rows'
  BY <1>8, <1>10 DEF RegistryInv, Rows
<1>13. Makers'
  <2>1. ASSUME NEW d \in Callers, pc'[d] \in Making
        PROVE  obj'[held'[d]].st = "idle" /\ obj'[held'[d]].id = arg'[d]
    <3>1. d # c /\ pc[d] \in Making /\ held'[d] = held[d] /\ arg'[d] = arg[d]
      BY <1>8, <2>1
    <3>2. held[d] \in Objects \ {o}
      BY <1>6, <1>11, <3>1 DEF Holding
    <3> QED
      BY <1>4, <3>1, <3>2 DEF RegistryInv, Makers
  <2> QED
    BY <1>8, <2>1 DEF RegistryInv, Makers
<1>14. ASSUME NEW d \in Callers, pc'[d] \in Closing \cup {"drop"}
       PROVE  /\ pc[d] = pc'[d] /\ held'[d] = held[d] /\ held[d] \in Objects \ {o}
              /\ obj'[held[d]].st = obj[held[d]].st
  <2>1. d # c /\ pc[d] = pc'[d] /\ held'[d] = held[d]
    BY <1>8, <1>14
  <2>2. held[d] \in Objects \ {o}
    BY <1>7, <1>11, <1>14, <2>1 DEF Holding
  <2> QED
    BY <1>4, <2>1, <2>2
<1>15. Droppers'
  BY <1>14 DEF RegistryInv, Droppers
<1>16. Closers'
  BY <1>4, <1>14 DEF RegistryInv, Closers
<1>17. Registered'
  BY <1>4, <1>5, <1>8, <1>9, <1>10 DEF RegistryInv, Registered
<1>18. Accounted'
  <2> SUFFICES ASSUME NEW p \in Objects, obj'[p].st = "live"
               PROVE  \/ obj'[p].id \in Ids /\ sessions'[obj'[p].id] = p
                      \/ \E d \in Callers : held'[d] = p /\ pc'[d] \in Closing
                      \/ obj'[p].fate \in {"replaced", "leaked"}
    BY DEF Accounted
  <2>1. CASE p = o
    BY <1>4, <1>5, <2>1
  <2>2. CASE p # o
    <3>1. obj[p].st = "live" /\ obj'[p].id = obj[p].id
          /\ obj'[p].fate = IF p = sessions[i] THEN "replaced" ELSE obj[p].fate
      BY <1>4, <2>2
    <3>2. CASE \E d \in Callers : held[d] = p /\ pc[d] \in Closing
      BY <1>5, <1>8, <3>2
    <3>3. CASE obj[p].id \in Ids /\ sessions[obj[p].id] = p
      BY <1>4, <3>1, <3>3
    <3> QED
      BY <3>1, <3>2, <3>3 DEF RegistryInv, Accounted
  <2> QED
    BY <2>1, <2>2
<1>19. Overtaken'
  <2>1. \A j : CloseHasLooked(j)' => CloseHasLooked(j)
    BY <1>8 DEF CloseHasLooked
  <2> SUFFICES ASSUME NEW j \in Ids, sessions'[j] # None, CloseHasLooked(j), obj'[sessions'[j]].st = "live"
               PROVE  obj'[sessions'[j]].fate # "none"
    BY <2>1 DEF Overtaken
  <2>2. CASE j = i
    BY <1>4, <2>2
  <2>3. CASE j # i
    <3>1. sessions'[j] = sessions[j] /\ sessions[j] \in Objects \ {o}
      BY <1>4, <1>9, <2>3
    <3> QED
      BY <1>4, <3>1 DEF RegistryInv, Overtaken
  <2> QED
    BY <2>2, <2>3
<1> QED
  BY <1>12, <1>13, <1>15, <1>16, <1>17, <1>18, <1>19 DEF RegistryInv

\* A call of another kind ends.
LEMMA EndsKeeps ==
  ASSUME TypeOK, RegistryInv, NEW c \in Callers, Ends(c)
  PROVE  RegistryInv'
<1> USE DEF Known, Making, Closing
<1>1. Rows'
  BY CallerFacts DEF RegistryInv, Ends, Becomes, InHand, Rows
<1>2. Makers'
  BY CallerFacts DEF RegistryInv, Ends, Becomes, InHand, Makers
<1>3. Droppers'
  BY CallerFacts DEF RegistryInv, Ends, Becomes, InHand, Holding, Makers, Droppers
<1>4. Closers'
  BY CallerFacts DEF RegistryInv, Ends, Becomes, InHand, Holding, Makers, Closers, Registered
<1>5. Registered'
  BY CallerFacts DEF RegistryInv, Ends, Becomes, InHand, Holding, Rows, Makers, Closers, Registered
<1>6. Accounted'
  BY CallerFacts DEF RegistryInv, Ends, Becomes, InHand, Holding, Makers, Droppers, Closers, Registered, Accounted
<1>7. Overtaken'
  BY CallerFacts DEF RegistryInv, Ends, Becomes, InHand, Holding, Makers, Closers, Registered, Overtaken,
       CloseHasLooked
<1> QED
  BY <1>1, <1>2, <1>3, <1>4, <1>5, <1>6, <1>7 DEF RegistryInv

\* The row of a new session is written.
LEMMA SavesKeeps ==
  ASSUME TypeOK, RegistryInv, NEW c \in Callers, Saves(c)
  PROVE  RegistryInv'
<1> USE DEF Known, Making, Closing
<1>1. Rows'
  BY CallerFacts DEF RegistryInv, Saves, Becomes, InHand, Rows
<1>2. Makers'
  BY CallerFacts DEF RegistryInv, Saves, Becomes, InHand, Makers
<1>3. Droppers'
  BY CallerFacts DEF RegistryInv, Saves, Becomes, InHand, Holding, Makers, Droppers
<1>4. Closers'
  BY CallerFacts DEF RegistryInv, Saves, Becomes, InHand, Holding, Makers, Closers, Registered
<1>5. Registered'
  BY CallerFacts DEF RegistryInv, Saves, Becomes, InHand, Holding, Rows, Makers, Closers, Registered
<1>6. Accounted'
  BY CallerFacts DEF RegistryInv, Saves, Becomes, InHand, Holding, Makers, Droppers, Closers, Registered, Accounted
<1>7. Overtaken'
  BY CallerFacts DEF RegistryInv, Saves, Becomes, InHand, Holding, Makers, Closers, Registered, Overtaken,
       CloseHasLooked
<1> QED
  BY <1>1, <1>2, <1>3, <1>4, <1>5, <1>6, <1>7 DEF RegistryInv

\* Or it is not.
LEMMA UndoesKeeps ==
  ASSUME TypeOK, RegistryInv, NEW c \in Callers, Undoes(c)
  PROVE  RegistryInv'
<1> USE DEF Known, Making, Closing
<1>1. Rows'
  BY CallerFacts DEF RegistryInv, Undoes, Becomes, InHand, Rows
<1>2. Makers'
  BY CallerFacts DEF RegistryInv, Undoes, Becomes, InHand, Holding, Makers
<1>3. Droppers'
  BY CallerFacts DEF RegistryInv, Undoes, Becomes, InHand, Holding, Makers, Droppers
<1>4. Closers'
  BY CallerFacts DEF RegistryInv, Undoes, Becomes, InHand, Holding, Makers, Closers, Registered
<1>5. Registered'
  BY CallerFacts DEF RegistryInv, Undoes, Becomes, InHand, Holding, Rows, Makers, Closers, Registered
<1>6. Accounted'
  BY CallerFacts DEF RegistryInv, Undoes, Becomes, InHand, Holding, Makers, Droppers, Closers, Registered, Accounted
<1>7. Overtaken'
  BY CallerFacts DEF RegistryInv, Undoes, Becomes, InHand, Holding, Makers, Closers, Registered, Overtaken,
       CloseHasLooked
<1> QED
  BY <1>1, <1>2, <1>3, <1>4, <1>5, <1>6, <1>7 DEF RegistryInv

\* Close takes a session out of the registry.
LEMMA RemovesKeeps ==
  ASSUME TypeOK, RegistryInv, NEW c \in Callers, Removes(c)
  PROVE  RegistryInv'
<1> USE DEF Known, Making, Closing
<1>1. Rows'
  BY CallerFacts DEF RegistryInv, Removes, Becomes, InHand, Rows
<1>2. Makers'
  BY CallerFacts DEF RegistryInv, Removes, Becomes, InHand, Makers
<1>3. Droppers'
  BY CallerFacts DEF RegistryInv, Removes, Becomes, InHand, Holding, Makers, Droppers
<1>4. Closers'
  BY CallerFacts DEF RegistryInv, Removes, Becomes, InHand, Holding, Makers, Closers, Registered
<1>5. Registered'
  BY CallerFacts DEF RegistryInv, Removes, Becomes, InHand, Holding, Rows, Makers, Closers, Registered
<1>6. Accounted'
  BY CallerFacts DEF RegistryInv, Removes, Becomes, InHand, Holding, Makers, Droppers, Closers, Registered, Accounted
<1>7. Overtaken'
  BY CallerFacts DEF RegistryInv, Removes, Becomes, InHand, Holding, Makers, Closers, Registered, Overtaken,
       CloseHasLooked
<1> QED
  BY <1>1, <1>2, <1>3, <1>4, <1>5, <1>6, <1>7 DEF RegistryInv

\* It marks the row, which it has looked past.
LEMMA MarksKeeps ==
  ASSUME TypeOK, RegistryInv, NEW c \in Callers, Marks(c)
  PROVE  RegistryInv'
<1> USE DEF Known, Making, Closing
<1>1. Rows'
  BY CallerFacts DEF RegistryInv, Marks, Becomes, InHand, Rows
<1>2. Makers'
  BY CallerFacts DEF RegistryInv, Marks, Becomes, InHand, Makers
<1>3. Droppers'
  BY CallerFacts DEF RegistryInv, Marks, Becomes, InHand, Holding, Makers, Droppers
<1>4. Closers'
  BY CallerFacts DEF RegistryInv, Marks, Becomes, InHand, Holding, Makers, Closers, Registered
<1>5. Registered'
  BY CallerFacts DEF RegistryInv, Marks, Becomes, InHand, Holding, Rows, Makers, Closers, Registered
<1>6. Accounted'
  BY CallerFacts DEF RegistryInv, Marks, Becomes, InHand, Holding, Makers, Droppers, Closers, Registered, Accounted
<1>7. Overtaken'
  BY CallerFacts DEF RegistryInv, Marks, Becomes, InHand, Holding, Makers, Closers, Registered, Overtaken,
       CloseHasLooked
<1> QED
  BY <1>1, <1>2, <1>3, <1>4, <1>5, <1>6, <1>7 DEF RegistryInv

\* And it stops the session, or fails before.
LEMMA ClosesKeeps ==
  ASSUME TypeOK, RegistryInv, NEW c \in Callers, Closes(c)
  PROVE  RegistryInv'
<1> USE DEF Known, Making, Closing
<1>1. Rows'
  BY CallerFacts DEF RegistryInv, Closes, Becomes, InHand, Rows
<1>2. Makers'
  BY CallerFacts DEF RegistryInv, Closes, Becomes, InHand, Holding, Makers
<1>3. Droppers'
  BY CallerFacts DEF RegistryInv, Closes, Becomes, InHand, Holding, Makers, Droppers
<1>4. Closers'
  BY CallerFacts DEF RegistryInv, Closes, Becomes, InHand, Holding, Makers, Closers, Registered
<1>5. Registered'
  BY CallerFacts DEF RegistryInv, Closes, Becomes, InHand, Holding, Rows, Makers, Closers, Registered
<1>6. Accounted'
  BY CallerFacts DEF RegistryInv, Closes, Becomes, InHand, Holding, Makers, Droppers, Closers, Registered, Accounted
<1>7. Overtaken'
  BY CallerFacts DEF RegistryInv, Closes, Becomes, InHand, Holding, Makers, Closers, Registered, Overtaken,
       CloseHasLooked
<1> QED
  BY <1>1, <1>2, <1>3, <1>4, <1>5, <1>6, <1>7 DEF RegistryInv

\* The stream of an object ends.
LEMMA StreamStopsKeeps ==
  ASSUME TypeOK, RegistryInv, NEW o \in Objects, StreamStops(o)
  PROVE  RegistryInv'
<1> USE DEF Known, Making, Closing
<1>1. Rows'
  BY DEF RegistryInv, StreamStops, Rows
<1>2. Makers'
  BY CallerFacts DEF RegistryInv, StreamStops, Makers, InHand, Holding
<1>3. Droppers'
  BY CallerFacts DEF RegistryInv, StreamStops, Droppers, InHand, Holding
<1>4. Closers'
  BY CallerFacts DEF RegistryInv, StreamStops, InHand, Holding, Closers, Registered
<1>5. Registered'
  BY CallerFacts DEF RegistryInv, StreamStops, Registered
<1>6. Accounted'
  BY CallerFacts DEF RegistryInv, StreamStops, Registered, Accounted
<1>7. Overtaken'
  BY CallerFacts DEF RegistryInv, StreamStops, Registered, Overtaken, CloseHasLooked
<1> QED
  BY <1>1, <1>2, <1>3, <1>4, <1>5, <1>6, <1>7 DEF RegistryInv

\* Its pump takes it out of the registry, and only it.
LEMMA ForgetsKeeps ==
  ASSUME TypeOK, RegistryInv, NEW o \in Objects, Forgets(o)
  PROVE  RegistryInv'
<1> USE DEF Known, Making, Closing
<1>1. Rows'
  BY DEF RegistryInv, Forgets, Rows
<1>2. Makers'
  BY CallerFacts DEF RegistryInv, Forgets, Makers, InHand, Holding
<1>3. Droppers'
  BY CallerFacts DEF RegistryInv, Forgets, Droppers, InHand, Holding
<1>4. Closers'
  BY CallerFacts DEF RegistryInv, Forgets, InHand, Holding, Closers, Registered
<1>5. Registered'
  BY CallerFacts DEF RegistryInv, Forgets, Registered
<1>6. Accounted'
  BY CallerFacts DEF RegistryInv, Forgets, Registered, Accounted
<1>7. Overtaken'
  BY CallerFacts DEF RegistryInv, Forgets, Registered, Overtaken, CloseHasLooked
<1> QED
  BY <1>1, <1>2, <1>3, <1>4, <1>5, <1>6, <1>7 DEF RegistryInv

\* Hence it holds throughout.
LEMMA RegistryInvHolds == Spec => []RegistryInv
<1>1. Init => RegistryInv
  BY DEF Init, RegistryInv, Rows, Makers, Droppers, Closers, Registered, Accounted, Overtaken, Unmade,
     Known, Making, Closing
<1>2. TypeOK /\ RegistryInv /\ [Next]_vars => RegistryInv'
  <2> SUFFICES ASSUME TypeOK, RegistryInv, [Next]_vars PROVE RegistryInv'
    OBVIOUS
  <2>1. CASE UNCHANGED vars
    BY <2>1 DEF vars, RegistryInv, Rows, Makers, Droppers, Closers, Registered, Accounted, Overtaken,
       CloseHasLooked
  <2>2. CASE Crash
    BY <2>2 DEF Crash, RegistryInv, Rows, Makers, Droppers, Closers, Registered, Accounted, Overtaken,
       Unmade, Known, Making, Closing
  <2>3. ASSUME NEW c \in Callers, CallerSteps(c) PROVE RegistryInv'
    BY <2>3, CalmSteps, CalmKeeps, DropsKeeps, MakesKeeps, PublishesKeeps, EndsKeeps, SavesKeeps,
       UndoesKeeps, RemovesKeeps, MarksKeeps, ClosesKeeps DEF CallerSteps
  <2> QED
    BY <2>1, <2>2, <2>3, StepEffects, StreamStopsKeeps, ForgetsKeeps
<1> QED
  BY <1>1, <1>2, TypeCorrect, PTL DEF Spec

\* The registry holds stored sessions whose pumps run, and every live session is in it, being
\* closed, or among those published over or dropped by a failed Close, for any number of
\* callers and sessions (manager.go:184, :251, :483).
THEOREM RegistryCorrect == Spec => []LiveIsAccountedFor
  BY RegistryInvHolds, TypeCorrect, RegistryImplies, PTL

\* Under a row marked ended a session is live only while a Close is about to stop it, or when
\* it was published late or lost before (manager.go:300).
THEOREM ClosedCorrect == Spec => []ClosedIsOver
  BY RegistryInvHolds, TypeCorrect, RegistryImplies, PTL
=============================================================================
