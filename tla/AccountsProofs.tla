--------------------------- MODULE AccountsProofs ---------------------------
(***************************************************************************)
(* What holds of Accounts for every number of accounts, of operations at     *)
(* once and of refreshes, checked by TLAPS.                                  *)
(*                                                                           *)
(*   Ranges, Locking   the types and the lock discipline (TypeOK)            *)
(*   Flagged           OrphansAreRaced, with the writers about to write      *)
(*   CurrentWhenStored is inductive as it stands                             *)
(*   Credentials       TokensHaveCredential, with what a projection and a    *)
(*                     removal that hold the lock rely on                    *)
(*   Freshness         ProjectionKeepsNewest, with the copy in hand          *)
(*   KeptWhole         SettledAccountsAreWhole, with what each operation     *)
(*                     under way has done so far                             *)
(***************************************************************************)
EXTENDS Accounts, TLAPS

\* The range of each variable.
OpRanges == /\ lock \in [Accounts -> Slots \cup {None}]
            /\ op \in [Slots -> Operation \cup {None}]
            /\ begun \in 0 .. MaxBegun
StoredRanges == /\ row \in [Accounts -> Backends \cup {None}]
                /\ current \in Accounts \cup {None}
                /\ named \in SUBSET (Accounts \X Tables)
                /\ profile \in BOOLEAN
FileRanges == /\ secret \in [Backends -> [Accounts -> Tokens \cup {None}]]
              /\ home \in [Accounts -> Homes]
HistoryRanges == /\ raced \in SUBSET (Accounts \X Tables)
                 /\ disturbed \in SUBSET Accounts
                 /\ unlocked \in SUBSET Accounts
                 /\ unset \in SUBSET Accounts
                 /\ stranded \in SUBSET (Backends \X Accounts)
Ranges == OpRanges /\ StoredRanges /\ FileRanges /\ HistoryRanges

\* The last conjunct of TypeOK.
Held == \A a \in Accounts : lock[a] # None =>
          LET o == op[lock[a]] IN
          o # None /\ ~o.cli /\ o.account = a /\ o.at \in Locked

\* TypeOK is Ranges with Held.
LEMMA TypeParts == TypeOK <=> Ranges /\ Held
  BY DEF TypeOK, Ranges, OpRanges, StoredRanges, FileRanges, HistoryRanges, Held

\* Who waits for a lock or holds one, and what the daemon and the commands work with.
Discipline == \A s \in Slots : op[s] # None =>
  /\ op[s].at = "lock" => ~op[s].cli /\ op[s].kind \in Lockers
  /\ op[s].cli => Acc(s) \in unlocked
  /\ ~op[s].cli => op[s].backend = DaemonBackend /\ op[s].kind # "migrate"
  /\ ~op[s].cli /\ op[s].kind \in Lockers /\ op[s].at \in Locked => lock[Acc(s)] = s
HolderKinds == \A a \in Accounts : lock[a] # None => op[lock[a]].kind \in Lockers

Locking == Held /\ Discipline /\ HolderKinds
-----------------------------------------------------------------------------
(* What a step does to the operations and the locks.                          *)

Same(o, p) == /\ o.kind = p.kind /\ o.cli = p.cli
              /\ o.backend = p.backend /\ o.account = p.account

\* The steps of a projection that has read the credential.
Projection == {"sync", "put", "dir", "auth"}
Projects == {"project", "session"}

\* What an operation that is about to write, or to delete, has seen.
Careful(s, o) ==
  /\ o.at = "insert" => row[Acc(s)] # None
  /\ o.kind \in Projects /\ o.at = "sync" => Readable(s)
  /\ o.kind \in Projects /\ o.at \in {"put", "dir", "auth"} => Sync(s) \/ SyncPut(s) \/ MakeDir(s)
  /\ o.kind = "remove" /\ o.at = "secret" => home'[Acc(s)].auth = None

Starts(s) ==
  /\ op[s] = None
  /\ \E o \in Operation :
       /\ op' = [op EXCEPT ![s] = o]
       /\ o.at \in {"lock", "get", "home", "store", "source", "check"}
       /\ o.at = "lock" => ~o.cli /\ o.kind \in Lockers
       /\ ~o.cli => o.backend = DaemonBackend /\ o.kind # "migrate"
       /\ ~o.cli /\ o.kind \in Lockers => o.at = "lock"
       /\ o.kind = "member" => profile
       /\ unlocked' = IF o.cli THEN unlocked \cup {o.account} ELSE unlocked
  /\ lock' = lock
  /\ begun' \in 0 .. MaxBegun

Proceeds(s) ==
  /\ op[s] # None
  /\ op[s].at # "lock"
  /\ \E o \in Operation :
       /\ op' = [op EXCEPT ![s] = o]
       /\ Same(o, op[s])
       /\ o.at # "lock"
       /\ o.kind \in Lockers => (o.at \in Locked <=> op[s].at \in Locked)
       /\ Careful(s, o)
  /\ UNCHANGED <<lock, unlocked, begun>>

Locks(s) ==
  /\ op[s] # None /\ op[s].at = "lock"
  /\ lock[Acc(s)] = None
  /\ lock' = [lock EXCEPT ![Acc(s)] = s]
  /\ \E o \in Operation : /\ op' = [op EXCEPT ![s] = o]
                          /\ Same(o, op[s])
                          /\ o.at \in {"home", "get"}
  /\ UNCHANGED <<unlocked, begun>>

Leaves(s) ==
  /\ op[s] # None
  /\ Release(s)
  /\ \/ op' = [op EXCEPT ![s] = None]
     \/ \E o \in Operation : /\ op' = [op EXCEPT ![s] = o]
                             /\ Same(o, op[s])
                             /\ o.at = "create"
  /\ UNCHANGED <<unlocked, begun>>

Marks ==
  /\ op' \in [Slots -> Operation \cup {None}]
  /\ \A s \in Slots : /\ op[s] = None => op'[s] = None
                      /\ op[s] # None => op'[s] # None /\ Same(op'[s], op[s]) /\ op'[s].at = op[s].at
                      /\ op'[s] = op[s] \/ op'[s].excused
  /\ UNCHANGED <<lock, unlocked, begun>>

Kills ==
  /\ \E dead \in SUBSET Slots :
       /\ op' = [s \in Slots |-> IF s \in dead THEN None ELSE op[s]]
       /\ lock' = [a \in Accounts |-> IF lock[a] \in dead THEN None ELSE lock[a]]
  /\ UNCHANGED <<unlocked, begun>>

Idles == UNCHANGED <<op, lock, unlocked, begun>>

\* An operation that goes on to another step.
LEMMA GotoMoves ==
  ASSUME OpRanges, NEW s \in Slots, op[s] # None, NEW step \in Steps, Goto(s, step)
  PROVE  \E o \in Operation : /\ op' = [op EXCEPT ![s] = o]
                              /\ Same(o, op[s]) /\ o.at = step
<1> DEFINE o == [op[s] EXCEPT !.at = step]
<1>1. op[s] \in Operation
  BY DEF OpRanges
<1>2. o \in Operation /\ Same(o, op[s]) /\ o.at = step
  BY <1>1 DEF Operation, Same
<1>3. op' = [op EXCEPT ![s] = o]
  BY DEF Goto, OpRanges
<1> QED
  BY <1>2, <1>3

\* The same for a step in the lock, or outside of it.
LEMMA GotoProceeds ==
  ASSUME OpRanges, NEW s \in Slots, op[s] # None, op[s].at # "lock",
         NEW step \in Steps \ {"lock"}, Goto(s, step),
         op[s].kind \in Lockers => (step \in Locked <=> op[s].at \in Locked),
         step = "insert" => row[Acc(s)] # None,
         step # "sync",
         op[s].kind \in Projects /\ step \in {"put", "dir", "auth"} => MakeDir(s),
         op[s].kind = "remove" /\ step = "secret" => home'[Acc(s)].auth = None,
         UNCHANGED <<lock, unlocked, begun>>
  PROVE  Proceeds(s)
<1>1. PICK o \in Operation : op' = [op EXCEPT ![s] = o] /\ Same(o, op[s]) /\ o.at = step
  BY GotoMoves
<1>2. o.kind = op[s].kind
  BY <1>1 DEF Same
<1>3. Careful(s, o)
  BY <1>1, <1>2 DEF Careful
<1> QED
  BY <1>1, <1>2, <1>3 DEF Proceeds

\* An operation that returns.
LEMMA ReturnLeaves ==
  ASSUME NEW s \in Slots, op[s] # None, Return(s), UNCHANGED <<unlocked, begun>>
  PROVE  Leaves(s)
  BY DEF Return, Leaves
-----------------------------------------------------------------------------
(* The types and the lock discipline are kept by each of these.               *)

\* A step of one operation that leaves the lock as it is.
LEMMA StartsLocking ==
  ASSUME OpRanges, Locking, NEW s \in Slots, Starts(s)
  PROVE  OpRanges' /\ Locking'
<1>1. PICK o \in Operation :
       /\ op' = [op EXCEPT ![s] = o]
       /\ o.at \in {"lock", "get", "home", "store", "source", "check"}
       /\ o.at = "lock" => ~o.cli /\ o.kind \in Lockers
       /\ ~o.cli => o.backend = DaemonBackend /\ o.kind # "migrate"
       /\ ~o.cli /\ o.kind \in Lockers => o.at = "lock"
       /\ o.kind = "member" => profile
       /\ unlocked' = IF o.cli THEN unlocked \cup {o.account} ELSE unlocked
  BY DEF Starts
<1>2. o # None /\ op[s] = None /\ lock' = lock
  BY ConstantsOK DEF Starts
<1>3. /\ op'[s] = o
      /\ \A t \in Slots : t # s => op'[t] = op[t]
      /\ op' \in [Slots -> Operation \cup {None}]
  BY <1>1 DEF OpRanges
<1>4. OpRanges'
  BY <1>2, <1>3 DEF OpRanges, Starts
<1>5. \A a \in Accounts : lock[a] # None => lock[a] \in Slots /\ lock[a] # s
  BY <1>2 DEF OpRanges, Locking, Held
<1>6. Held' /\ HolderKinds'
  BY <1>2, <1>3, <1>5 DEF Locking, Held, HolderKinds
<1>7. Discipline'
  <2> SUFFICES ASSUME NEW t \in Slots, op'[t] # None
               PROVE  /\ op'[t].at = "lock" => ~op'[t].cli /\ op'[t].kind \in Lockers
                      /\ op'[t].cli => op'[t].account \in unlocked'
                      /\ ~op'[t].cli => op'[t].backend = DaemonBackend /\ op'[t].kind # "migrate"
                      /\ ~op'[t].cli /\ op'[t].kind \in Lockers /\ op'[t].at \in Locked
                           => lock'[op'[t].account] = t
    BY DEF Discipline, Acc
  <2>1. CASE t = s
    BY <1>1, <1>2, <1>3, <2>1 DEF Locked
  <2>2. CASE t # s
    <3>1. op'[t] = op[t] /\ unlocked \subseteq unlocked'
      BY <1>1, <1>3, <2>2
    <3> QED
      BY <1>2, <3>1 DEF Locking, Discipline, Acc
  <2> QED
    BY <2>1, <2>2
<1> QED
  BY <1>4, <1>6, <1>7 DEF Locking

\* An operation that is past waiting for its lock goes on without touching a lock.
LEMMA ProceedsLocking ==
  ASSUME OpRanges, Locking, NEW s \in Slots, Proceeds(s)
  PROVE  OpRanges' /\ Locking'
<1>1. PICK o \in Operation :
       /\ op' = [op EXCEPT ![s] = o]
       /\ Same(o, op[s])
       /\ o.at # "lock"
       /\ o.kind \in Lockers => (o.at \in Locked <=> op[s].at \in Locked)
  BY DEF Proceeds
<1>2. o # None /\ op[s] # None /\ op[s].at # "lock" /\ UNCHANGED <<lock, unlocked, begun>>
  BY ConstantsOK DEF Proceeds
<1>3. /\ op'[s] = o
      /\ \A t \in Slots : t # s => op'[t] = op[t]
      /\ op' \in [Slots -> Operation \cup {None}]
  BY <1>1 DEF OpRanges
<1>4. OpRanges'
  BY <1>2, <1>3 DEF OpRanges
<1>5. \A a \in Accounts : lock[a] # None => lock[a] \in Slots
  BY DEF OpRanges
<1>6. Held' /\ HolderKinds'
  BY <1>1, <1>2, <1>3, <1>5 DEF Locking, Held, HolderKinds, Same
<1>7. Discipline'
  BY <1>1, <1>2, <1>3 DEF Locking, Discipline, Acc, Same
<1> QED
  BY <1>4, <1>6, <1>7 DEF Locking

\* An operation gets its lock.
LEMMA LocksLocking ==
  ASSUME OpRanges, Locking, NEW s \in Slots, Locks(s)
  PROVE  OpRanges' /\ Locking'
<1>1. PICK o \in Operation :
       /\ op' = [op EXCEPT ![s] = o]
       /\ Same(o, op[s])
       /\ o.at \in Locked
  BY DEF Locks, Locked
<1>2. /\ o # None /\ op[s] # None /\ op[s].at = "lock"
      /\ Acc(s) \in Accounts /\ lock[Acc(s)] = None
      /\ lock' = [lock EXCEPT ![Acc(s)] = s]
      /\ UNCHANGED <<unlocked, begun>>
      /\ o.at # "lock"
  BY <1>1, ConstantsOK DEF Locks, OpRanges, Operation, Acc, Locked
<1>3. /\ op'[s] = o
      /\ \A t \in Slots : t # s => op'[t] = op[t]
      /\ op' \in [Slots -> Operation \cup {None}]
      /\ lock'[Acc(s)] = s
      /\ \A a \in Accounts : a # Acc(s) => lock'[a] = lock[a]
      /\ lock' \in [Accounts -> Slots \cup {None}]
  BY <1>1, <1>2 DEF OpRanges
<1>4. OpRanges'
  BY <1>2, <1>3 DEF OpRanges
<1>5. /\ ~op[s].cli /\ op[s].kind \in Lockers
      /\ \A a \in Accounts : lock[a] # None => lock[a] \in Slots /\ lock[a] # s
  BY <1>2 DEF OpRanges, Locking, Held, Discipline, Locked
<1>6. Held' /\ HolderKinds'
  <2> SUFFICES ASSUME NEW a \in Accounts, lock'[a] # None
               PROVE  /\ op'[lock'[a]] # None
                      /\ ~op'[lock'[a]].cli /\ op'[lock'[a]].account = a
                      /\ op'[lock'[a]].at \in Locked
                      /\ op'[lock'[a]].kind \in Lockers
    BY DEF Held, HolderKinds
  <2>1. CASE a = Acc(s)
    BY <1>1, <1>2, <1>3, <1>5, <2>1 DEF Same, Acc
  <2>2. CASE a # Acc(s)
    <3>1. lock'[a] = lock[a] /\ op'[lock[a]] = op[lock[a]]
      BY <1>3, <1>5, <2>2
    <3> QED
      BY <3>1 DEF Locking, Held, HolderKinds
  <2> QED
    BY <2>1, <2>2
<1>7. Discipline'
  <2> SUFFICES ASSUME NEW t \in Slots, op'[t] # None
               PROVE  /\ op'[t].at = "lock" => ~op'[t].cli /\ op'[t].kind \in Lockers
                      /\ op'[t].cli => op'[t].account \in unlocked'
                      /\ ~op'[t].cli => op'[t].backend = DaemonBackend /\ op'[t].kind # "migrate"
                      /\ ~op'[t].cli /\ op'[t].kind \in Lockers /\ op'[t].at \in Locked
                           => lock'[op'[t].account] = t
    BY DEF Discipline, Acc
  <2>1. CASE t = s
    BY <1>1, <1>2, <1>3, <1>5, <2>1 DEF Same, Acc, Locking, Discipline
  <2>2. CASE t # s
    <3>1. op'[t] = op[t] /\ op[t].account \in Accounts
      BY <1>3, <2>2 DEF OpRanges, Operation
    <3>2. ~op[t].cli /\ op[t].kind \in Lockers /\ op[t].at \in Locked
             => lock[op[t].account] = t /\ op[t].account # Acc(s)
      BY <1>2, <2>2, <3>1, ConstantsOK DEF Locking, Discipline, Acc
    <3> QED
      BY <1>2, <1>3, <3>1, <3>2 DEF Locking, Discipline, Acc
  <2> QED
    BY <2>1, <2>2
<1> QED
  BY <1>4, <1>6, <1>7 DEF Locking

\* An operation gives its lock back.
LEMMA LeavesLocking ==
  ASSUME OpRanges, Locking, NEW s \in Slots, Leaves(s)
  PROVE  OpRanges' /\ Locking'
<1>1. PICK o \in Operation \cup {None} :
       /\ op' = [op EXCEPT ![s] = o]
       /\ o # None => Same(o, op[s]) /\ o.at \notin Locked \cup {"lock"}
  BY DEF Leaves, Locked
<1>2. /\ op[s] # None
      /\ lock' = [a \in Accounts |-> IF lock[a] = s THEN None ELSE lock[a]]
      /\ UNCHANGED <<unlocked, begun>>
  BY DEF Leaves, Release
<1>3. /\ op'[s] = o
      /\ \A t \in Slots : t # s => op'[t] = op[t]
      /\ op' \in [Slots -> Operation \cup {None}]
      /\ \A a \in Accounts : lock'[a] = IF lock[a] = s THEN None ELSE lock[a]
      /\ lock' \in [Accounts -> Slots \cup {None}]
  BY <1>1, <1>2 DEF OpRanges
<1>4. OpRanges'
  BY <1>2, <1>3 DEF OpRanges
<1>5. \A a \in Accounts : lock'[a] # None => /\ lock[a] # None /\ lock'[a] = lock[a]
                                            /\ op'[lock[a]] = op[lock[a]]
  BY <1>3 DEF OpRanges
<1>6. Held' /\ HolderKinds'
  BY <1>5 DEF Locking, Held, HolderKinds
<1>7. Discipline'
  <2> SUFFICES ASSUME NEW t \in Slots, op'[t] # None
               PROVE  /\ op'[t].at = "lock" => ~op'[t].cli /\ op'[t].kind \in Lockers
                      /\ op'[t].cli => op'[t].account \in unlocked'
                      /\ ~op'[t].cli => op'[t].backend = DaemonBackend /\ op'[t].kind # "migrate"
                      /\ ~op'[t].cli /\ op'[t].kind \in Lockers /\ op'[t].at \in Locked
                           => lock'[op'[t].account] = t
    BY DEF Discipline, Acc
  <2>1. CASE t = s
    BY <1>1, <1>2, <1>3, <2>1 DEF Same, Acc, Locking, Discipline
  <2>2. CASE t # s
    <3>1. op'[t] = op[t] /\ op[t].account \in Accounts
      BY <1>3, <2>2 DEF OpRanges, Operation
    <3> QED
      BY <1>2, <1>3, <2>2, <3>1 DEF Locking, Discipline, Acc
  <2> QED
    BY <2>1, <2>2
<1> QED
  BY <1>4, <1>6, <1>7 DEF Locking

\* Marking operations in the history changes nothing of it.
LEMMA MarksLocking ==
  ASSUME OpRanges, Locking, Marks
  PROVE  OpRanges' /\ Locking'
<1>1. OpRanges'
  BY DEF OpRanges, Marks
<1>2. \A a \in Accounts : lock[a] # None => lock[a] \in Slots
  BY DEF OpRanges
<1>3. Held' /\ HolderKinds'
  BY <1>2 DEF Locking, Held, HolderKinds, Marks, Same
<1>4. Discipline'
  BY DEF Locking, Discipline, Acc, Marks, Same
<1> QED
  BY <1>1, <1>3, <1>4 DEF Locking

\* A process that dies takes its locks along.
LEMMA KillsLocking ==
  ASSUME OpRanges, Locking, Kills
  PROVE  OpRanges' /\ Locking'
<1>1. PICK dead \in SUBSET Slots :
       /\ op' = [s \in Slots |-> IF s \in dead THEN None ELSE op[s]]
       /\ lock' = [a \in Accounts |-> IF lock[a] \in dead THEN None ELSE lock[a]]
  BY DEF Kills
<1>2. UNCHANGED <<unlocked, begun>>
  BY DEF Kills
<1>3. OpRanges'
  BY <1>1, <1>2 DEF OpRanges
<1>4. \A a \in Accounts : lock'[a] # None => /\ lock[a] # None /\ lock'[a] = lock[a]
                                            /\ op'[lock[a]] = op[lock[a]]
  BY <1>1 DEF OpRanges
<1>5. Held' /\ HolderKinds'
  BY <1>4 DEF Locking, Held, HolderKinds
<1>6. \A t \in Slots : op'[t] # None => /\ op'[t] = op[t] /\ t \notin dead
                                       /\ op[t].account \in Accounts
  BY <1>1 DEF OpRanges, Operation
<1>7. Discipline'
  BY <1>1, <1>2, <1>6 DEF Locking, Discipline, Acc
<1> QED
  BY <1>3, <1>5, <1>7 DEF Locking

\* So does a step that leaves operations and locks alone.
LEMMA IdlesLocking ==
  ASSUME OpRanges, Locking, Idles
  PROVE  OpRanges' /\ Locking'
  BY DEF OpRanges, Locking, Idles, Held, HolderKinds, Discipline, Acc
-----------------------------------------------------------------------------
(* Every step is one of these.                                                *)

Moves(s) == Starts(s) \/ Proceeds(s) \/ Locks(s) \/ Leaves(s) \/ Idles
Steady == \/ \E s \in Slots : Moves(s)
          \/ Marks \/ Kills

\* An operation begins.
LEMMA BeginStarts ==
  ASSUME Ranges, NEW s \in Slots, NEW o \in Operation, Begin(s, o),
         o.at \in {"lock", "get", "home", "store", "source", "check"},
         o.kind = "member" => profile,
         o.at = "lock" => ~o.cli /\ o.kind \in Lockers,
         ~o.cli => o.backend = DaemonBackend /\ o.kind # "migrate",
         ~o.cli /\ o.kind \in Lockers => o.at = "lock"
  PROVE  Starts(s)
<1>1. op[s] = None /\ lock' = lock
  BY DEF Begin
<1>2. begun' \in 0 .. MaxBegun
  <2>1. begun \in 0 .. MaxBegun /\ begun < MaxBegun /\ begun' = begun + 1 /\ MaxBegun \in Nat
    BY ConstantsOK DEF Begin, Ranges, OpRanges
  <2> QED
    BY <2>1
<1>3. /\ op' = [op EXCEPT ![s] = o]
      /\ unlocked' = IF o.cli THEN unlocked \cup {o.account} ELSE unlocked
  BY DEF Begin
<1> QED
  BY <1>1, <1>2, <1>3 DEF Starts

\* An import begins as an operation that holds nothing.
LEMMA ImportStarts ==
  ASSUME Ranges, NEW s \in Slots, NEW cli \in BOOLEAN, NEW b \in Backends,
         ~cli => b = DaemonBackend, Import(s, cli, b)
  PROVE  Starts(s)
<1>1. PICK a \in Accounts, v \in Tokens :
        Begin(s, [kind |-> "import", cli |-> cli, backend |-> b, account |-> a, at |-> "store",
                  row |-> b, token |-> v, fresh |-> v, drop |-> FALSE, excused |-> FALSE])
  BY DEF Import
<1> DEFINE o == [kind |-> "import", cli |-> cli, backend |-> b, account |-> a, at |-> "store",
                 row |-> b, token |-> v, fresh |-> v, drop |-> FALSE, excused |-> FALSE]
<1>2. o \in Operation /\ Begin(s, o)
  BY <1>1 DEF Operation, Kinds, Steps
<1>3. o.at = "store" /\ o.kind \notin Lockers /\ o.kind # "migrate" /\ o.kind # "member"
      /\ o.cli = cli /\ o.backend = b
  BY DEF Lockers
<1> HIDE DEF o
<1> QED
  BY <1>2, <1>3, BeginStarts

\* Call may have any kind but import.
LEMMA CallStarts ==
  ASSUME Ranges, NEW s \in Slots, NEW kind \in Kinds \ {"import"}, NEW cli \in BOOLEAN,
         NEW a \in Accounts, NEW b \in Backends, NEW drop \in BOOLEAN,
         ~cli => b = DaemonBackend /\ kind # "migrate",
         kind = "session" => ~cli,
         kind = "member" => profile,
         Call(s, kind, cli, a, b, drop)
  PROVE  Starts(s)
<1> DEFINE o == [kind |-> kind, cli |-> cli, backend |-> b, account |-> a, at |-> First(kind, cli),
                 row |-> row[a], token |-> 0, fresh |-> 0, drop |-> drop, excused |-> FALSE]
<1>1. /\ First(kind, cli) \in Steps
      /\ First(kind, cli) \in {"lock", "get", "home", "store", "source", "check"}
  BY DEF First, Steps, Kinds
<1>2. /\ First(kind, cli) = "lock" => ~cli /\ kind \in Lockers
      /\ ~cli /\ kind \in Lockers => First(kind, cli) = "lock"
  BY DEF First, Lockers, Kinds
<1>3. row[a] \in Backends
  BY DEF Call, Ranges, StoredRanges
<1>4. 0 \in Tokens
  BY ConstantsOK DEF Tokens
<1>5. o \in Operation
  BY <1>1, <1>3, <1>4 DEF Operation
<1>6. Begin(s, o)
  BY DEF Call
<1>7. o.at = First(kind, cli) /\ o.kind = kind /\ o.cli = cli /\ o.backend = b
  OBVIOUS
<1>8. /\ o.at \in {"lock", "get", "home", "store", "source", "check"}
      /\ o.kind = "member" => profile
      /\ o.at = "lock" => ~o.cli /\ o.kind \in Lockers
      /\ ~o.cli => o.backend = DaemonBackend /\ o.kind # "migrate"
      /\ ~o.cli /\ o.kind \in Lockers => o.at = "lock"
  BY <1>1, <1>2, <1>7
<1> HIDE DEF o
<1> QED
  BY <1>5, <1>6, <1>8, BeginStarts

\* So does every request of the daemon,
LEMMA RequestingStarts ==
  ASSUME Ranges, NEW s \in Slots, Requesting(s)
  PROVE  Starts(s)
<1>1. CASE ImportRequest(s)
  BY <1>1, ImportStarts, ConstantsOK DEF ImportRequest
<1>2. ASSUME NEW kind \in Kinds \ {"import"}, NEW a \in Accounts, Request(s, kind, a),
             kind = "member" => profile
      PROVE  Starts(s)
  BY <1>2, CallStarts, ConstantsOK DEF Request
<1> QED
  BY <1>1, <1>2 DEF Requesting, SessionRequest, ProjectRequest, RemoveRequest, QuotaRequest,
       CurrentRequest, MemberRequest, Kinds

\* and every command of the CLI, in its own process.
LEMMA CommandingStarts ==
  ASSUME Ranges, NEW s \in Slots, Commanding(s)
  PROVE  Starts(s)
<1>1. CASE ImportCommand(s)
  BY <1>1, ImportStarts DEF ImportCommand
<1>2. ASSUME NEW kind \in Kinds \ {"import"}, NEW a \in Accounts, NEW b \in Backends,
             NEW drop \in BOOLEAN, Command(s, kind, a, b, drop), kind = "member" => profile
      PROVE  Starts(s)
  <2>1. kind # "session"
    BY <1>2, ConstantsOK DEF Command
  <2> QED
    BY <1>2, <2>1, CallStarts DEF Command
<1>3. /\ DaemonBackend \in Backends /\ FALSE \in BOOLEAN
      /\ \A kind \in {"current", "project", "remove", "quota", "migrate"} :
           kind \in Kinds \ {"import"} /\ kind # "member"
  BY ConstantsOK DEF Kinds
<1>4. CASE CurrentCommand(s)
  BY <1>2, <1>3, <1>4 DEF CurrentCommand
<1>5. CASE MemberCommand(s)
  BY <1>2, <1>3, <1>5 DEF MemberCommand, Kinds
<1>7. CASE ProjectCommand(s)
  BY <1>2, <1>3, <1>7 DEF ProjectCommand
<1>8. CASE RemoveCommand(s)
  BY <1>2, <1>3, <1>8 DEF RemoveCommand
<1>9. CASE QuotaCommand(s)
  BY <1>2, <1>3, <1>9 DEF QuotaCommand
<1>6. CASE MigrateCommand(s)
  BY <1>2, <1>6 DEF MigrateCommand, Kinds
<1> QED
  BY <1>1, <1>4, <1>5, <1>6, <1>7, <1>8, <1>9 DEF Commanding

\* Lock takes the account's lock for an operation that waits for it, and it alone.
LEMMA LockLocks ==
  ASSUME Ranges, NEW s \in Slots, Lock(s)
  PROVE  Locks(s)
<1>1. op[s] # None /\ op[s].at = "lock" /\ lock[Acc(s)] = None
      /\ lock' = [lock EXCEPT ![Acc(s)] = s]
      /\ UNCHANGED <<unlocked, begun>>
  BY DEF Lock, history
<1>2. PICK step \in {"home", "get"} : Goto(s, step)
  BY DEF Lock
<1>3. step \in Steps
  BY DEF Steps
<1> QED
  BY <1>1, <1>2, <1>3, GotoMoves DEF Locks, Ranges

\* The steps of an operation under way move that operation only: a projection's,
LEMMA ProjectingMoves ==
  ASSUME Ranges, NEW s \in Slots, Projecting(s)
  PROVE  Moves(s)
<1>1. OpRanges
  BY DEF Ranges
<1>2. CASE Get(s)
  <2> DEFINE o == [op[s] EXCEPT !.at = IF op[s].kind = "quota" THEN "usage" ELSE "sync",
                                !.token = secret[op[s].backend][Acc(s)]]
  <2>1. op[s] # None /\ op[s].at = "get" /\ Readable(s) /\ op[s] \in Operation
        /\ op[s].kind \in {"project", "session", "quota"}
    BY <1>1, <1>2 DEF Get, At, OpRanges
  <2>2. secret[op[s].backend][Acc(s)] \in Tokens
    BY <2>1 DEF Readable, Ranges, FileRanges, Operation, Acc
  <2>3. o \in Operation /\ Same(o, op[s])
        /\ o.at = IF op[s].kind = "quota" THEN "usage" ELSE "sync"
    BY <2>1, <2>2 DEF Operation, Same, Steps
  <2>4. op' = [op EXCEPT ![s] = o]
    BY <1>1, <1>2 DEF Get, OpRanges
  <2>5. o.at # "lock" /\ (o.kind \in Lockers => o.at \in Locked)
    BY <2>1, <2>3 DEF Lockers, Locked, Same
  <2>6. op[s].at \in Locked
    BY <2>1 DEF Locked
  <2>7. Careful(s, o)
    BY <2>1, <2>3 DEF Careful
  <2> HIDE DEF o
  <2> QED
    BY <1>2, <2>1, <2>3, <2>4, <2>5, <2>6, <2>7 DEF Proceeds, Moves, Get, history
<1>3. CASE Sync(s)
  <2> DEFINE o == IF home[Acc(s)].auth # None /\ Newer(home[Acc(s)].auth, op[s].token)
                    THEN [op[s] EXCEPT !.at = "put", !.fresh = home[Acc(s)].auth]
                    ELSE [op[s] EXCEPT !.at = "dir"]
  <2>1. op[s] # None /\ op[s].at = "sync" /\ op[s] \in Operation
    BY <1>1, <1>3 DEF Sync, At, OpRanges
  <2>2. home[Acc(s)].auth \in Tokens \cup {None}
    BY <2>1 DEF Ranges, FileRanges, Homes, Operation, Acc
  <2>3. o \in Operation /\ Same(o, op[s]) /\ o.at \in {"put", "dir"}
    BY <2>1, <2>2 DEF Operation, Same, Steps
  <2>4. op' = [op EXCEPT ![s] = o]
    BY <1>1, <1>3 DEF Sync, OpRanges
  <2>5. Careful(s, o)
    BY <1>3, <2>3 DEF Careful
  <2>6. UNCHANGED <<lock, unlocked, begun>> /\ op[s].at \in Locked /\ o.at \in Locked \ {"lock"}
    BY <1>3, <2>1, <2>3 DEF Sync, Locked, history
  <2> HIDE DEF o
  <2> QED
    BY <2>1, <2>3, <2>4, <2>5, <2>6 DEF Proceeds, Moves
<1>4. CASE SyncPut(s)
  <2>1. op[s] # None /\ op[s].at = "put" /\ op[s] \in Operation
    BY <1>1, <1>4 DEF SyncPut, At, OpRanges
  <2>2. PICK o \in {[op[s] EXCEPT !.at = "dir", !.token = op[s].fresh],
                    [op[s] EXCEPT !.at = "dir", !.excused = TRUE]} :
          op' = [op EXCEPT ![s] = o]
    BY <1>1, <1>4 DEF SyncPut, OpRanges
  <2>3. o \in Operation /\ Same(o, op[s]) /\ o.at = "dir"
    BY <2>1, <2>2 DEF Operation, Same, Steps
  <2>4. Careful(s, o)
    BY <1>4, <2>3 DEF Careful
  <2>5. UNCHANGED <<lock, unlocked, begun>> /\ op[s].at \in Locked /\ o.at \in Locked \ {"lock"}
    BY <1>4, <2>1, <2>3 DEF SyncPut, Locked, history
  <2> QED
    BY <2>1, <2>2, <2>3, <2>4, <2>5 DEF Proceeds, Moves
<1>5. CASE MakeDir(s)
  BY <1>1, <1>5, GotoProceeds DEF MakeDir, At, Moves, Locked, Steps, history
<1>6. CASE WriteAuth(s)
  BY <1>1, <1>6, GotoProceeds DEF WriteAuth, At, Moves, Locked, Steps, history
<1>7. CASE WriteMarker(s)
  <2>1. op[s] # None /\ UNCHANGED <<unlocked, begun>>
    BY <1>7 DEF WriteMarker, At, history
  <2>2. CASE op[s].kind = "session"
    <3>1. Goto(s, "create") /\ Release(s)
      BY <1>7, <2>2 DEF WriteMarker
    <3>2. "create" \in Steps /\ "create" \notin Locked \cup {"lock"}
      BY DEF Steps, Locked
    <3> QED
      BY <1>1, <2>1, <3>1, <3>2, GotoMoves DEF Leaves, Moves
  <2>3. CASE op[s].kind # "session"
    BY <1>7, <2>1, <2>3, ReturnLeaves DEF WriteMarker, Moves
  <2> QED
    BY <2>2, <2>3
<1>8. CASE ProjectFails(s)
  BY <1>8, ReturnLeaves DEF ProjectFails, At, Moves, history
<1>9. CASE Create(s)
  <2>1. CASE Return(s)
    BY <1>9, <2>1, ReturnLeaves DEF Create, At, Moves, history
  <2>2. CASE Goto(s, "check") /\ UNCHANGED lock
    BY <1>1, <1>9, <2>2, GotoProceeds DEF Create, At, Moves, Locked, Steps, history
  <2> QED
    BY <1>9, <2>1, <2>2 DEF Create
<1> QED
  BY <1>2, <1>3, <1>4, <1>5, <1>6, <1>7, <1>8, <1>9 DEF Projecting

\* those of a quota, health or binding write,
LEMMA WritingMoves ==
  ASSUME Ranges, NEW s \in Slots, Writing(s)
  PROVE  Moves(s)
<1>1. op[s] # None /\ OpRanges /\ UNCHANGED <<unlocked, begun>>
  BY DEF Ranges, Writing, Check, Insert, WriterFails, At, history
<1>2. CASE Return(s)
  BY <1>1, <1>2, ReturnLeaves DEF Moves
<1>3. CASE Check(s) /\ row[Acc(s)] # None
  BY <1>1, <1>3, GotoProceeds DEF Check, At, Moves, Locked, Steps
<1> QED
  BY <1>2, <1>3 DEF Writing, Check, Insert, WriterFails

\* those of a removal,
LEMMA RemovingMoves ==
  ASSUME Ranges, NEW s \in Slots, Removing(s)
  PROVE  Moves(s)
<1>1. op[s] # None /\ OpRanges /\ UNCHANGED <<unlocked, begun>>
  BY DEF Ranges, Removing, RemoveHome, RemoveSecret, RemoveRow, RemoveFails, At, history
<1>2. CASE Return(s)
  BY <1>1, <1>2, ReturnLeaves DEF Moves
<1>3. CASE RemoveHome(s)
  <2>1. home'[Acc(s)].auth = None
    BY <1>1, <1>3 DEF RemoveHome, At, Ranges, OpRanges, FileRanges, Operation, Acc, NoHome
  <2> QED
    BY <1>1, <1>3, <2>1, GotoProceeds DEF RemoveHome, At, Moves, Locked, Steps
<1>4. CASE RemoveSecret(s)
  BY <1>1, <1>4, GotoProceeds DEF RemoveSecret, At, Moves, Locked, Steps
<1> QED
  BY <1>2, <1>3, <1>4 DEF Removing, RemoveRow, RemoveFails

\* those of an import,
LEMMA ImportingMoves ==
  ASSUME Ranges, NEW s \in Slots, Importing(s)
  PROVE  Moves(s)
<1>1. op[s] # None /\ OpRanges /\ UNCHANGED <<unlocked, begun>>
  BY DEF Ranges, Importing, ImportStore, ImportUpsert, ImportLook, ImportFails, At, history
<1>2. CASE Return(s)
  BY <1>1, <1>2, ReturnLeaves DEF Moves
<1>3. CASE ImportStore(s)
  BY <1>1, <1>3, GotoProceeds DEF ImportStore, At, Moves, Lockers, Steps
<1>4. CASE ImportUpsert(s) /\ Goto(s, "look") /\ UNCHANGED lock
  BY <1>1, <1>4, GotoProceeds DEF ImportUpsert, At, Moves, Lockers, Steps
<1>5. CASE ImportLook(s) /\ Goto(s, "check") /\ UNCHANGED lock
  BY <1>1, <1>5, GotoProceeds DEF ImportLook, At, Moves, Lockers, Steps
<1> QED
  BY <1>2, <1>3, <1>4, <1>5 DEF Importing, ImportUpsert, ImportLook, ImportFails

\* those of a quota refresh,
LEMMA RefreshingMoves ==
  ASSUME Ranges, NEW s \in Slots, Refreshing(s)
  PROVE  Moves(s)
<1>1. op[s] # None /\ OpRanges /\ UNCHANGED <<unlocked, begun>>
  BY DEF Ranges, Refreshing, Usage, QuotaUpsert, QuotaFails, At, history
<1>2. CASE Return(s)
  BY <1>1, <1>2, ReturnLeaves DEF Moves
<1>3. CASE Usage(s)
  BY <1>1, <1>3, GotoProceeds DEF Usage, At, Moves, Lockers, Steps
<1>4. CASE QuotaUpsert(s) /\ Goto(s, "check") /\ UNCHANGED lock
  BY <1>1, <1>4, GotoProceeds DEF QuotaUpsert, At, Moves, Lockers, Steps
<1> QED
  BY <1>2, <1>3, <1>4 DEF Refreshing, QuotaUpsert, QuotaFails

\* and those of a migration of the secret store.
LEMMA MigratingMoves ==
  ASSUME Ranges, NEW s \in Slots, Migrating(s)
  PROVE  Moves(s)
<1>1. op[s] # None /\ OpRanges /\ UNCHANGED <<unlocked, begun>>
      /\ op[s].kind \notin Lockers /\ op[s].at # "lock"
  BY DEF Ranges, Migrating, MigrateGet, MigratePut, MigrateRead, MigrateMove, MigrateUndo,
         MigrateDrop, MigrateFails, At, history, Lockers
<1>2. CASE Return(s)
  BY <1>1, <1>2, ReturnLeaves DEF Moves
<1>3. CASE MigrateGet(s)
  <2> DEFINE o == [op[s] EXCEPT !.at = "target", !.token = secret[op[s].backend][Acc(s)]]
  <2>1. op[s] \in Operation /\ Readable(s)
    BY <1>1, <1>3 DEF MigrateGet, OpRanges
  <2>2. secret[op[s].backend][Acc(s)] \in Tokens
    BY <2>1 DEF Readable, Ranges, FileRanges, Operation, Acc
  <2>3. o \in Operation /\ Same(o, op[s]) /\ o.at = "target"
    BY <2>1, <2>2 DEF Operation, Same, Steps
  <2>4. op' = [op EXCEPT ![s] = o]
    BY <1>1, <1>3 DEF MigrateGet, OpRanges
  <2>5. Careful(s, o)
    BY <1>1, <2>3 DEF Careful, Same, Projects, Lockers
  <2> HIDE DEF o
  <2> QED
    BY <1>1, <1>3, <2>3, <2>4, <2>5 DEF Proceeds, Moves, MigrateGet, Same
<1>4. ASSUME NEW step \in {"readback", "move", "undo", "drop"}, Goto(s, step), UNCHANGED lock
      PROVE  Moves(s)
  <2>1. step \in Steps \ {"lock"}
    BY DEF Steps
  <2> QED
    BY <1>1, <1>4, <2>1, GotoProceeds DEF Moves
<1>5. CASE MigratePut(s) \/ MigrateRead(s) \/ MigrateMove(s)
  BY <1>2, <1>4, <1>5 DEF MigratePut, MigrateRead, MigrateMove
<1> QED
  BY <1>2, <1>3, <1>5 DEF Migrating, MigrateUndo, MigrateDrop, MigrateFails

\* Codex refreshes a file, and operations that may still overwrite it are marked.
LEMMA CodexMarks ==
  ASSUME Ranges, NEW a \in Accounts, CodexRefreshes(a)
  PROVE  Marks
<1> DEFINE overtaken(s) == /\ \E step \in {"put", "dir", "auth"} : At(s, {"project", "session"}, step)
                           /\ Acc(s) = a
<1>1. op' = [s \in Slots |-> IF overtaken(s) THEN [op[s] EXCEPT !.excused = TRUE] ELSE op[s]]
  BY DEF CodexRefreshes
<1>2. ASSUME NEW s \in Slots
      PROVE  /\ op'[s] \in Operation \cup {None}
             /\ op[s] = None => op'[s] = None
             /\ op[s] # None => op'[s] # None /\ Same(op'[s], op[s]) /\ op'[s].at = op[s].at
  <2>1. CASE overtaken(s)
    <3>1. op[s] # None /\ op[s] \in Operation
      BY <2>1 DEF At, Ranges, OpRanges
    <3>2. op'[s] = [op[s] EXCEPT !.excused = TRUE]
      BY <1>1, <2>1
    <3>3. op'[s] \in Operation /\ Same(op'[s], op[s]) /\ op'[s].at = op[s].at
      BY <3>1, <3>2 DEF Operation, Same
    <3> QED
      BY <3>1, <3>3, ConstantsOK
  <2>2. CASE ~overtaken(s)
    BY <1>1, <2>2 DEF Ranges, OpRanges, Same
  <2> QED
    BY <2>1, <2>2
<1>3. op' \in [Slots -> Operation \cup {None}]
  BY <1>1, <1>2
<1> QED
  BY <1>2, <1>3 DEF Marks, CodexRefreshes, history

\* Every step is one of these.
LEMMA StepIsSteady == Ranges /\ [Next]_vars => Steady
<1> SUFFICES ASSUME Ranges, [Next]_vars PROVE Steady
  OBVIOUS
<1>1. ASSUME NEW s \in Slots,
             \/ Requesting(s) \/ Commanding(s) \/ Lock(s) \/ Projecting(s) \/ Writing(s)
             \/ Removing(s) \/ Importing(s) \/ Refreshing(s) \/ Migrating(s)
      PROVE  Moves(s)
  BY <1>1, RequestingStarts, CommandingStarts, LockLocks, ProjectingMoves, WritingMoves,
     RemovingMoves, ImportingMoves, RefreshingMoves, MigratingMoves DEF Moves
<1>2. ASSUME NEW dead \in SUBSET Slots, Kill(dead) PROVE Kills
  BY <1>2 DEF Kill, Kills
<1>3. CASE Crash
  BY <1>2, <1>3 DEF Crash, Steady
<1>4. ASSUME NEW s \in Slots, Interrupt(s) PROVE Kills
  BY <1>2, <1>4 DEF Interrupt
<1>5. ASSUME NEW a \in Accounts, CodexRefreshes(a) PROVE Marks
  BY <1>5, CodexMarks
<1>6. ASSUME \/ UNCHANGED vars \/ MakeProfile \/ DropProfile
             \/ \E a \in Accounts : DropMember(a)
      PROVE  Idles
  BY <1>6 DEF Idles, vars, history, MakeProfile, DropProfile, DropMember
<1>7. Idles => Marks
  BY DEF Marks, Ranges, OpRanges, Idles, Same
<1>8. CASE Next
  BY <1>1, <1>3, <1>4, <1>5, <1>6, <1>7, <1>8 DEF Next, Steady
<1>9. CASE UNCHANGED vars
  BY <1>6, <1>7, <1>9 DEF Steady
<1> QED
  BY <1>8, <1>9

\* A step that moves one operation at most keeps their type.
LEMMA SteadyRanges == OpRanges /\ Steady => op' \in [Slots -> Operation \cup {None}]
<1> SUFFICES ASSUME OpRanges, Steady PROVE op' \in [Slots -> Operation \cup {None}]
  OBVIOUS
<1>1. ASSUME NEW s \in Slots, NEW o \in Operation \cup {None}, op' = [op EXCEPT ![s] = o]
      PROVE  op' \in [Slots -> Operation \cup {None}]
  BY <1>1 DEF OpRanges
<1>2. ASSUME NEW s \in Slots, Moves(s)
      PROVE  op' \in [Slots -> Operation \cup {None}]
  BY <1>1, <1>2 DEF Moves, Starts, Proceeds, Locks, Leaves, Idles, OpRanges
<1>3. Kills => op' \in [Slots -> Operation \cup {None}]
  BY DEF Kills, OpRanges
<1> QED
  BY <1>2, <1>3 DEF Steady, Marks

\* So the lock discipline is kept.
LEMMA SteadyLocking == OpRanges /\ Locking /\ Steady => OpRanges' /\ Locking'
  BY StartsLocking, ProceedsLocking, LocksLocking, LeavesLocking, IdlesLocking,
     MarksLocking, KillsLocking DEF Steady, Moves
-----------------------------------------------------------------------------
(* The types of the stores and of the history.                                *)

\* The types and the order of the locks hold at first.
LEMMA InitRanges == Init => Ranges /\ Locking
<1> SUFFICES ASSUME Init PROVE Ranges /\ Locking
  OBVIOUS
<1>1. 0 \in Tokens /\ 0 \in 0 .. MaxBegun
  BY ConstantsOK DEF Tokens
<1>2. OpRanges
  BY <1>1 DEF Init, OpRanges
<1>3. StoredRanges
  <2>1. PICK imported \in SUBSET Accounts :
          /\ row = [a \in Accounts |-> IF a \in imported THEN DaemonBackend ELSE None]
          /\ current \in IF imported = {} THEN {None} ELSE imported
    BY DEF Init
  <2>2. row \in [Accounts -> Backends \cup {None}]
    BY <2>1, ConstantsOK
  <2> QED
    BY <2>1, <2>2 DEF Init, StoredRanges
<1>4. FileRanges
  BY <1>1 DEF Init, FileRanges, Homes, NoHome
<1>5. HistoryRanges
  BY DEF Init, HistoryRanges
<1>6. Locking
  BY DEF Init, Locking, Held, Discipline, HolderKinds
<1> QED
  BY <1>2, <1>3, <1>4, <1>5, <1>6 DEF Ranges

\* What a write of an account's row keeps.
LEMMA UpsertRanges ==
  ASSUME Ranges, NEW a \in Accounts, NEW r \in Backends, Upsert(a, r)
  PROVE  /\ row' \in [Accounts -> Backends \cup {None}]
         /\ unset' \in SUBSET Accounts
         /\ stranded' \in SUBSET (Backends \X Accounts)
<1>1. row' \in [Accounts -> Backends \cup {None}] /\ unset' \in SUBSET Accounts
  BY DEF Ranges, StoredRanges, HistoryRanges, Upsert
<1>2. row[a] # None => <<row[a], a>> \in Backends \X Accounts
  BY DEF Ranges, StoredRanges
<1>3. stranded' \in SUBSET (Backends \X Accounts)
  BY <1>2 DEF Ranges, HistoryRanges, Upsert
<1> QED
  BY <1>1, <1>3

\* Deleting a row, with what refers to it, keeps the types of the tables.
LEMMA DeleteRanges ==
  ASSUME Ranges, NEW a \in Accounts, DeleteAccount(a)
  PROVE  /\ row' \in [Accounts -> Backends \cup {None}]
         /\ named' \in SUBSET (Accounts \X Tables)
         /\ raced' \in SUBSET (Accounts \X Tables)
         /\ unset' \in SUBSET Accounts
         /\ current' \in Accounts \cup {None}
<1>1. /\ row' \in [Accounts -> Backends \cup {None}]
      /\ named' \in SUBSET (Accounts \X Tables)
      /\ unset' \in SUBSET Accounts
  BY DEF Ranges, StoredRanges, HistoryRanges, DeleteAccount
<1>2. {<<a, t>> : t \in {t \in Tables : a \in InFlight(t)}} \in SUBSET (Accounts \X Tables)
  OBVIOUS
<1>3. raced' \in SUBSET (Accounts \X Tables)
  BY <1>2 DEF Ranges, HistoryRanges, DeleteAccount
<1>4. Heirs(a) \subseteq Accounts \cup {None}
  <2> DEFINE left == {b \in Accounts \ {a} : row[b] # None}
  <2>1. Heirs(a) \in {{current}, {None}, left}
    BY DEF Heirs
  <2> QED
    BY <2>1 DEF Ranges, StoredRanges
<1> QED
  BY <1>1, <1>3, <1>4 DEF DeleteAccount

Data == StoredRanges /\ FileRanges /\ HistoryRanges

\* The types of rows, credentials and files are kept where an operation begins,
LEMMA BeginData ==
  ASSUME Ranges, NEW s \in Slots, Requesting(s) \/ Commanding(s)
  PROVE  Data'
<1>1. ASSUME NEW o, o.account \in Accounts, Begin(s, o)
      PROVE  Data'
  <2>1. UNCHANGED <<row, current, named, profile, secret, home, raced, unset, stranded>>
    BY <1>1 DEF Begin, stored, files
  <2>2. disturbed' \in SUBSET Accounts /\ unlocked' \in SUBSET Accounts
    BY <1>1 DEF Begin, Ranges, HistoryRanges
  <2> QED
    BY <2>1, <2>2 DEF Ranges, Data, StoredRanges, FileRanges, HistoryRanges
<1>2. ASSUME NEW cli, NEW b, Import(s, cli, b)
      PROVE  Data'
  BY <1>1, <1>2 DEF Import
<1>3. ASSUME NEW kind, NEW cli, NEW a \in Accounts, NEW b, NEW drop, Call(s, kind, cli, a, b, drop)
      PROVE  Data'
  BY <1>1, <1>3 DEF Call
<1>4. CASE Requesting(s)
  BY <1>2, <1>3, <1>4 DEF Requesting, Request, ImportRequest, SessionRequest, ProjectRequest,
       RemoveRequest, QuotaRequest, CurrentRequest, MemberRequest
<1>5. CASE Commanding(s)
  BY <1>2, <1>3, <1>5 DEF Commanding, Command, ImportCommand, ProjectCommand, RemoveCommand,
       QuotaCommand, CurrentCommand, MemberCommand, MigrateCommand
<1> QED
  BY <1>4, <1>5

\* where it locks and projects,
LEMMA ProjectData ==
  ASSUME Ranges, NEW s \in Slots, Lock(s) \/ Projecting(s)
  PROVE  Data'
<1>1. op[s] \in Operation /\ Acc(s) \in Accounts /\ UNCHANGED <<stored, history>>
  <2>1. op[s] # None
    BY DEF Lock, Projecting, Get, Sync, SyncPut, MakeDir, WriteAuth, WriteMarker, ProjectFails,
           Create, At
  <2>2. UNCHANGED <<stored, history>>
    BY DEF Lock, Projecting, Get, Sync, SyncPut, MakeDir, WriteAuth, WriteMarker, ProjectFails,
           Create
  <2> QED
    BY <2>1, <2>2 DEF Ranges, OpRanges, Operation, Acc
<1>2. op[s].fresh \in Tokens /\ op[s].token \in Tokens /\ op[s].backend \in Backends
      /\ home[Acc(s)] \in Homes
  BY <1>1 DEF Operation, Ranges, FileRanges
<1>3. FileRanges'
  <2>1. secret' \in [Backends -> [Accounts -> Tokens \cup {None}]]
    <3>1. CASE SyncPut(s)
      BY <1>1, <1>2, <3>1 DEF SyncPut, Ranges, FileRanges
    <3>2. CASE ~SyncPut(s)
      BY <3>2 DEF Lock, Projecting, Get, Sync, MakeDir, WriteAuth, WriteMarker, ProjectFails,
                  Create, Ranges, FileRanges, files
    <3> QED
      BY <3>1, <3>2
  <2>2. home' \in [Accounts -> Homes]
    <3>1. \A h \in Homes, t \in Tokens : /\ [h EXCEPT !.dir = TRUE] \in Homes
                                        /\ [h EXCEPT !.auth = t] \in Homes
                                        /\ [h EXCEPT !.marked = TRUE] \in Homes
      BY DEF Homes
    <3>2. CASE MakeDir(s)
      <4>1. home' = [home EXCEPT ![Acc(s)] = [home[Acc(s)] EXCEPT !.dir = TRUE]]
        BY <3>2 DEF MakeDir
      <4> QED
        BY <1>1, <1>2, <3>1, <4>1 DEF Ranges, FileRanges
    <3>3. CASE WriteAuth(s)
      <4>1. home' = [home EXCEPT ![Acc(s)] = [home[Acc(s)] EXCEPT !.auth = op[s].token]]
        BY <3>3 DEF WriteAuth
      <4> QED
        BY <1>1, <1>2, <3>1, <4>1 DEF Ranges, FileRanges
    <3>4. CASE WriteMarker(s)
      <4>1. home' = [home EXCEPT ![Acc(s)] = [home[Acc(s)] EXCEPT !.marked = TRUE]]
        BY <3>4 DEF WriteMarker
      <4> QED
        BY <1>1, <1>2, <3>1, <4>1 DEF Ranges, FileRanges
    <3>5. CASE ~MakeDir(s) /\ ~WriteAuth(s) /\ ~WriteMarker(s)
      BY <3>5 DEF Lock, Projecting, Get, Sync, SyncPut, ProjectFails, Create, Ranges, FileRanges, files
    <3> QED
      BY <3>2, <3>3, <3>4, <3>5
  <2> QED
    BY <2>1, <2>2 DEF FileRanges
<1> QED
  BY <1>1, <1>3 DEF Ranges, Data, StoredRanges, HistoryRanges, stored, history

\* where it writes the rows of an account,
LEMMA WritingData ==
  ASSUME Ranges, NEW s \in Slots, Writing(s)
  PROVE  Data'
<1>1. Acc(s) \in Accounts
  BY DEF Writing, Check, Insert, WriterFails, At, Ranges, OpRanges, Operation, Acc
<1>2. <<Acc(s), Table(op[s].kind)>> \in Accounts \X Tables
  BY <1>1 DEF Table, Tables
<1>3. CASE Insert(s)
  BY <1>1, <1>2, <1>3 DEF Insert, Ranges, Data, StoredRanges, FileRanges, HistoryRanges, files
<1>4. CASE Check(s) \/ WriterFails(s)
  BY <1>4 DEF Check, WriterFails, Ranges, Data, StoredRanges, FileRanges, HistoryRanges, files,
              stored, history
<1> QED
  BY <1>3, <1>4 DEF Writing

\* where it removes one,
LEMMA RemovingData ==
  ASSUME Ranges, NEW s \in Slots, Removing(s)
  PROVE  Data'
<1>1. Acc(s) \in Accounts /\ op[s].backend \in Backends
  BY DEF Removing, RemoveHome, RemoveSecret, RemoveRow, RemoveFails, At, Ranges, OpRanges,
         Operation, Acc
<1>2. CASE RemoveHome(s)
  <2>1. NoHome \in Homes
    BY DEF NoHome, Homes
  <2> QED
    BY <1>1, <1>2, <2>1 DEF RemoveHome, Ranges, Data, StoredRanges, FileRanges, HistoryRanges,
                            stored, history
<1>3. CASE RemoveSecret(s)
  BY <1>1, <1>3 DEF RemoveSecret, DeleteSecret, Ranges, Data, StoredRanges, FileRanges,
                    HistoryRanges, stored
<1>4. CASE RemoveRow(s)
  <2>1. CASE DeleteAccount(Acc(s))
    BY <1>1, <1>4, <2>1, DeleteRanges DEF RemoveRow, Ranges, Data, StoredRanges, FileRanges,
                            HistoryRanges, files
  <2>2. CASE UNCHANGED <<row, current, named, raced, unset>>
    BY <1>4, <2>2 DEF RemoveRow, Ranges, Data, StoredRanges, FileRanges, HistoryRanges, files
  <2> QED
    BY <1>4, <2>1, <2>2 DEF RemoveRow
<1>5. CASE RemoveFails(s)
  BY <1>1, <1>5 DEF RemoveFails, Ranges, Data, StoredRanges, FileRanges, HistoryRanges, stored, files
<1> QED
  BY <1>2, <1>3, <1>4, <1>5 DEF Removing

\* where it imports or refreshes one,
LEMMA ImportingData ==
  ASSUME Ranges, NEW s \in Slots, Importing(s) \/ Refreshing(s)
  PROVE  Data'
<1>1. Acc(s) \in Accounts /\ op[s].backend \in Backends /\ op[s].row \in Backends
      /\ op[s].token \in Tokens
  BY DEF Importing, ImportStore, ImportUpsert, ImportLook, ImportFails, Refreshing, Usage,
         QuotaUpsert, QuotaFails, At, Ranges, OpRanges, Operation, Acc
<1>2. CASE ImportStore(s)
  BY <1>1, <1>2 DEF ImportStore, Ranges, Data, StoredRanges, FileRanges, HistoryRanges, stored
<1>3. CASE ImportUpsert(s) \/ QuotaUpsert(s)
  <2>1. Upsert(Acc(s), op[s].row)
    BY <1>3 DEF ImportUpsert, QuotaUpsert
  <2>2. UNCHANGED <<current, named, profile, secret, home, raced, disturbed, unlocked>>
    BY <1>3 DEF ImportUpsert, QuotaUpsert, files
  <2> QED
    BY <1>1, <2>1, <2>2, UpsertRanges DEF Ranges, Data, StoredRanges, FileRanges, HistoryRanges
<1>4. CASE ImportLook(s) \/ ImportFails(s)
  BY <1>1, <1>4 DEF ImportLook, ImportFails, Ranges, Data, StoredRanges, FileRanges,
                    HistoryRanges, stored, files
<1>5. CASE Usage(s) \/ QuotaFails(s)
  BY <1>5 DEF Usage, QuotaFails, Ranges, Data, StoredRanges, FileRanges, HistoryRanges, stored,
              files, history
<1> QED
  BY <1>2, <1>3, <1>4, <1>5 DEF Importing, Refreshing

\* and where it copies a credential to the other backend.
LEMMA MigratingData ==
  ASSUME Ranges, NEW s \in Slots, Migrating(s)
  PROVE  Data'
<1>1. /\ Acc(s) \in Accounts /\ op[s].backend \in Backends /\ op[s].token \in Tokens
      /\ Other(op[s].backend) \in Backends
  BY DEF Migrating, MigrateGet, MigratePut, MigrateRead, MigrateMove, MigrateUndo, MigrateDrop,
         MigrateFails, At, Ranges, OpRanges, Operation, Acc, Other, Backends
<1>2. CASE MigratePut(s)
  BY <1>1, <1>2 DEF MigratePut, Ranges, Data, StoredRanges, FileRanges, HistoryRanges, stored
<1>3. CASE MigrateMove(s)
  <2>1. disturbed' \in SUBSET Accounts
        /\ UNCHANGED <<current, named, profile, secret, home, raced, unlocked>>
    BY <1>1, <1>3 DEF MigrateMove, files, Ranges, HistoryRanges
  <2>2. CASE Upsert(Acc(s), Other(op[s].backend))
    BY <1>1, <2>1, <2>2, UpsertRanges DEF Ranges, Data, StoredRanges, FileRanges, HistoryRanges
  <2>3. CASE UNCHANGED <<row, unset, stranded>>
    BY <2>1, <2>3 DEF Ranges, Data, StoredRanges, FileRanges, HistoryRanges
  <2> QED
    BY <1>3, <2>2, <2>3 DEF MigrateMove
<1>4. CASE MigrateUndo(s) \/ MigrateDrop(s)
  <2>1. UNCHANGED <<stored, home, raced, unlocked, unset>> /\ disturbed' \in SUBSET Accounts
    BY <1>1, <1>4 DEF MigrateUndo, MigrateDrop, Ranges, HistoryRanges
  <2>2. PICK b \in Backends : DeleteSecret(b, Acc(s)) \/ UNCHANGED <<secret, stranded>>
    BY <1>1, <1>4 DEF MigrateUndo, MigrateDrop
  <2>3. /\ secret' \in [Backends -> [Accounts -> Tokens \cup {None}]]
        /\ stranded' \in SUBSET (Backends \X Accounts)
    BY <1>1, <2>2 DEF DeleteSecret, Ranges, FileRanges, HistoryRanges
  <2> QED
    BY <2>1, <2>3 DEF Ranges, Data, StoredRanges, FileRanges, HistoryRanges, stored
<1>5. CASE MigrateGet(s) \/ MigrateRead(s) \/ MigrateFails(s)
  BY <1>5 DEF MigrateGet, MigrateRead, MigrateFails, Ranges, Data, StoredRanges, FileRanges,
              HistoryRanges, stored, files, history
<1> QED
  BY <1>2, <1>3, <1>4, <1>5 DEF Migrating

\* The steps that belong to no operation, and the ends of processes.
LEMMA OthersData ==
  ASSUME Ranges,
         \/ \E a \in Accounts : CodexRefreshes(a) \/ DropMember(a)
         \/ MakeProfile \/ DropProfile \/ Crash \/ \E s \in Slots : Interrupt(s)
  PROVE  Data'
<1>1. ASSUME NEW a \in Accounts, CodexRefreshes(a)
      PROVE  Data'
  <2>1. home[a] \in Homes /\ home[a].auth \in Tokens /\ home[a].auth < MaxToken
    BY <1>1 DEF CodexRefreshes, Ranges, FileRanges, Homes
  <2>2. home[a].auth + 1 \in Tokens
    BY <2>1, ConstantsOK DEF Tokens
  <2>3. [home[a] EXCEPT !.auth = @ + 1] \in Homes
    BY <2>1, <2>2 DEF Homes
  <2>4. home' = [home EXCEPT ![a] = [home[a] EXCEPT !.auth = @ + 1]]
    BY <1>1 DEF CodexRefreshes
  <2>5. home' \in [Accounts -> Homes]
    BY <2>3, <2>4 DEF Ranges, FileRanges
  <2> QED
    BY <1>1, <2>5 DEF CodexRefreshes, Ranges, Data, StoredRanges, FileRanges, HistoryRanges,
                      stored, history
<1>2. ASSUME NEW a \in Accounts, DropMember(a)
      PROVE  Data'
  BY <1>2 DEF DropMember, Ranges, Data, StoredRanges, FileRanges, HistoryRanges, files, history
<1>3. CASE MakeProfile
  BY <1>3 DEF MakeProfile, Ranges, Data, StoredRanges, FileRanges, HistoryRanges, files, history
<1>4. CASE DropProfile
  <2> DEFINE adding == {s \in Slots : op[s] # None /\ op[s].kind = "member"}
  <2>1. \A s \in adding : <<Acc(s), "member">> \in Accounts \X Tables
    BY DEF Ranges, OpRanges, Operation, Acc, Tables
  <2>2. raced' \in SUBSET (Accounts \X Tables)
    BY <1>4, <2>1 DEF DropProfile, Ranges, HistoryRanges
  <2>3. named' \in SUBSET (Accounts \X Tables) /\ profile' \in BOOLEAN
    BY <1>4 DEF DropProfile, Ranges, StoredRanges
  <2> QED
    BY <1>4, <2>2, <2>3 DEF DropProfile, Ranges, Data, StoredRanges, FileRanges, HistoryRanges, files
<1>5. ASSUME NEW dead \in SUBSET Slots, \A s \in dead : op[s] # None, Kill(dead)
      PROVE  Data'
  <2>1. \A s \in dead : Acc(s) \in Accounts
    BY <1>5 DEF Ranges, OpRanges, Operation, Acc
  <2>2. disturbed' \in SUBSET Accounts
    BY <1>5, <2>1 DEF Kill, Ranges, HistoryRanges
  <2> QED
    BY <1>5, <2>2 DEF Kill, Ranges, Data, StoredRanges, FileRanges, HistoryRanges, stored, files
<1>6. CASE Crash
  BY <1>5, <1>6 DEF Crash
<1>7. ASSUME NEW s \in Slots, Interrupt(s) PROVE Data'
  BY <1>5, <1>7 DEF Interrupt
<1> QED
  BY <1>1, <1>2, <1>3, <1>4, <1>6, <1>7

\* Every step keeps types and locks: one case per group of actions.
LEMMA StepTypes == Ranges /\ Locking /\ [Next]_vars => Ranges' /\ Locking'
<1> SUFFICES ASSUME Ranges, Locking, [Next]_vars PROVE Ranges' /\ Locking'
  OBVIOUS
<1>1. OpRanges' /\ Locking'
  BY StepIsSteady, SteadyLocking DEF Ranges
<1>2. CASE Next
  BY <1>1, <1>2, BeginData, ProjectData, WritingData, RemovingData, ImportingData, MigratingData,
     OthersData DEF Next, Ranges, Data
<1>3. CASE UNCHANGED vars
  BY <1>1, <1>3 DEF Ranges, StoredRanges, FileRanges, HistoryRanges, vars, stored, files, history
<1> QED
  BY <1>2, <1>3

\* Hence they hold throughout.
LEMMA TypesInvariant == Spec => [](Ranges /\ Locking)
  BY InitRanges, StepTypes, PTL DEF Spec

\* Types are kept, and a lock is held by an operation of the daemon in its locked part:
\* no projection, session or removal returns, fails or dies with it (accounts.go:78).
THEOREM TypeCorrect == Spec => []TypeOK
<1>1. Ranges /\ Locking => TypeOK
  BY TypeParts DEF Locking
<1> QED
  BY <1>1, TypesInvariant, PTL
-----------------------------------------------------------------------------
(* What an operation of the next state has done.                              *)

Begun(t) == /\ op[t] = None
            /\ op'[t].at \in {"lock", "get", "home", "store", "source", "check"}
            /\ op'[t].kind = "member" => profile
Continued(t) == /\ op[t] # None
                /\ Same(op'[t], op[t])
                /\ \/ op'[t] = op[t]
                   \/ op'[t].at \in {"create", "home", "get"}
                   \/ Careful(t, op'[t])
                   \/ op'[t].excused /\ op'[t].at = op[t].at

\* An operation found after a step had just begun, or was there before and moved on.
LEMMA Evolution ==
  ASSUME Ranges, [Next]_vars, NEW t \in Slots, op'[t] # None
  PROVE  Begun(t) \/ Continued(t)
<1> USE DEF Ranges, OpRanges
<1>1. ASSUME op'[t] = op[t]
      PROVE  Continued(t)
  BY <1>1 DEF Continued, Same
<1>2. ASSUME NEW s \in Slots, Moves(s), ~Idles
      PROVE  Begun(t) \/ Continued(t)
  <2>1. PICK o \in Operation \cup {None} :
          /\ op' = [op EXCEPT ![s] = o]
          /\ o # None =>
               \/ /\ op[s] = None
                  /\ o.at \in {"lock", "get", "home", "store", "source", "check"}
                  /\ o.kind = "member" => profile
               \/ /\ op[s] # None /\ Same(o, op[s])
                  /\ o.at \in {"create", "home", "get"} \/ Careful(s, o)
    <3>1. CASE Starts(s)
      BY <3>1 DEF Starts
    <3>2. CASE Proceeds(s)
      BY <3>2 DEF Proceeds
    <3>3. CASE Locks(s)
      BY <3>3 DEF Locks
    <3>4. CASE Leaves(s)
      BY <3>4 DEF Leaves
    <3> QED
      BY <1>2, <3>1, <3>2, <3>3, <3>4 DEF Moves
  <2>2. CASE t # s
    BY <1>1, <2>1, <2>2
  <2>3. CASE t = s
    BY <2>1, <2>3 DEF Begun, Continued
  <2> QED
    BY <2>2, <2>3
<1>3. CASE Marks
  BY <1>3 DEF Marks, Continued
<1>4. CASE Kills
  BY <1>1, <1>4 DEF Kills
<1>5. CASE Idles
  BY <1>1, <1>5 DEF Idles
<1> QED
  BY <1>2, <1>3, <1>4, <1>5, StepIsSteady DEF Steady

\* The steps that change credentials or projections.
FileStep(s) == SyncPut(s) \/ MakeDir(s) \/ WriteAuth(s) \/ WriteMarker(s) \/ RemoveHome(s)
                 \/ RemoveSecret(s) \/ ImportStore(s) \/ Migrating(s)

\* Credentials and projections change in the steps listed by FileStep, or when Codex rotates
\* the tokens.
LEMMA FilesFrame ==
  ASSUME [Next]_vars
  PROVE  \/ UNCHANGED files
         \/ \E s \in Slots : FileStep(s)
         \/ \E a \in Accounts : CodexRefreshes(a)
<1>1. ASSUME NEW s \in Slots, Requesting(s)
      PROVE  UNCHANGED files
  BY <1>1 DEF Requesting, ImportRequest, SessionRequest, ProjectRequest, RemoveRequest, QuotaRequest,
              CurrentRequest, MemberRequest, Import, Call, Request, Begin
<1>2. ASSUME NEW s \in Slots, Commanding(s)
      PROVE  UNCHANGED files
  BY <1>2 DEF Commanding, ImportCommand, ProjectCommand, RemoveCommand, QuotaCommand,
              CurrentCommand, MemberCommand, MigrateCommand, Import, Call, Command, Begin
<1>3. ASSUME NEW s \in Slots, Lock(s) \/ Projecting(s)
      PROVE  UNCHANGED files \/ FileStep(s)
  BY <1>3 DEF Lock, Projecting, Get, Sync, ProjectFails, Create, FileStep
<1>4. ASSUME NEW s \in Slots, Writing(s) \/ Removing(s)
      PROVE  UNCHANGED files \/ FileStep(s)
  BY <1>4 DEF Writing, Check, Insert, WriterFails, Removing, RemoveRow, RemoveFails, FileStep
<1>5. ASSUME NEW s \in Slots, Importing(s) \/ Refreshing(s) \/ Migrating(s)
      PROVE  UNCHANGED files \/ FileStep(s)
  BY <1>5 DEF Importing, ImportUpsert, ImportLook, ImportFails, Refreshing, Usage, QuotaUpsert,
              QuotaFails, FileStep
<1>6. ASSUME NEW dead, Kill(dead)
      PROVE  UNCHANGED files
  BY <1>6 DEF Kill
<1>7. ASSUME MakeProfile \/ DropProfile \/ \E a \in Accounts : DropMember(a)
      PROVE  UNCHANGED files
  BY <1>7 DEF MakeProfile, DropProfile, DropMember
<1> QED
  BY <1>1, <1>2, <1>3, <1>4, <1>5, <1>6, <1>7 DEF Next, Crash, Interrupt, vars

\* Only a removal or a migration deletes a credential, and only projections and Codex
\* write an auth.json.
LEMMA SecretGoes ==
  ASSUME Ranges, [Next]_vars, NEW a \in Accounts, NEW b \in Backends,
         secret[b][a] # None, secret'[b][a] = None
  PROVE  \E s \in Slots : Acc(s) = a /\ (RemoveSecret(s) \/ Migrating(s))
<1>1. PICK s \in Slots : SyncPut(s) \/ ImportStore(s) \/ RemoveSecret(s) \/ Migrating(s)
  <2>1. UNCHANGED secret \/ \E s \in Slots : FileStep(s)
    BY FilesFrame DEF files, CodexRefreshes
  <2> QED
    BY <2>1 DEF FileStep, MakeDir, WriteAuth, WriteMarker, RemoveHome
<1>2. op[s] # None => op[s].fresh \in Tokens /\ op[s].token \in Tokens
  BY DEF Ranges, OpRanges, Operation
<1>3. None \notin Tokens
  BY ConstantsOK DEF Tokens
<1>4. ~SyncPut(s) /\ ~ImportStore(s)
  BY <1>2, <1>3 DEF SyncPut, ImportStore, At, Ranges, FileRanges
<1>5. Acc(s) = a
  <2>1. CASE RemoveSecret(s)
    BY <2>1 DEF RemoveSecret, DeleteSecret, Ranges, FileRanges
  <2>2. CASE Migrating(s)
    <3>1. op[s] \in Operation /\ op[s].token \in Tokens /\ op[s].token # None
      BY <1>2, <1>3, <2>2 DEF Migrating, MigrateGet, MigratePut, MigrateRead, MigrateMove,
                 MigrateUndo, MigrateDrop, MigrateFails, At, Ranges, OpRanges
    <3>2. CASE MigratePut(s)
      BY <3>1, <3>2 DEF MigratePut, Ranges, FileRanges
    <3>3. CASE MigrateUndo(s) \/ MigrateDrop(s)
      BY <3>3 DEF MigrateUndo, MigrateDrop, DeleteSecret, Ranges, FileRanges
    <3> QED
      BY <2>2, <3>2, <3>3 DEF Migrating, MigrateGet, MigrateRead, MigrateMove, MigrateFails, files
  <2> QED
    BY <1>1, <1>4, <2>1, <2>2
<1> QED
  BY <1>1, <1>4, <1>5

\* An auth.json gets its content from Codex or from a projection of its account.
LEMMA HomeFills ==
  ASSUME Ranges, [Next]_vars, NEW a \in Accounts,
         home'[a].auth # None, home'[a].auth # home[a].auth
  PROVE  CodexRefreshes(a) \/ \E s \in Slots : Acc(s) = a /\ WriteAuth(s)
<1>1. \/ \E s \in Slots : WriteAuth(s) \/ MakeDir(s) \/ WriteMarker(s) \/ RemoveHome(s)
      \/ \E b \in Accounts : CodexRefreshes(b)
  <2>1. ASSUME NEW s \in Slots, Migrating(s)
        PROVE  UNCHANGED home
    BY <2>1 DEF Migrating, MigrateGet, MigratePut, MigrateRead, MigrateMove, MigrateUndo,
                MigrateDrop, MigrateFails, files
  <2> QED
    BY <2>1, FilesFrame DEF FileStep, files, SyncPut, RemoveSecret, ImportStore
<1>2. ASSUME NEW s \in Slots, WriteAuth(s) PROVE Acc(s) = a
  BY <1>2 DEF WriteAuth, Ranges, FileRanges, Homes
<1>3. ASSUME NEW s \in Slots, MakeDir(s) \/ WriteMarker(s) \/ RemoveHome(s) PROVE FALSE
  BY <1>3 DEF MakeDir, WriteMarker, RemoveHome, NoHome, Ranges, FileRanges, Homes
<1>4. ASSUME NEW b \in Accounts, CodexRefreshes(b) PROVE a = b
  BY <1>4 DEF CodexRefreshes, Ranges, FileRanges, Homes
<1> QED
  BY <1>1, <1>2, <1>3, <1>4
-----------------------------------------------------------------------------
(* The current account.                                                       *)

\* The steps that write rows, and ImportLook, which closes an import.
RowStep(s) == Insert(s) \/ RemoveRow(s) \/ ImportUpsert(s) \/ QuotaUpsert(s) \/ MigrateMove(s)
                \/ ImportLook(s)

\* The rows change in the steps listed by RowStep and in those on auth profiles.
LEMMA StoredFrame ==
  ASSUME [Next]_vars
  PROVE  \/ UNCHANGED <<stored, raced, unset>>
         \/ \E s \in Slots : RowStep(s)
         \/ MakeProfile \/ DropProfile
         \/ \E a \in Accounts : DropMember(a)
<1> DEFINE Kept == UNCHANGED <<stored, raced, unset>>
<1>1. ASSUME NEW s \in Slots, Requesting(s)
      PROVE  Kept
  BY <1>1 DEF Requesting, ImportRequest, SessionRequest, ProjectRequest, RemoveRequest, QuotaRequest,
              CurrentRequest, MemberRequest, Import, Call, Request, Begin
<1>2. ASSUME NEW s \in Slots, Commanding(s)
      PROVE  Kept
  BY <1>2 DEF Commanding, ImportCommand, ProjectCommand, RemoveCommand, QuotaCommand,
              CurrentCommand, MemberCommand, MigrateCommand, Import, Call, Command, Begin
<1>3. ASSUME NEW s \in Slots, Lock(s) \/ Projecting(s)
      PROVE  Kept
  BY <1>3 DEF Lock, Projecting, Get, Sync, SyncPut, MakeDir, WriteAuth, WriteMarker, ProjectFails,
              Create, history
<1>4. ASSUME NEW s \in Slots, Writing(s) \/ Removing(s)
      PROVE  Kept \/ RowStep(s)
  BY <1>4 DEF Writing, Check, WriterFails, Removing, RemoveHome, RemoveSecret, RemoveFails, RowStep,
              history
<1>5. ASSUME NEW s \in Slots, Importing(s) \/ Refreshing(s)
      PROVE  Kept \/ RowStep(s)
  BY <1>5 DEF Importing, ImportStore, ImportFails, Refreshing, Usage, QuotaFails, RowStep, history
<1>6. ASSUME NEW s \in Slots, Migrating(s)
      PROVE  Kept \/ RowStep(s)
  BY <1>6 DEF Migrating, MigrateGet, MigratePut, MigrateRead, MigrateUndo, MigrateDrop, MigrateFails,
              RowStep, history
<1>7. ASSUME NEW dead, Kill(dead)
      PROVE  Kept
  BY <1>7 DEF Kill
<1>8. ASSUME NEW a, CodexRefreshes(a)
      PROVE  Kept
  BY <1>8 DEF CodexRefreshes, history
<1>9. CASE Next
  BY <1>1, <1>2, <1>3, <1>4, <1>5, <1>6, <1>7, <1>8, <1>9 DEF Next, Crash, Interrupt
<1> QED
  BY <1>9 DEF vars, history

\* Deleting an account leaves a current account when another account is stored.
LEMMA HeirAfterDelete ==
  ASSUME Ranges, CurrentWhenStored, NEW a \in Accounts, row[a] # None, DeleteAccount(a)
  PROVE  CurrentWhenStored'
<1> DEFINE left == {b \in Accounts \ {a} : row[b] # None}
<1>1. /\ row' = [row EXCEPT ![a] = None] /\ unset' = unset \ {a}
      /\ current' \in Heirs(a) /\ row \in [Accounts -> Backends \cup {None}]
  BY DEF DeleteAccount, Ranges, StoredRanges
<1>2. CASE current # a
  <2>1. current' = current
    BY <1>1, <1>2 DEF Heirs
  <2> QED
    BY <1>1, <2>1 DEF CurrentWhenStored
<1>3. CASE current = a /\ left = {}
  BY <1>1, <1>3 DEF CurrentWhenStored
<1>4. CASE current = a /\ left # {}
  <2>1. current' \in left
    BY <1>1, <1>4 DEF Heirs
  <2> QED
    BY <2>1, ConstantsOK DEF CurrentWhenStored
<1> QED
  BY <1>2, <1>3, <1>4

\* Every step keeps an account current: one case per action that writes rows.
LEMMA HeirStep == Ranges /\ CurrentWhenStored /\ [Next]_vars => CurrentWhenStored'
<1> SUFFICES ASSUME Ranges, CurrentWhenStored, [Next]_vars PROVE CurrentWhenStored'
  OBVIOUS
<1>1. ASSUME NEW s \in Slots, RowStep(s)
      PROVE  CurrentWhenStored'
  <2>1. op[s] \in Operation /\ Acc(s) \in Accounts /\ Acc(s) # None
    BY <1>1, ConstantsOK DEF RowStep, Insert, RemoveRow, ImportUpsert, QuotaUpsert, MigrateMove,
       ImportLook, At, Ranges, OpRanges, Operation, Acc
  <2>2. CASE Insert(s)
    BY <2>1, <2>2 DEF Insert, CurrentWhenStored
  <2>3. CASE RemoveRow(s)
    BY <2>1, <2>3, HeirAfterDelete DEF RemoveRow, CurrentWhenStored
  <2>4. ASSUME NEW r \in Backends, Upsert(Acc(s), r), UNCHANGED current
        PROVE  CurrentWhenStored'
    BY <2>1, <2>4 DEF Upsert, CurrentWhenStored, Ranges, StoredRanges
  <2>5. CASE ImportUpsert(s) \/ QuotaUpsert(s)
    BY <2>1, <2>4, <2>5 DEF ImportUpsert, QuotaUpsert, Operation
  <2>6. CASE MigrateMove(s)
    <3>1. Other(op[s].backend) \in Backends
      BY <2>1 DEF Other, Backends, Operation
    <3> QED
      BY <2>4, <2>6, <3>1 DEF MigrateMove, CurrentWhenStored
  <2>7. CASE ImportLook(s)
    BY <2>7 DEF ImportLook, CurrentWhenStored, stored
  <2> QED
    BY <1>1, <2>2, <2>3, <2>5, <2>6, <2>7 DEF RowStep
<1>2. CASE UNCHANGED <<stored, raced, unset>>
  BY <1>2 DEF CurrentWhenStored, stored
<1>3. CASE MakeProfile \/ DropProfile \/ \E a \in Accounts : DropMember(a)
  BY <1>3 DEF MakeProfile, DropProfile, DropMember, CurrentWhenStored, history
<1> QED
  BY <1>1, <1>2, <1>3, StoredFrame

\* While accounts are stored one of them is current, through removals of the current one,
\* imports that race, and writes that report a failure (store.go:571, importer.go:81).
THEOREM CurrentCorrect == Spec => []CurrentWhenStored
<1>1. Init => CurrentWhenStored
  <2> SUFFICES ASSUME Init, current = None PROVE \A a \in Accounts : row[a] = None
    BY DEF CurrentWhenStored
  <2>1. PICK imported \in SUBSET Accounts :
          /\ row = [a \in Accounts |-> IF a \in imported THEN DaemonBackend ELSE None]
          /\ current \in IF imported = {} THEN {None} ELSE imported
    BY DEF Init
  <2>2. imported = {}
    BY <2>1, ConstantsOK
  <2> QED
    BY <2>1, <2>2
<1> QED
  BY <1>1, HeirStep, TypesInvariant, PTL DEF Spec
-----------------------------------------------------------------------------
(* Rows that name an account.                                                 *)

\* A writer past its look at the account, and a member of a profile that is being written:
\* what has been deleted under them is noted.
Flagged ==
  /\ OrphansAreRaced
  /\ \A s \in Slots : At(s, Writers, "insert") /\ row[Acc(s)] = None
                        => <<Acc(s), Table(op[s].kind)>> \in raced
  /\ \A s \in Slots : op[s] # None /\ op[s].kind = "member" /\ ~profile
                        => <<Acc(s), "member">> \in raced

\* The operations of the next state were flagged before.
LEMMA WritersFollow ==
  ASSUME Ranges, Flagged, [Next]_vars, NEW t \in Slots, op'[t] # None
  PROVE  /\ op'[t].account \in Accounts
         /\ op'[t].kind \in Writers /\ op'[t].at = "insert" /\ row[op'[t].account] = None
              => op[t] # None /\ Same(op'[t], op[t]) /\ At(t, Writers, "insert")
         /\ op'[t].kind = "member" /\ ~profile
              => op[t] # None /\ Same(op'[t], op[t]) /\ op[t].kind = "member"
<1>1. op[t] # None => op[t] \in Operation
  BY DEF Ranges, OpRanges
<1>2. CASE Begun(t)
  <2>1. op'[t].account \in Accounts
    BY SteadyRanges, StepIsSteady DEF Ranges, OpRanges, Operation
  <2> QED
    BY <1>2, <2>1 DEF Begun
<1>3. CASE Continued(t)
  <2>1. op'[t].account = op[t].account /\ op[t].account \in Accounts
    BY <1>1, <1>3 DEF Continued, Same, Operation
  <2> QED
    BY <1>3, <2>1 DEF Continued, Same, Careful, At, Acc
<1> QED
  BY <1>2, <1>3, Evolution

\* Steps that take no row away, add no name, and take no mark away.
LEMMA QuietFlagged ==
  ASSUME Ranges, Flagged, [Next]_vars,
         \A a \in Accounts : row'[a] = None => row[a] = None,
         named' \subseteq named, current' = current, profile => profile', raced \subseteq raced'
  PROVE  Flagged'
<1>1. OrphansAreRaced'
  BY DEF Flagged, OrphansAreRaced, Ranges, StoredRanges
<1>2. \A t \in Slots : At(t, Writers, "insert")' /\ row'[op'[t].account] = None
                        => <<op'[t].account, Table(op'[t].kind)>> \in raced'
  BY WritersFollow DEF Flagged, At, Acc, Same
<1>3. \A t \in Slots : op'[t] # None /\ op'[t].kind = "member" /\ ~profile'
                        => <<op'[t].account, "member">> \in raced'
  BY WritersFollow DEF Flagged, Acc, Same
<1> QED
  BY <1>1, <1>2, <1>3 DEF Flagged, Acc

\* A row or a name is written by a writer that has looked.
LEMMA InsertFlagged ==
  ASSUME Ranges, Flagged, [Next]_vars, NEW s \in Slots, Insert(s)
  PROVE  Flagged'
<1>1. /\ op[s] # None /\ op[s] \in Operation /\ Acc(s) \in Accounts
      /\ At(s, Writers, "insert") /\ UNCHANGED <<row, profile, raced>>
  BY DEF Insert, At, Ranges, OpRanges, Operation, Acc
<1>2. row[Acc(s)] = None => <<Acc(s), Table(op[s].kind)>> \in raced
  BY <1>1 DEF Flagged
<1>3. Table(op[s].kind) = "member" /\ ~profile => <<Acc(s), "member">> \in raced
  BY <1>1 DEF Flagged, Table
<1>4. OrphansAreRaced'
  <2>1. CASE Table(op[s].kind) = "current"
    <3>1. current' = Acc(s) /\ named' = named
      BY <2>1 DEF Insert
    <3> QED
      BY <1>1, <1>2, <2>1, <3>1 DEF Flagged, OrphansAreRaced
  <2>2. CASE Table(op[s].kind) # "current"
    <3>1. current' = current /\ named' = named \cup {<<Acc(s), Table(op[s].kind)>>}
      BY <2>2 DEF Insert
    <3> QED
      BY <1>1, <1>2, <1>3, <3>1 DEF Flagged, OrphansAreRaced
  <2> QED
    BY <2>1, <2>2
<1>5. \A t \in Slots : At(t, Writers, "insert")' /\ row'[op'[t].account] = None
                        => <<op'[t].account, Table(op'[t].kind)>> \in raced'
  BY <1>1, WritersFollow DEF Flagged, At, Acc, Same
<1>6. \A t \in Slots : op'[t] # None /\ op'[t].kind = "member" /\ ~profile'
                        => <<op'[t].account, "member">> \in raced'
  BY <1>1, WritersFollow DEF Flagged, Acc, Same
<1> QED
  BY <1>4, <1>5, <1>6 DEF Flagged, Acc

\* An account is deleted: what names it goes, and who may still name it is noted.
LEMMA DeleteFlagged ==
  ASSUME Ranges, Flagged, [Next]_vars, NEW s \in Slots, RemoveRow(s), row[Acc(s)] # None
  PROVE  Flagged'
<1> DEFINE a == Acc(s)
           doomed == {<<a, t>> : t \in {t \in Tables : a \in InFlight(t)}}
<1>1. /\ a \in Accounts /\ row[a] # None /\ profile' = profile
      /\ row' = [row EXCEPT ![a] = None]
      /\ named' = {n \in named : n[1] # a}
      /\ raced' = {n \in raced : n[1] # a \/ n[2] = "member"} \cup doomed
      /\ current' \in Heirs(a)
  BY DEF RemoveRow, DeleteAccount, At, Ranges, OpRanges, Operation, Acc
<1>2. /\ row \in [Accounts -> Backends \cup {None}] /\ named \in SUBSET (Accounts \X Tables)
      /\ raced \in SUBSET (Accounts \X Tables) /\ current \in Accounts \cup {None}
      /\ \A b \in Accounts : b # a => row'[b] = row[b]
      /\ row'[a] = None
  BY <1>1 DEF Ranges, StoredRanges, HistoryRanges
<1>3. \A b \in Accounts, t \in Tables : b # a /\ <<b, t>> \in raced => <<b, t>> \in raced'
  BY <1>1
<1>4. \A b \in Accounts : <<b, "member">> \in raced => <<b, "member">> \in raced'
  BY <1>1
<1> HIDE DEF a, doomed
<1>5. OrphansAreRaced'
  <2>1. \A n \in named' : /\ n \in named /\ n[1] \in Accounts /\ n[1] # a /\ n[2] \in Tables
                          /\ n = <<n[1], n[2]>>
    BY <1>1, <1>2
  <2>2. \A n \in named' : row'[n[1]] = None => n \in raced'
    BY <1>2, <1>3, <2>1 DEF Flagged, OrphansAreRaced
  <2>3. \A n \in named' : n[2] = "member" /\ ~profile' => n \in raced'
    BY <1>1, <1>3, <2>1 DEF Flagged, OrphansAreRaced
  <2>4. current' # None /\ row'[current'] = None => <<current', "current">> \in raced'
    <3>1. CASE current # a
      <4>1. current' = current
        BY <1>1, <3>1 DEF Heirs
      <4> QED
        BY <1>2, <1>3, <3>1, <4>1 DEF Flagged, OrphansAreRaced, Tables
    <3>2. CASE current = a
      <4>1. current' = None \/ (current' \in Accounts \ {a} /\ row[current'] # None)
        BY <1>1, <3>2 DEF Heirs
      <4> QED
        BY <1>2, <4>1
    <3> QED
      BY <3>1, <3>2
  <2> QED
    BY <2>2, <2>3, <2>4 DEF OrphansAreRaced
<1>6. ASSUME NEW t \in Slots, At(t, Writers, "insert")', row'[op'[t].account] = None
      PROVE  <<op'[t].account, Table(op'[t].kind)>> \in raced'
  <2>1. /\ op'[t] # None /\ op'[t].account \in Accounts /\ op'[t].kind \in Writers
        /\ op'[t].at = "insert" /\ Table(op'[t].kind) \in Tables
    BY <1>6, WritersFollow DEF At, Table, Tables
  <2>2. CASE op'[t].account # a
    <3>1. row[op'[t].account] = None
      BY <1>2, <1>6, <2>1, <2>2
    <3>2. op[t] # None /\ Same(op'[t], op[t]) /\ At(t, Writers, "insert")
      BY <2>1, <3>1, WritersFollow
    <3>3. <<op'[t].account, Table(op'[t].kind)>> \in raced
      BY <3>1, <3>2 DEF Flagged, Same, Acc
    <3> QED
      BY <1>3, <2>1, <2>2, <3>3
  <2>3. CASE op'[t].account = a
    <3>1. t # s
      BY <2>1 DEF RemoveRow, Return, Ranges, OpRanges
    <3>2. op'[t] = op[t]
      BY <3>1 DEF RemoveRow, Return, Ranges, OpRanges
    <3>3. a \in InFlight(Table(op'[t].kind))
      BY <1>1, <2>1, <2>3, <3>2 DEF InFlight, At, Acc
    <3>4. <<a, Table(op'[t].kind)>> \in doomed
      BY <2>1, <3>3 DEF doomed
    <3> QED
      BY <1>1, <2>3, <3>4
  <2> QED
    BY <2>2, <2>3
<1>7. \A t \in Slots : op'[t] # None /\ op'[t].kind = "member" /\ ~profile'
                        => <<op'[t].account, "member">> \in raced'
  BY <1>1, <1>4, WritersFollow DEF Flagged, Acc, Same
<1> QED
  BY <1>5, <1>6, <1>7 DEF Flagged, Acc

\* A profile is deleted, with its members; who may still add one is noted.
LEMMA ProfileFlagged ==
  ASSUME Ranges, Flagged, [Next]_vars, DropProfile
  PROVE  Flagged'
<1>1. /\ UNCHANGED <<row, current, op>> /\ named' = {n \in named : n[2] # "member"}
      /\ raced \subseteq raced'
      /\ \A s \in Slots : op[s] # None /\ op[s].kind = "member" => <<Acc(s), "member">> \in raced'
  BY DEF DropProfile
<1>2. OrphansAreRaced'
  BY <1>1 DEF Flagged, OrphansAreRaced
<1> QED
  BY <1>1, <1>2 DEF Flagged, At, Acc

\* Every step keeps orphans within the raced ones.
LEMMA FlaggedStep == Ranges /\ Flagged /\ [Next]_vars => Flagged'
<1> SUFFICES ASSUME Ranges, Flagged, [Next]_vars PROVE Flagged'
  OBVIOUS
<1>1. ASSUME NEW s \in Slots, RowStep(s)
      PROVE  Flagged'
  <2>1. op[s] \in Operation /\ Acc(s) \in Accounts
    BY <1>1 DEF RowStep, Insert, RemoveRow, ImportUpsert, QuotaUpsert, MigrateMove,
       ImportLook, At, Ranges, OpRanges, Operation, Acc
  <2>2. CASE Insert(s)
    BY <2>2, InsertFlagged
  <2>3. CASE RemoveRow(s)
    <3>1. row[Acc(s)] = None => UNCHANGED <<row, named, current, profile, raced>>
      BY <2>3 DEF RemoveRow
    <3> QED
      BY <2>3, <3>1, DeleteFlagged, QuietFlagged
  <2>4. ASSUME NEW r \in Backends, Upsert(Acc(s), r), UNCHANGED <<current, named, profile, raced>>
        PROVE  Flagged'
    <3>1. \A a \in Accounts : row'[a] = None => row[a] = None
      BY <2>1, <2>4, ConstantsOK DEF Upsert, Ranges, StoredRanges
    <3> QED
      BY <2>4, <3>1, QuietFlagged
  <2>5. CASE ImportUpsert(s) \/ QuotaUpsert(s)
    BY <2>1, <2>4, <2>5 DEF ImportUpsert, QuotaUpsert, Operation
  <2>6. CASE MigrateMove(s)
    <3>1. Other(op[s].backend) \in Backends
      BY <2>1 DEF Other, Backends, Operation
    <3>2. CASE UNCHANGED row
      BY <2>6, <3>2, QuietFlagged DEF MigrateMove
    <3> QED
      BY <2>4, <2>6, <3>1, <3>2 DEF MigrateMove
  <2>7. CASE ImportLook(s)
    BY <2>7, QuietFlagged DEF ImportLook, stored
  <2> QED
    BY <1>1, <2>2, <2>3, <2>5, <2>6, <2>7 DEF RowStep
<1>2. CASE UNCHANGED <<stored, raced, unset>>
  BY <1>2, QuietFlagged DEF stored
<1>3. CASE MakeProfile
  BY <1>3, QuietFlagged DEF MakeProfile, history
<1>4. CASE \E a \in Accounts : DropMember(a)
  BY <1>4, QuietFlagged DEF DropMember, history
<1> QED
  BY <1>1, <1>2, <1>3, <1>4, StoredFrame, ProfileFlagged

\* No row names an account that is gone, except where the account was deleted between its
\* writer's look and its write (store.go:498, :542, :394, :476).
THEOREM OrphansCorrect == Spec => []OrphansAreRaced
<1>1. Init => Flagged
  <2> SUFFICES ASSUME Init PROVE Flagged
    OBVIOUS
  <2>1. PICK imported \in SUBSET Accounts :
          /\ row = [a \in Accounts |-> IF a \in imported THEN DaemonBackend ELSE None]
          /\ current \in IF imported = {} THEN {None} ELSE imported
    BY DEF Init
  <2>2. current # None => row[current] # None
    BY <2>1, ConstantsOK
  <2> QED
    BY <2>2 DEF Init, Flagged, OrphansAreRaced, At
<1>2. Flagged => OrphansAreRaced
  BY DEF Flagged
<1> QED
  BY <1>1, <1>2, FlaggedStep, TypesInvariant, PTL DEF Spec
-----------------------------------------------------------------------------
(* Credentials under projections and removals.                                *)

\* Operations of the daemon on accounts that no command has worked on.
Ours(s) == op[s] # None /\ Acc(s) \notin unlocked

\* A projection that has read the credential can rely on it; a removal that is about to
\* delete it has removed the projection.
Credentials ==
  /\ TokensHaveCredential
  /\ \A s \in Slots : Ours(s) /\ op[s].kind \in Projects /\ op[s].at \in Projection
                        => secret[DaemonBackend][Acc(s)] # None
  /\ \A s \in Slots : Ours(s) /\ op[s].kind = "remove" /\ op[s].at = "secret"
                        => home[Acc(s)].auth = None

\* Such an operation is the daemon's, and the only one that holds the lock.
LEMMA OursIsAlone ==
  ASSUME Ranges, Locking, NEW s \in Slots, Ours(s)
  PROVE  /\ ~op[s].cli /\ op[s].backend = DaemonBackend /\ op[s].kind # "migrate"
         /\ Acc(s) \in Accounts
         /\ op[s].kind \in Lockers /\ op[s].at \in Locked => lock[Acc(s)] = s
  BY DEF Ours, Locking, Discipline, Ranges, OpRanges, Operation, Acc

\* The lock stays with who holds it, and commands are remembered.
LEMMA UnlockedGrows ==
  ASSUME Ranges, [Next]_vars
  PROVE  unlocked \subseteq unlocked'
  BY StepIsSteady DEF Steady, Moves, Starts, Proceeds, Locks, Leaves, Idles, Marks, Kills

\* While a credential of ours is deleted the removal holds the lock, and after the projection.
LEMMA OursGoes ==
  ASSUME Ranges, Locking, Credentials, [Next]_vars, NEW a \in Accounts \ unlocked,
         secret[DaemonBackend][a] # None, secret'[DaemonBackend][a] = None
  PROVE  \E s \in Slots : /\ lock[a] = s /\ lock' = lock /\ home' = home
                          /\ op[s].kind = "remove" /\ op'[s].kind = "remove" /\ op'[s].at = "row"
                          /\ home[a].auth = None
<1>1. PICK s \in Slots : Acc(s) = a /\ (RemoveSecret(s) \/ Migrating(s))
  BY SecretGoes, ConstantsOK
<1>2. Ours(s)
  BY <1>1 DEF Ours, RemoveSecret, Migrating, MigrateGet, MigratePut, MigrateRead, MigrateMove,
              MigrateUndo, MigrateDrop, MigrateFails, At
<1>3. ~Migrating(s)
  BY <1>2, OursIsAlone DEF Migrating, MigrateGet, MigratePut, MigrateRead, MigrateMove,
              MigrateUndo, MigrateDrop, MigrateFails, At
<1>4. /\ op[s].kind = "remove" /\ op[s].at = "secret" /\ Goto(s, "row")
      /\ lock' = lock /\ home' = home
  BY <1>1, <1>3 DEF RemoveSecret, At
<1>5. lock[a] = s /\ home[a].auth = None
  BY <1>1, <1>2, <1>4, OursIsAlone DEF Lockers, Locked, Credentials
<1>6. op'[s].kind = "remove" /\ op'[s].at = "row"
  BY <1>2, <1>4 DEF Ours, Goto, Ranges, OpRanges, Operation
<1> QED
  BY <1>4, <1>5, <1>6

\* A new token is written by the projection that holds the lock, or by Codex over an old one.
LEMMA OursFills ==
  ASSUME Ranges, Locking, [Next]_vars, NEW a \in Accounts \ unlocked,
         home'[a].auth # None, home'[a].auth # home[a].auth, ~CodexRefreshes(a)
  PROVE  \E s \in Slots : /\ Acc(s) = a /\ WriteAuth(s) /\ Ours(s)
                          /\ lock[a] = s /\ lock' = lock /\ secret' = secret
                          /\ op[s].kind \in Projects /\ op[s].at = "auth"
                          /\ op'[s].kind \in Projects /\ op'[s].at = "marker"
<1>1. PICK s \in Slots : Acc(s) = a /\ WriteAuth(s)
  BY HomeFills
<1>2. /\ Ours(s) /\ op[s].kind \in Projects /\ op[s].at = "auth" /\ Goto(s, "marker")
      /\ lock' = lock /\ secret' = secret
  BY <1>1 DEF Ours, WriteAuth, At, Projects
<1>3. lock[a] = s
  BY <1>1, <1>2, OursIsAlone DEF Lockers, Locked, Projects
<1>4. op'[s].kind \in Projects /\ op'[s].at = "marker"
  BY <1>2 DEF Ours, Goto, Ranges, OpRanges, Operation
<1> QED
  BY <1>1, <1>2, <1>3, <1>4

\* Every step keeps the credentials of the accounts whose tokens are projected.
LEMMA CredentialsStep ==
  Ranges /\ Locking /\ Credentials /\ [Next]_vars => Credentials'
<1> SUFFICES ASSUME Ranges, Locking, Credentials, [Next]_vars PROVE Credentials'
  OBVIOUS
<1>1. Ranges' /\ Locking' /\ unlocked \subseteq unlocked'
  BY StepTypes, UnlockedGrows
<1>2. ASSUME NEW a \in Accounts \ unlocked', home'[a].auth # None
      PROVE  secret'[DaemonBackend][a] # None
  <2>1. a \in Accounts \ unlocked
    BY <1>1
  <2>2. CASE home'[a].auth = home[a].auth \/ CodexRefreshes(a)
    <3>1. home[a].auth # None
      BY <1>2, <2>2 DEF CodexRefreshes
    <3>2. secret[DaemonBackend][a] # None
      BY <2>1, <3>1 DEF Credentials, TokensHaveCredential
    <3> QED
      BY <2>1, <3>1, <3>2, OursGoes
  <2>3. CASE home'[a].auth # home[a].auth /\ ~CodexRefreshes(a)
    <3>1. PICK s \in Slots : /\ Acc(s) = a /\ Ours(s) /\ secret' = secret
                             /\ op[s].kind \in Projects /\ op[s].at = "auth"
      BY <1>2, <2>1, <2>3, OursFills
    <3> QED
      BY <3>1 DEF Credentials, Projection
  <2> QED
    BY <2>2, <2>3
<1>3. ASSUME NEW t \in Slots, op'[t] # None, op'[t].account \notin unlocked',
             op'[t].kind \in Projects, op'[t].at \in Projection
      PROVE  secret'[DaemonBackend][op'[t].account] # None
  <2> DEFINE a == op'[t].account
  <2>1. a \in Accounts \ unlocked' /\ a \in Accounts \ unlocked /\ lock'[a] = t
    BY <1>1, <1>3, OursIsAlone DEF Locking, Discipline, Ranges, OpRanges, Operation, Acc, Projects, Lockers,
       Projection, Locked
  <2>2. Continued(t)
    BY <1>3, Evolution DEF Begun, Projection
  <2>3. op[t] # None /\ Acc(t) = a /\ op[t].kind \in Projects /\ Ours(t)
    BY <1>3, <2>1, <2>2 DEF Continued, Same, Acc, Ours
  <2>4. secret[DaemonBackend][a] # None
    <3>1. CASE op[t].at \in Projection
      BY <2>3, <3>1 DEF Credentials
    <3>2. CASE Readable(t)
      BY <2>3, <3>2, OursIsAlone DEF Readable
    <3>3. Sync(t) \/ SyncPut(t) \/ MakeDir(t) => op[t].at \in Projection
      BY DEF Sync, SyncPut, MakeDir, At, Projection
    <3> QED
      BY <1>3, <2>2, <3>1, <3>2, <3>3 DEF Continued, Careful, Projection, Projects
  <2>5. CASE secret'[DaemonBackend][a] = None
    <3>1. PICK s \in Slots : lock[a] = s /\ lock' = lock /\ op'[s].kind = "remove"
      BY <2>1, <2>4, <2>5, OursGoes
    <3> QED
      BY <1>3, <2>1, <3>1 DEF Projects
  <2> QED
    BY <2>5
<1>4. ASSUME NEW t \in Slots, op'[t] # None, op'[t].account \notin unlocked',
             op'[t].kind = "remove", op'[t].at = "secret", home'[op'[t].account].auth # None
      PROVE  FALSE
  <2> DEFINE a == op'[t].account
  <2>1. a \in Accounts \ unlocked' /\ a \in Accounts \ unlocked /\ lock'[a] = t
    BY <1>1, <1>4 DEF Locking, Discipline, Ranges, OpRanges, Operation, Acc, Lockers, Locked
  <2>2. Continued(t)
    BY <1>4, Evolution DEF Begun
  <2>3. op[t] # None /\ Acc(t) = a /\ op[t].kind = "remove" /\ op[t].at = "secret" /\ Ours(t)
    BY <1>4, <2>1, <2>2 DEF Continued, Same, Careful, Acc, Ours
  <2>4. home[a].auth = None
    BY <2>3 DEF Credentials
  <2>5. ~CodexRefreshes(a)
    BY <2>4 DEF CodexRefreshes
  <2>6. PICK s \in Slots : lock[a] = s /\ lock' = lock /\ op'[s].kind \in Projects
    BY <1>4, <2>1, <2>4, <2>5, OursFills
  <2> QED
    BY <1>4, <2>1, <2>6 DEF Projects
<1> QED
  BY <1>2, <1>3, <1>4 DEF Credentials, TokensHaveCredential, Ours, Acc

\* No projection is left with tokens whose credential the daemon has deleted
\* (accounts.go:1097, runtime.go:46).
THEOREM CredentialsCorrect == Spec => []TokensHaveCredential
<1>1. Init => Credentials
  BY DEF Init, Credentials, TokensHaveCredential, Ours, NoHome
<1>2. Credentials => TokensHaveCredential
  BY DEF Credentials
<1> QED
  BY <1>1, <1>2, CredentialsStep, TypesInvariant, PTL DEF Spec
-----------------------------------------------------------------------------
(* The age of the tokens in hand.                                             *)

NotNewer(auth, token) == auth = None \/ auth <= token

\* From its look at the projection to its write, a projection has in hand a copy that is
\* not older than the file.
Freshness == \A s \in Slots :
  Ours(s) /\ op[s].kind \in Projects /\ ~op[s].excused =>
    /\ op[s].at \in {"dir", "auth"} => NotNewer(home[Acc(s)].auth, op[s].token)
    /\ op[s].at = "put" => NotNewer(home[Acc(s)].auth, op[s].fresh)

\* A file that does not change under an operation is as old as it was.
LEMMA SameFile ==
  ASSUME Ranges, Locking, [Next]_vars, NEW t \in Slots, op'[t] # None,
         op'[t].account \notin unlocked',
         op'[t].kind \in Projects, ~op'[t].excused, op'[t].at \in {"put", "dir", "auth"}
  PROVE  home'[op'[t].account].auth \in {None, home[op'[t].account].auth}
<1> DEFINE a == op'[t].account
<1>1. Ranges' /\ Locking' /\ unlocked \subseteq unlocked'
  BY StepTypes, UnlockedGrows
<1>2. a \in Accounts \ unlocked /\ lock'[a] = t
  BY <1>1 DEF Locking, Discipline, Ranges, OpRanges, Operation, Acc, Projects, Lockers, Locked
<1>3. Begun(t) \/ Continued(t)
  BY Evolution
<1>4. CASE CodexRefreshes(a)
  <2>1. op' = [s \in Slots |-> IF /\ \E step \in {"put", "dir", "auth"} : At(s, {"project", "session"}, step)
                                  /\ Acc(s) = a
                                 THEN [op[s] EXCEPT !.excused = TRUE] ELSE op[s]]
    BY <1>4 DEF CodexRefreshes
  <2>2. op'[t] = IF /\ \E step \in {"put", "dir", "auth"} : At(t, {"project", "session"}, step)
                    /\ Acc(t) = a
                   THEN [op[t] EXCEPT !.excused = TRUE] ELSE op[t]
    BY <2>1
  <2>3. op'[t] # op[t]
    BY <2>2 DEF At, Acc, Projects, Ranges, OpRanges, Operation
  <2>4. op[t] # None /\ op'[t] = [op[t] EXCEPT !.excused = TRUE]
    BY <2>2, <2>3 DEF At
  <2>5. op'[t].excused
    BY <2>4 DEF Ranges, OpRanges, Operation
  <2> QED
    BY <2>5
<1>5. CASE ~CodexRefreshes(a) /\ home'[a].auth # None /\ home'[a].auth # home[a].auth
  <2>1. PICK s \in Slots : lock[a] = s /\ lock' = lock /\ op'[s].at = "marker"
    BY <1>2, <1>5, OursFills
  <2> QED
    BY <1>2, <2>1
<1> QED
  BY <1>4, <1>5

\* Every step keeps what the projections are about to write as new as what they replace.
LEMMA FreshnessStep ==
  Ranges /\ Locking /\ Freshness /\ [Next]_vars => Freshness'
<1> SUFFICES ASSUME Ranges, Locking, Freshness, [Next]_vars,
                    NEW t \in Slots, op'[t] # None, op'[t].account \notin unlocked',
                    op'[t].kind \in Projects, ~op'[t].excused, op'[t].at \in {"put", "dir", "auth"}
             PROVE  /\ op'[t].at \in {"dir", "auth"} => NotNewer(home'[op'[t].account].auth, op'[t].token)
                    /\ op'[t].at = "put" => NotNewer(home'[op'[t].account].auth, op'[t].fresh)
  BY DEF Freshness, Ours, Acc
<1> DEFINE a == op'[t].account
<1>1. unlocked \subseteq unlocked'
  BY UnlockedGrows
<1>2. home'[a].auth \in {None, home[a].auth}
  BY SameFile
<1>3. Continued(t) /\ ~Begun(t)
  BY Evolution DEF Begun
<1>4. op[t] # None /\ op[t] \in Operation /\ Acc(t) = a /\ a \in Accounts /\ Ours(t)
      /\ op[t].kind \in Projects
  BY <1>1, <1>3 DEF Continued, Same, Acc, Ours, Ranges, OpRanges, Operation
<1>5. op'[t] = op[t] \/ Sync(t) \/ SyncPut(t) \/ MakeDir(t)
  BY <1>3 DEF Continued, Careful
<1>6. CASE op'[t] = op[t]
  BY <1>2, <1>4, <1>6 DEF Freshness, NotNewer
<1>7. CASE Sync(t)
  <2> DEFINE projected == home[a].auth
  <2>1. op[t].token \in Nat /\ projected \in Nat \cup {None}
    BY <1>4, ConstantsOK DEF Operation, Ranges, FileRanges, Homes, Tokens
  <2>2. CASE projected # None /\ Newer(projected, op[t].token)
    <3>1. op' = [op EXCEPT ![t] = [op[t] EXCEPT !.at = "put", !.fresh = projected]]
      BY <1>4, <1>7, <2>2 DEF Sync
    <3>2. op'[t].at = "put" /\ op'[t].fresh = projected
      BY <1>4, <3>1 DEF Ranges, OpRanges, Operation
    <3> QED
      BY <1>2, <2>1, <2>2, <3>2 DEF NotNewer
  <2>3. CASE ~(projected # None /\ Newer(projected, op[t].token))
    <3>1. op' = [op EXCEPT ![t] = [op[t] EXCEPT !.at = "dir"]]
      BY <1>4, <1>7, <2>3 DEF Sync
    <3>2. op'[t].at = "dir" /\ op'[t].token = op[t].token
      BY <1>4, <3>1 DEF Ranges, OpRanges, Operation
    <3> QED
      BY <1>2, <2>1, <2>3, <3>2 DEF NotNewer, Newer
  <2> QED
    BY <2>2, <2>3
<1>8. CASE SyncPut(t)
  <2>1. op[t].at = "put"
    BY <1>8 DEF SyncPut, At
  <2>2. PICK o \in {[op[t] EXCEPT !.at = "dir", !.token = op[t].fresh],
                    [op[t] EXCEPT !.at = "dir", !.excused = TRUE]} : op'[t] = o
    BY <1>8 DEF SyncPut, Ranges, OpRanges
  <2>3. op'[t].at = "dir" /\ op'[t].token = op[t].fresh /\ op'[t].excused = op[t].excused
    BY <1>4, <2>2 DEF Operation
  <2> QED
    BY <1>2, <1>4, <2>1, <2>3 DEF Freshness, NotNewer
<1>9. CASE MakeDir(t)
  <2>1. op[t].at = "dir"
    BY <1>9 DEF MakeDir, At
  <2>2. op'[t] = [op[t] EXCEPT !.at = "auth"]
    BY <1>9 DEF MakeDir, Goto, Ranges, OpRanges
  <2>3. op'[t].at = "auth" /\ op'[t].token = op[t].token /\ op'[t].excused = op[t].excused
    BY <1>4, <2>2 DEF Operation
  <2> QED
    BY <1>2, <1>4, <2>1, <2>3 DEF Freshness, NotNewer
<1> QED
  BY <1>5, <1>6, <1>7, <1>8, <1>9

\* No projection of the daemon writes an auth.json that is older than the one it replaces,
\* but for refreshes and refused writes after it looked (runtime.go:52).
THEOREM FreshnessCorrect == Spec => []ProjectionKeepsNewest
<1>1. Init => Freshness
  BY DEF Init, Freshness, Ours
<1>2. Freshness => ProjectionKeepsNewest
  BY DEF Freshness, ProjectionKeepsNewest, Ours, At, NotNewer, Projects
<1> QED
  BY <1>1, <1>2, FreshnessStep, TypesInvariant, PTL DEF Spec
-----------------------------------------------------------------------------
(* Row, credential and projection of an account belong together.              *)

On(s, a) == op[s] # None /\ Acc(s) = a

\* No two operations are under way on the account that would disturb each other.
Clear(a) == \A s \in Slots, t \in Slots : s # t /\ On(s, a) /\ On(t, a) => ~Clash(op[s], op[t])

\* An import has stored the credential in b and goes on to enter the row.
Stores(o, b) == o.kind = "import" /\ o.at = "upsert" /\ o.backend = b
Storing(a, b) == \E s \in Slots : On(s, a) /\ Stores(op[s], b)
Present(a) == row[a] # None \/ \E b \in Backends : Storing(a, b)

\* A migration has copied the credential to b, and has not moved the row.
Copies(o, b) == o.kind = "migrate" /\ o.at \in {"readback", "move", "undo"} /\ b = Other(o.backend)
Copying(a, b) == \E s \in Slots : On(s, a) /\ Copies(op[s], b)

\* A removal has deleted the credential, and has not deleted the row.
Deletes(o) == o.kind = "remove" /\ o.at = "row"
Deleting(a) == \E s \in Slots : On(s, a) /\ Deletes(op[s])

\* The steps of a projection that has read the credential, its last one included.
Reading == Projection \cup {"marker"}

\* What an operation finds as it left it.
FitsImport(o) == o.kind = "import" =>
  /\ o.row = o.backend
  /\ o.at = "upsert" => secret[o.backend][o.account] # None
FitsQuota(o) == o.kind = "quota" =>
  /\ row[o.account] # None
  /\ o.at \in {"usage", "meta"} => secret[o.row][o.account] # None
FitsProject(o) == o.kind \in Projects =>
  /\ o.cli => row[o.account] # None
  /\ o.at \in {"lock", "get"} => secret[o.backend][o.account] = None \/ Present(o.account)
  /\ o.at \in Reading => secret[o.backend][o.account] # None /\ Present(o.account)
FitsRemove(o) == o.kind = "remove" =>
  /\ row[o.account] \in {o.backend, None}
  /\ o.at \in {"secret", "row"} => ~home[o.account].dir
  /\ o.at = "row" => secret[o.backend][o.account] = None
FitsMigrate(o) == o.kind = "migrate" =>
  /\ row[o.account] = IF o.at = "drop" THEN Other(o.backend) ELSE o.backend
  /\ o.at = "move" => secret[Other(o.backend)][o.account] # None
Fits(o) == FitsImport(o) /\ FitsQuota(o) /\ FitsProject(o) /\ FitsRemove(o) /\ FitsMigrate(o)

\* A row has its credential, a credential its row, a projection its account; or who is to
\* see to that is under way.
RowKept(a) == row[a] # None => secret[row[a]][a] # None \/ Deleting(a)
SecretKept(a) == \A b \in Backends : secret[b][a] # None /\ row[a] # b =>
                   <<b, a>> \in stranded \/ Storing(a, b) \/ Copying(a, b)
HomeKept(a) == home[a].dir => Present(a)
Kept(a) == /\ Clear(a)
           /\ \A s \in Slots : On(s, a) => Fits(op[s])
           /\ RowKept(a) /\ SecretKept(a) /\ HomeKept(a)

KeptWhole == \A a \in Accounts \ disturbed : Kept(a)

\* An account that nobody works on is whole.
LEMMA KeptIsSettled == KeptWhole => SettledAccountsAreWhole
<1> SUFFICES ASSUME KeptWhole, NEW a \in Accounts \ disturbed, \A s \in Slots : op[s] # None => Acc(s) # a
             PROVE  IF row[a] # None THEN secret[row[a]][a] # None
                    ELSE /\ ~home[a].dir
                         /\ \A b \in Backends : secret[b][a] # None => <<b, a>> \in stranded
  BY DEF SettledAccountsAreWhole
<1>1. Kept(a) /\ \A s \in Slots : ~On(s, a)
  BY DEF KeptWhole, On
<1>2. ~Deleting(a) /\ \A b \in Backends : ~Storing(a, b) /\ ~Copying(a, b)
  BY <1>1 DEF Deleting, Storing, Copying
<1>3. None \notin Backends
  BY ConstantsOK
<1> QED
  BY <1>1, <1>2, <1>3 DEF Kept, RowKept, SecretKept, HomeKept, Present

\* Where a removal or a migration meets others, or anything of the command line meets a
\* removal, one of the two is not of the daemon's guarded operations.
LEMMA Company ==
  ASSUME Ranges, Locking, NEW a \in Accounts, Clear(a), NEW s \in Slots, On(s, a), NEW t \in Slots, On(t, a),
         s # t, op[s].kind \in {"remove", "migrate"}
  PROVE  /\ op[s].kind = "remove" /\ ~op[s].cli /\ op[s].backend = DaemonBackend
         /\ ~op[t].cli /\ op[t].kind \notin {"import", "quota", "migrate"} /\ op[t].backend = DaemonBackend
         /\ op[s].at \in Locked /\ op[t].kind \in Lockers => op[t].at \notin Locked
<1>1. ~Clash(op[s], op[t])
  BY DEF Clear
<1>2. Guarded(op[s]) /\ Guarded(op[t])
  BY <1>1 DEF Clash
<1>3. ~op[s].cli /\ ~op[t].cli /\ op[t].kind \notin {"import", "quota"}
  BY <1>2 DEF Guarded
<1>4. /\ op[s].backend = DaemonBackend /\ op[s].kind # "migrate"
      /\ op[t].backend = DaemonBackend /\ op[t].kind # "migrate"
      /\ op[s].kind \in Lockers /\ op[s].at \in Locked => lock[a] = s
      /\ op[t].kind \in Lockers /\ op[t].at \in Locked => lock[a] = t
  BY <1>3 DEF Locking, Discipline, On
<1> QED
  BY <1>3, <1>4 DEF Lockers

\* The operation in slot s becomes o, or returns.
Changes(s, o) == /\ op' = [op EXCEPT ![s] = o]
                 /\ o # None => Same(o, op[s])
Turns(s, o) == Changes(s, o) /\ (o # None => o.row = op[s].row)

\* Going on to another step is such a step,
LEMMA GotoTurns ==
  ASSUME OpRanges, NEW s \in Slots, op[s] # None, NEW step \in Steps, Goto(s, step)
  PROVE  \E o \in Operation : Turns(s, o) /\ o.at = step
<1> DEFINE o == [op[s] EXCEPT !.at = step]
<1>1. op[s] \in Operation
  BY DEF OpRanges
<1>2. o \in Operation /\ Same(o, op[s]) /\ o.at = step /\ o.row = op[s].row
  BY <1>1 DEF Operation, Same
<1>3. op' = [op EXCEPT ![s] = o]
  BY DEF Goto, OpRanges
<1> QED
  BY <1>2, <1>3 DEF Turns, Changes

\* and so is returning.
LEMMA ReturnTurns ==
  ASSUME NEW s \in Slots, Return(s)
  PROVE  Turns(s, None)
  BY DEF Return, Turns, Changes

\* After such a step the operations on the account of s are the same ones.
LEMMA TurnsOn ==
  ASSUME Ranges, NEW s \in Slots, op[s] # None, NEW o \in Operation \cup {None}, Changes(s, o),
         NEW a \in Accounts, NEW t \in Slots
  PROVE  /\ t # s => op'[t] = op[t] /\ (On(t, a)' <=> On(t, a))
         /\ t = s => op'[t] = o /\ (On(t, a)' <=> o # None /\ On(t, a))
  BY DEF Ranges, OpRanges, Turns, Changes, On, Acc, Same

\* What the five parts of Kept say of an account is not touched by others' work:
\* an account whose files are as before, but for its tokens, and whose operations are.
Untouched(a) == /\ row'[a] = row[a]
                /\ home'[a].dir => home[a].dir
                /\ \A b \in Backends : /\ secret'[b][a] = None <=> secret[b][a] = None
                                       /\ <<b, a>> \in stranded => <<b, a>> \in stranded'

\* Operations clash by what they are, not by how far they have come.
LEMMA ClashSame ==
  ASSUME NEW o, NEW p, NEW q, NEW r, Same(o, q), Same(p, r)
  PROVE  Clash(o, p) <=> Clash(q, r)
  BY DEF Same, Clash, Guarded

\* What an operation finds there stays.
LEMMA UntouchedFits ==
  ASSUME NEW o \in Operation, Fits(o), Untouched(o.account), Present(o.account) => Present(o.account)'
  PROVE  Fits(o)'
<1>1. o.account \in Accounts /\ o.backend \in Backends /\ o.row \in Backends /\ Other(o.backend) \in Backends
  BY DEF Operation, Other, Backends
<1>2. FitsImport(o)' /\ FitsQuota(o)'
  BY <1>1 DEF Fits, FitsImport, FitsQuota, Untouched
<1>3. FitsProject(o)'
  BY <1>1 DEF Fits, FitsProject, Untouched
<1>4. FitsRemove(o)' /\ FitsMigrate(o)'
  BY <1>1 DEF Fits, FitsRemove, FitsMigrate, Untouched
<1> QED
  BY <1>2, <1>3, <1>4 DEF Fits

\* A step of one operation that leaves what it has begun with the account as it is.
LEMMA ChangeKept ==
  ASSUME Ranges, NEW a \in Accounts, Kept(a), Untouched(a), NEW s \in Slots, op[s] # None,
         NEW o \in Operation \cup {None}, Changes(s, o),
         On(s, a) => /\ o # None => Fits(o) \/ Fits(o)'
                     /\ ~(op[s].kind = "import" /\ op[s].at = "upsert")
                     /\ ~(op[s].kind = "remove" /\ op[s].at = "row")
                     /\ \A b \in Backends : Copies(op[s], b) => o # None /\ Copies(o, b)
  PROVE  Kept(a)'
<1>1. \A t \in Slots : /\ t # s => op'[t] = op[t] /\ (On(t, a)' <=> On(t, a))
                       /\ t = s => op'[t] = o /\ (On(t, a)' <=> o # None /\ On(t, a))
  BY TurnsOn
<1>2. o # None => Same(o, op[s])
  BY DEF Turns, Changes
<1>3. \A b \in Backends : Storing(a, b) => Storing(a, b)'
  BY <1>1 DEF Storing, Stores
<1>4. \A b \in Backends : Copying(a, b) => Copying(a, b)'
  <2> SUFFICES ASSUME NEW b \in Backends, NEW t \in Slots, On(t, a), Copies(op[t], b)
               PROVE  Copying(a, b)'
    BY DEF Copying
  <2>1. On(t, a)' /\ (t = s => Copies(o, b) /\ op'[t] = o) /\ (t # s => op'[t] = op[t])
    BY <1>1
  <2>2. Copies(op'[t], b)
    BY <2>1
  <2> QED
    BY <2>1, <2>2 DEF Copying, Copies
<1>5. Deleting(a) => Deleting(a)'
  BY <1>1 DEF Deleting, Deletes
<1>6. Present(a) => Present(a)'
  BY <1>3 DEF Present, Untouched
<1>7. Clear(a)'
  <2> SUFFICES ASSUME NEW t \in Slots, NEW u \in Slots, t # u, On(t, a)', On(u, a)'
               PROVE  ~Clash(op'[t], op'[u])
    BY DEF Clear, Clash, Guarded
  <2>1. On(t, a) /\ On(u, a) /\ Same(op'[t], op[t]) /\ Same(op'[u], op[u])
    BY <1>1, <1>2 DEF Same
  <2> QED
    BY <2>1, ClashSame DEF Kept, Clear
<1>8. ASSUME NEW t \in Slots, On(t, a)'
      PROVE  Fits(op[t])'
  <2>1. PICK p \in Operation : p = op'[t] /\ (Fits(p) \/ Fits(p)') /\ p.account = a
    <3>1. CASE t = s
      BY <1>1, <1>8, <3>1 DEF On, Acc
    <3>2. CASE t # s
      BY <1>1, <1>8, <3>2 DEF On, Acc, Kept, Ranges, OpRanges
    <3> QED
      BY <3>1, <3>2
  <2>2. Fits(p)'
    BY <1>6, <2>1, UntouchedFits
  <2> QED
    BY <2>1, <2>2 DEF Fits, FitsImport, FitsQuota, FitsProject, FitsRemove, FitsMigrate
<1>9. RowKept(a)' /\ SecretKept(a)' /\ HomeKept(a)'
  <2>1. row[a] # None => row[a] \in Backends
    BY DEF Ranges, StoredRanges
  <2>2. RowKept(a)'
    BY <1>5, <2>1 DEF RowKept, Untouched, Kept
  <2>3. SecretKept(a)'
    BY <1>3, <1>4 DEF SecretKept, Untouched, Kept
  <2>4. HomeKept(a)'
    BY <1>6 DEF HomeKept, Untouched, Kept
  <2> QED
    BY <2>2, <2>3, <2>4
<1> QED
  BY <1>7, <1>8, <1>9 DEF Kept

\* The same for a step that keeps the copy of the row.
LEMMA QuietKept ==
  ASSUME Ranges, NEW a \in Accounts, Kept(a), Untouched(a), NEW s \in Slots, op[s] # None,
         NEW o \in Operation \cup {None}, Turns(s, o),
         On(s, a) => /\ o # None => Fits(o) \/ Fits(o)'
                     /\ ~(op[s].kind = "import" /\ op[s].at = "upsert")
                     /\ ~(op[s].kind = "remove" /\ op[s].at = "row")
                     /\ \A b \in Backends : Copies(op[s], b) => o # None /\ Copies(o, b)
  PROVE  Kept(a)'
  BY ChangeKept DEF Turns

\* An operation that goes on without a change of the files.
LEMMA QuietGoto ==
  ASSUME Ranges, NEW a \in Accounts, Kept(a), Untouched(a), NEW s \in Slots, On(s, a),
         op[s].at \notin {"upsert", "row", "readback", "move", "undo"},
         NEW step \in Steps, Goto(s, step),
         \A o \in Operation : Same(o, op[s]) /\ o.row = op[s].row /\ o.at = step => Fits(o) \/ Fits(o)'
  PROVE  Kept(a)'
<1>1. op[s] # None
  BY DEF On
<1>2. PICK o \in Operation : Turns(s, o) /\ o.at = step
  BY <1>1, GotoTurns DEF Ranges
<1>3. Fits(o) \/ Fits(o)'
  BY <1>2, ConstantsOK DEF Turns, Changes
<1>4. ~(op[s].kind = "import" /\ op[s].at = "upsert") /\ ~(op[s].kind = "remove" /\ op[s].at = "row")
  OBVIOUS
<1>5. \A b \in Backends : ~Copies(op[s], b)
  BY DEF Copies
<1> QED
  BY <1>1, <1>2, <1>3, <1>4, <1>5, QuietKept

\* An operation that returns without one.
LEMMA QuietReturn ==
  ASSUME Ranges, NEW a \in Accounts, Kept(a), Untouched(a), NEW s \in Slots, On(s, a),
         op[s].at \notin {"upsert", "readback", "move", "undo"}, op[s].kind = "remove" => op[s].at # "row",
         Return(s)
  PROVE  Kept(a)'
<1>1. op[s] # None /\ Turns(s, None)
  BY ReturnTurns DEF On
<1>2. \A b \in Backends : ~Copies(op[s], b)
  BY DEF Copies
<1> QED
  BY <1>1, <1>2, QuietKept

\* Nothing touches an account when the files and rows are as before.
LEMMA NothingTouched ==
  ASSUME NEW a, row' = row, home' = home, secret' = secret, stranded' = stranded
  PROVE  Untouched(a)
  BY DEF Untouched

\* The lock of a projection or removal is taken.
LEMMA LockKept ==
  ASSUME Ranges, Locking, NEW a \in Accounts, Kept(a), NEW s \in Slots, On(s, a), Lock(s)
  PROVE  Kept(a)'
<1>1. op[s] # None /\ op[s] \in Operation /\ Fits(op[s]) /\ a = op[s].account
  BY DEF On, Acc, Kept, Ranges, OpRanges
<1>2. Untouched(a) /\ op[s].at = "lock" /\ op[s].kind \in Lockers
  BY <1>1, NothingTouched DEF Lock, stored, files, history, Locking, Discipline
<1>3. CASE op[s].kind = "remove"
  <2>1. Goto(s, "home")
    BY <1>3 DEF Lock
  <2>2. ASSUME NEW o \in Operation, Same(o, op[s]), o.row = op[s].row, o.at = "home"
        PROVE  Fits(o)
    BY <1>1, <1>3, <2>2 DEF Fits, FitsImport, FitsQuota, FitsProject, FitsRemove, FitsMigrate, Same, Projects
  <2> QED
    BY <1>2, <2>1, <2>2, QuietGoto DEF Steps
<1>4. CASE op[s].kind \in Projects
  <2>1. Goto(s, "get")
    BY <1>4 DEF Lock, Projects
  <2>2. ASSUME NEW o \in Operation, Same(o, op[s]), o.row = op[s].row, o.at = "get"
        PROVE  Fits(o)
    BY <1>1, <1>2, <1>4, <2>2 DEF Fits, FitsImport, FitsQuota, FitsProject, FitsRemove, FitsMigrate,
                                  Same, Projects, Reading, Projection
  <2> QED
    BY <1>2, <2>1, <2>2, QuietGoto DEF Steps
<1> QED
  BY <1>2, <1>3, <1>4 DEF Lockers, Projects

\* The credential is read.
LEMMA GetKept ==
  ASSUME Ranges, NEW a \in Accounts, Kept(a), NEW s \in Slots, On(s, a), Get(s)
  PROVE  Kept(a)'
<1> DEFINE o == [op[s] EXCEPT !.at = IF op[s].kind = "quota" THEN "usage" ELSE "sync",
                              !.token = secret[op[s].backend][Acc(s)]]
<1>1. op[s] # None /\ op[s] \in Operation /\ Fits(op[s]) /\ a = op[s].account
  BY DEF On, Acc, Kept, Ranges, OpRanges
<1>2. Untouched(a) /\ op[s].at = "get" /\ op[s].kind \in {"project", "session", "quota"}
  BY NothingTouched DEF Get, At, stored, files, history
<1>3. op[s].row = op[s].backend /\ secret[op[s].backend][a] # None
  BY <1>1 DEF Get, Readable, Acc
<1>4. o \in Operation /\ Turns(s, o)
  <2>1. secret[op[s].backend][Acc(s)] \in Tokens
    BY <1>1, <1>3 DEF Ranges, FileRanges, Acc, Operation
  <2>2. o \in Operation /\ Same(o, op[s]) /\ o.row = op[s].row
    BY <1>1, <2>1 DEF Operation, Same, Steps
  <2>3. op' = [op EXCEPT ![s] = o]
    BY DEF Get, Ranges, OpRanges
  <2> QED
    BY <2>2, <2>3 DEF Turns, Changes
<1>5. /\ o.kind = op[s].kind /\ o.account = a /\ o.backend = op[s].backend /\ o.row = op[s].row
      /\ o.cli = op[s].cli /\ o.at = IF op[s].kind = "quota" THEN "usage" ELSE "sync"
  BY <1>1 DEF Operation
<1>6. Fits(o)
  <2> HIDE DEF o
  <2>1. CASE op[s].kind = "quota"
    BY <1>1, <1>3, <1>5, <2>1 DEF Fits, FitsImport, FitsQuota, FitsProject, FitsRemove, FitsMigrate, Projects
  <2>2. CASE op[s].kind \in Projects
    BY <1>1, <1>2, <1>3, <1>5, <2>2 DEF Fits, FitsImport, FitsQuota, FitsProject, FitsRemove, FitsMigrate,
                                        Projects, Reading, Projection
  <2> QED
    BY <1>2, <2>1, <2>2 DEF Projects
<1>7. ~(op[s].kind = "import" /\ op[s].at = "upsert") /\ ~(op[s].kind = "remove" /\ op[s].at = "row")
      /\ \A b \in Backends : ~Copies(op[s], b)
  BY <1>2 DEF Copies
<1> QED
  BY <1>1, <1>2, <1>4, <1>6, <1>7, QuietKept

\* What is known of an operation on such an account.
LEMMA OnFacts ==
  ASSUME Ranges, NEW a \in Accounts, Kept(a), NEW s \in Slots, On(s, a)
  PROVE  /\ op[s] # None /\ op[s] \in Operation /\ Fits(op[s]) /\ a = op[s].account /\ Acc(s) = a
         /\ op[s].backend \in Backends /\ Other(op[s].backend) \in Backends
         /\ Other(op[s].backend) # op[s].backend /\ op[s].row \in Backends
         /\ op[s].token \in Tokens /\ op[s].fresh \in Tokens /\ None \notin Tokens /\ None \notin Backends
<1>1. op[s] # None /\ op[s] \in Operation /\ Fits(op[s]) /\ a = op[s].account /\ Acc(s) = a
  BY DEF On, Acc, Kept, Ranges, OpRanges
<1>2. None \notin Tokens /\ None \notin Backends
  BY ConstantsOK DEF Tokens
<1> QED
  BY <1>1, <1>2 DEF Operation, Other, Backends

\* The projected file is compared with the credential, and the newer one stored.
LEMMA SyncKept ==
  ASSUME Ranges, NEW a \in Accounts, Kept(a), NEW s \in Slots, On(s, a), Sync(s) \/ SyncPut(s)
  PROVE  Kept(a)'
<1>1. op[s] # None /\ op[s] \in Operation /\ Fits(op[s]) /\ a = op[s].account
  BY OnFacts
<1>2. op[s].kind \in Projects /\ op[s].at \in {"sync", "put"}
  BY DEF Sync, SyncPut, At, Projects
<1>3. PICK o \in Operation : Turns(s, o) /\ o.at \in {"put", "dir"}
  <2>1. CASE Sync(s)
    <3> DEFINE p == home[a].auth
               o == IF p # None /\ Newer(p, op[s].token)
                      THEN [op[s] EXCEPT !.at = "put", !.fresh = p] ELSE [op[s] EXCEPT !.at = "dir"]
    <3>1. p # None => p \in Tokens
      BY DEF Ranges, FileRanges, Homes
    <3>2. o \in Operation /\ Same(o, op[s]) /\ o.row = op[s].row /\ o.at \in {"put", "dir"}
      BY <1>1, <3>1 DEF Operation, Same, Steps
    <3>3. op' = [op EXCEPT ![s] = o]
      BY <1>1, <2>1 DEF Sync, Ranges, OpRanges, Acc
    <3> QED
      BY <3>2, <3>3 DEF Turns, Changes
  <2>2. CASE SyncPut(s)
    <3>1. ASSUME op' = [op EXCEPT ![s].at = "dir", ![s].token = op[s].fresh]
          PROVE  \E o \in Operation : Turns(s, o) /\ o.at = "dir"
      <4> DEFINE o == [op[s] EXCEPT !.at = "dir", !.token = op[s].fresh]
      <4>1. o \in Operation /\ Same(o, op[s]) /\ o.row = op[s].row /\ o.at = "dir"
        BY <1>1 DEF Operation, Same, Steps
      <4>2. op' = [op EXCEPT ![s] = o]
        BY <3>1 DEF Ranges, OpRanges
      <4> QED
        BY <4>1, <4>2 DEF Turns, Changes
    <3>2. ASSUME op' = [op EXCEPT ![s].at = "dir", ![s].excused = TRUE]
          PROVE  \E o \in Operation : Turns(s, o) /\ o.at = "dir"
      <4> DEFINE o == [op[s] EXCEPT !.at = "dir", !.excused = TRUE]
      <4>1. o \in Operation /\ Same(o, op[s]) /\ o.row = op[s].row /\ o.at = "dir"
        BY <1>1 DEF Operation, Same, Steps
      <4>2. op' = [op EXCEPT ![s] = o]
        BY <3>2 DEF Ranges, OpRanges
      <4> QED
        BY <4>1, <4>2 DEF Turns, Changes
    <3> QED
      BY <2>2, <3>1, <3>2 DEF SyncPut
  <2> QED
    BY <2>1, <2>2
<1>4. Untouched(a)
  <2>1. CASE Sync(s)
    BY <2>1, NothingTouched DEF Sync, stored, files, history
  <2>2. CASE SyncPut(s)
    <3>1. op[s].at = "put" /\ secret[op[s].backend][a] # None /\ op[s].fresh # None
      BY <1>1, <1>2, <2>2, OnFacts DEF SyncPut, At, Fits, FitsProject, Reading, Projection
    <3> QED
      BY <1>1, <2>2, <3>1 DEF SyncPut, Untouched, stored, history, Acc, Ranges, FileRanges
  <2> QED
    BY <2>1, <2>2
<1>5. Fits(o)
  BY <1>1, <1>2, <1>3, ConstantsOK DEF Turns, Changes, Same, Fits, FitsImport, FitsQuota, FitsProject, FitsRemove,
     FitsMigrate, Projects, Reading, Projection
<1>6. ~(op[s].kind = "import" /\ op[s].at = "upsert") /\ ~(op[s].kind = "remove" /\ op[s].at = "row")
      /\ \A b \in Backends : ~Copies(op[s], b)
  BY <1>2 DEF Copies
<1> QED
  BY <1>1, <1>3, <1>4, <1>5, <1>6, QuietKept

\* The files are written; or the projection fails, or the session goes on.
LEMMA WriteKept ==
  ASSUME Ranges, NEW a \in Accounts, Kept(a), NEW s \in Slots, On(s, a),
         WriteAuth(s) \/ WriteMarker(s) \/ ProjectFails(s) \/ Create(s)
  PROVE  Kept(a)'
<1>1. op[s] # None /\ op[s] \in Operation /\ Fits(op[s]) /\ a = op[s].account
  BY OnFacts
<1>2. op[s].kind \in Projects /\ op[s].at \in {"get", "dir", "auth", "marker", "create"}
  BY DEF WriteAuth, WriteMarker, ProjectFails, Create, At, Projects
<1>3. Untouched(a)
  <2>1. CASE WriteAuth(s) \/ WriteMarker(s)
    BY <2>1 DEF WriteAuth, WriteMarker, Untouched, stored, history, Ranges, FileRanges, Homes
  <2>2. CASE ProjectFails(s) \/ Create(s)
    BY <2>2, NothingTouched DEF ProjectFails, Create, stored, files, history
  <2> QED
    BY <2>1, <2>2
<1>4. CASE Return(s)
  BY <1>2, <1>3, <1>4, QuietReturn DEF Projects
<1>5. ASSUME NEW step \in {"marker", "create", "check"}, Goto(s, step), step = "marker" => op[s].at = "auth"
      PROVE  Kept(a)'
  <2>1. ASSUME NEW o \in Operation, Same(o, op[s]), o.row = op[s].row, o.at = step
        PROVE  Fits(o)
    BY <1>1, <1>2, <1>5, <2>1 DEF Same, Fits, FitsImport, FitsQuota, FitsProject, FitsRemove,
     FitsMigrate, Projects, Reading, Projection
  <2> QED
    BY <1>2, <1>3, <1>5, <2>1, QuietGoto DEF Steps
<1> QED
  BY <1>4, <1>5 DEF WriteAuth, WriteMarker, ProjectFails, Create, At

\* What an operation finds is said of its last steps only in its own kind.
LEMMA PlainFits ==
  ASSUME NEW p \in Operation, Fits(p), NEW o \in Operation, Same(o, p), o.row = p.row,
         o.kind \in Projects => o.at \notin {"lock", "get"} \cup Reading,
         o.kind = "remove" => o.at \notin {"secret", "row"},
         o.kind = "import" => o.at # "upsert",
         o.kind = "quota" => (o.at = "meta" /\ p.at = "usage") \/ o.at \notin {"usage", "meta"},
         o.kind # "migrate"
  PROVE  Fits(o)
  BY DEF Same, Fits, FitsImport, FitsQuota, FitsProject, FitsRemove, FitsMigrate

\* A writer looks at the account, and names it or fails.
LEMMA WritingKept ==
  ASSUME Ranges, NEW a \in Accounts, Kept(a), NEW s \in Slots, On(s, a), Writing(s)
  PROVE  Kept(a)'
<1>1. op[s] # None /\ op[s] \in Operation /\ Fits(op[s]) /\ a = op[s].account
  BY OnFacts
<1>2. op[s].kind \in Writers /\ op[s].at \in {"check", "insert"} /\ Untouched(a)
  BY NothingTouched DEF Writing, Check, Insert, WriterFails, At, stored, files, history
<1>3. CASE Return(s)
  BY <1>2, <1>3, QuietReturn
<1>4. CASE Goto(s, "insert")
  <2>1. ASSUME NEW o \in Operation, Same(o, op[s]), o.row = op[s].row, o.at = "insert"
        PROVE  Fits(o)
    BY <1>1, <1>2, <2>1, PlainFits DEF Same, Writers, Reading, Projection
  <2> QED
    BY <1>2, <1>4, <2>1, QuietGoto DEF Steps
<1> QED
  BY <1>3, <1>4 DEF Writing, Check, Insert, WriterFails

\* The look of an import, its failures, and the calls of a quota refresh.
LEMMA LookKept ==
  ASSUME Ranges, NEW a \in Accounts \ disturbed', Kept(a), NEW s \in Slots, On(s, a),
         ImportLook(s) \/ ImportFails(s) \/ Usage(s) \/ QuotaFails(s)
  PROVE  Kept(a)'
<1>1. op[s] # None /\ op[s] \in Operation /\ Fits(op[s]) /\ a = op[s].account /\ Acc(s) = a
  BY OnFacts
<1>2. op[s].kind \in {"import", "quota"} /\ op[s].at \in {"store", "look", "get", "usage", "meta"}
  BY <1>1 DEF ImportLook, ImportFails, Usage, QuotaFails, At
<1>3. Untouched(a)
  BY NothingTouched DEF ImportLook, ImportFails, Usage, QuotaFails, stored, files, history
<1>4. CASE Return(s)
  BY <1>2, <1>3, <1>4, QuietReturn
<1>5. ASSUME NEW step \in {"check", "meta"}, Goto(s, step), step = "meta" => op[s].at = "usage" /\ op[s].kind = "quota"
      PROVE  Kept(a)'
  <2>1. ASSUME NEW o \in Operation, Same(o, op[s]), o.row = op[s].row, o.at = step
        PROVE  Fits(o)
    BY <1>1, <1>2, <1>5, <2>1, PlainFits DEF Same, Projects
  <2> QED
    BY <1>2, <1>3, <1>5, <2>1, QuietGoto DEF Steps
<1> QED
  BY <1>4, <1>5 DEF ImportLook, ImportFails, Usage, QuotaFails, At

\* The projection is removed, or a step of the removal fails.
LEMMA RemoveHomeKept ==
  ASSUME Ranges, NEW a \in Accounts \ disturbed', Kept(a), NEW s \in Slots, On(s, a),
         RemoveHome(s) \/ RemoveFails(s)
  PROVE  Kept(a)'
<1>1. op[s] # None /\ op[s] \in Operation /\ Fits(op[s]) /\ a = op[s].account /\ Acc(s) = a
  BY OnFacts
<1>2. op[s].kind = "remove" /\ op[s].at \in {"home", "secret"}
  BY <1>1 DEF RemoveHome, RemoveFails, At
<1>3. CASE RemoveHome(s)
  <2>1. Untouched(a) /\ ~home'[a].dir /\ row'[a] = row[a] /\ Goto(s, "secret")
    BY <1>1, <1>3 DEF RemoveHome, Untouched, stored, history, Ranges, FileRanges, NoHome
  <2>2. ASSUME NEW o \in Operation, Same(o, op[s]), o.row = op[s].row, o.at = "secret"
        PROVE  Fits(o)'
    BY <1>1, <1>2, <2>1, <2>2 DEF Same, Fits, FitsImport, FitsQuota, FitsProject, FitsRemove, FitsMigrate, Projects
  <2> QED
    BY <1>2, <2>1, <2>2, QuietGoto DEF Steps
<1>4. CASE RemoveFails(s)
  <2>1. Untouched(a) /\ Return(s)
    BY <1>4, NothingTouched DEF RemoveFails, stored, files
  <2> QED
    BY <1>2, <2>1, QuietReturn
<1> QED
  BY <1>3, <1>4

\* The reads of a migration, and its failures.
LEMMA MigrateReadKept ==
  ASSUME Ranges, NEW a \in Accounts \ disturbed', Kept(a), NEW s \in Slots, On(s, a),
         MigrateGet(s) \/ MigrateRead(s) \/ MigrateFails(s)
  PROVE  Kept(a)'
<1>1. op[s] # None /\ op[s] \in Operation /\ Fits(op[s]) /\ a = op[s].account /\ Acc(s) = a
  BY OnFacts
<1>2. op[s].kind = "migrate" /\ Untouched(a)
  BY NothingTouched DEF MigrateGet, MigrateRead, MigrateFails, At, stored, files, history
<1>3. CASE MigrateGet(s)
  <2> DEFINE o == [op[s] EXCEPT !.at = "target", !.token = secret[op[s].backend][Acc(s)]]
  <2>1. secret[op[s].backend][Acc(s)] \in Tokens
    BY <1>1, <1>3, OnFacts DEF MigrateGet, Readable, Ranges, FileRanges
  <2>2. o \in Operation /\ Turns(s, o) /\ o.at = "target" /\ o.kind = "migrate" /\ o.backend = op[s].backend
    <3>1. o \in Operation /\ Same(o, op[s]) /\ o.row = op[s].row /\ o.at = "target"
      BY <1>1, <2>1 DEF Operation, Same, Steps
    <3>2. op' = [op EXCEPT ![s] = o]
      BY <1>3 DEF MigrateGet, Ranges, OpRanges
    <3> QED
      BY <1>2, <3>1, <3>2 DEF Turns, Changes, Same
  <2>3. op[s].at = "source" /\ o.account = a
    BY <1>1, <1>3 DEF MigrateGet, At, Operation
  <2>4. Fits(o)
    <3> HIDE DEF o
    <3> QED
      BY <1>1, <1>2, <2>2, <2>3 DEF Fits, FitsImport, FitsQuota, FitsProject, FitsRemove, FitsMigrate, Projects
  <2> QED
    BY <1>1, <1>2, <2>2, <2>3, <2>4, QuietKept DEF Copies
<1>4. CASE MigrateRead(s)
  <2>1. /\ op[s].at = "readback"
        /\ \E step \in {"move", "undo"} : Goto(s, step) /\ (step = "move" => secret[Other(op[s].backend)][a] # None)
    BY <1>1, <1>4 DEF MigrateRead, At
  <2>2. PICK step \in {"move", "undo"} : Goto(s, step) /\ (step = "move" => secret[Other(op[s].backend)][a] # None)
    BY <2>1
  <2>3. PICK o \in Operation : Turns(s, o) /\ o.at = step
    BY <1>1, <2>2, GotoTurns DEF Steps, Ranges
  <2>4. o.kind = "migrate" /\ o.backend = op[s].backend /\ o.account = a
    BY <1>1, <1>2, <2>3, ConstantsOK DEF Turns, Changes, Same
  <2>5. Fits(o)
    BY <1>1, <1>2, <2>1, <2>2, <2>3, <2>4 DEF Fits, FitsImport, FitsQuota, FitsProject, FitsRemove,
         FitsMigrate, Projects
  <2>6. \A b \in Backends : Copies(op[s], b) => Copies(o, b)
    BY <1>2, <2>3, <2>4 DEF Copies
  <2>7. o # None
    BY ConstantsOK
  <2> QED
    BY <1>1, <1>2, <2>3, <2>5, <2>6, <2>7, QuietKept
<1>5. CASE MigrateFails(s)
  <2>1. Return(s) /\ op[s].at \in {"source", "target", "drop"}
    BY <1>5 DEF MigrateFails, At
  <2> QED
    BY <1>2, <2>1, QuietReturn
<1> QED
  BY <1>3, <1>4, <1>5

\* What others have begun with an account is as it was, and the operation's own work joins it.
LEMMA TurnsCarry ==
  ASSUME Ranges, NEW a \in Accounts, NEW s \in Slots, On(s, a),
         NEW o \in Operation \cup {None}, Turns(s, o)
  PROVE  /\ \A b \in Backends : Storing(a, b) => Storing(a, b)' \/ Stores(op[s], b)
         /\ \A b \in Backends : Copying(a, b) => Copying(a, b)' \/ Copies(op[s], b)
         /\ Deleting(a) => Deleting(a)' \/ Deletes(op[s])
         /\ o # None => /\ o.account = a /\ o.kind = op[s].kind /\ o.backend = op[s].backend /\ o.row = op[s].row
                        /\ \A b \in Backends : Stores(o, b) => Storing(a, b)'
                        /\ Deletes(o) => Deleting(a)'
                        /\ \A b \in Backends : Copies(o, b) => Copying(a, b)'
<1>1. \A t \in Slots : /\ t # s => op'[t] = op[t] /\ (On(t, a)' <=> On(t, a))
                       /\ t = s => op'[t] = o /\ (On(t, a)' <=> o # None)
  BY TurnsOn DEF On, Turns
<1>2. ASSUME NEW b \in Backends, Storing(a, b), ~Stores(op[s], b)
      PROVE  Storing(a, b)'
  <2>1. PICK t \in Slots : On(t, a) /\ Stores(op[t], b)
    BY <1>2 DEF Storing
  <2>2. On(t, a)' /\ op'[t] = op[t]
    BY <1>1, <1>2, <2>1
  <2> QED
    BY <2>1, <2>2 DEF Storing, Stores
<1>3. ASSUME NEW b \in Backends, Copying(a, b), ~Copies(op[s], b)
      PROVE  Copying(a, b)'
  <2>1. PICK t \in Slots : On(t, a) /\ Copies(op[t], b)
    BY <1>3 DEF Copying
  <2>2. On(t, a)' /\ op'[t] = op[t]
    BY <1>1, <1>3, <2>1
  <2> QED
    BY <2>1, <2>2 DEF Copying, Copies
<1>4. ASSUME Deleting(a), ~Deletes(op[s])
      PROVE  Deleting(a)'
  <2>1. PICK t \in Slots : On(t, a) /\ Deletes(op[t])
    BY <1>4 DEF Deleting
  <2>2. On(t, a)' /\ op'[t] = op[t]
    BY <1>1, <1>4, <2>1
  <2> QED
    BY <2>1, <2>2 DEF Deleting, Deletes
<1>5. ASSUME o # None
      PROVE  /\ o.account = a /\ o.kind = op[s].kind /\ o.backend = op[s].backend /\ o.row = op[s].row
             /\ \A b \in Backends : Stores(o, b) => Storing(a, b)'
             /\ Deletes(o) => Deleting(a)'
             /\ \A b \in Backends : Copies(o, b) => Copying(a, b)'
  <2>1. On(s, a)' /\ op'[s] = o
    BY <1>1, <1>5
  <2>2. o.account = a /\ o.kind = op[s].kind /\ o.backend = op[s].backend /\ o.row = op[s].row
    BY <1>5 DEF Turns, Changes, Same, On, Acc
  <2>3. ASSUME NEW b \in Backends, Copies(o, b)
        PROVE  Copying(a, b)'
    BY <2>1, <2>3 DEF Copying, Copies
  <2>4. ASSUME NEW b \in Backends, Stores(o, b)
        PROVE  Storing(a, b)'
    BY <2>1, <2>4 DEF Storing, Stores
  <2>5. Deletes(o) => Deleting(a)'
    BY <2>1 DEF Deleting, Deletes
  <2> QED
    BY <2>1, <2>2, <2>3, <2>4, <2>5
<1>6. \A b \in Backends : Storing(a, b) => Storing(a, b)' \/ Stores(op[s], b)
  BY <1>2
<1>7. \A b \in Backends : Copying(a, b) => Copying(a, b)' \/ Copies(op[s], b)
  BY <1>3
<1>8. Deleting(a) => Deleting(a)' \/ Deletes(op[s])
  BY <1>4
<1> QED
  BY <1>5, <1>6, <1>7, <1>8

\* A step of one operation that changes rows or files of its account.
LEMMA ChangedKept ==
  ASSUME Ranges, NEW a \in Accounts, Kept(a), NEW s \in Slots, On(s, a),
         NEW o \in Operation \cup {None}, Turns(s, o),
         o # None => Fits(o)',
         \A p \in Operation : (\E t \in Slots \ {s} : On(t, a) /\ p = op[t]) => Fits(p)',
         RowKept(a)', SecretKept(a)', HomeKept(a)'
  PROVE  Kept(a)'
<1>1. \A t \in Slots : /\ t # s => op'[t] = op[t] /\ (On(t, a)' <=> On(t, a))
                       /\ t = s => op'[t] = o /\ (On(t, a)' <=> o # None)
  BY TurnsOn DEF On, Turns
<1>2. o # None => Same(o, op[s])
  BY DEF Turns, Changes
<1>3. Clear(a)'
  <2> SUFFICES ASSUME NEW t \in Slots, NEW u \in Slots, t # u, On(t, a)', On(u, a)'
               PROVE  ~Clash(op'[t], op'[u])
    BY DEF Clear, Clash, Guarded
  <2>1. On(t, a) /\ On(u, a) /\ Same(op'[t], op[t]) /\ Same(op'[u], op[u])
    BY <1>1, <1>2 DEF Same
  <2> QED
    BY <2>1, ClashSame DEF Kept, Clear
<1>4. ASSUME NEW t \in Slots, On(t, a)'
      PROVE  Fits(op[t])'
  <2>1. PICK p \in Operation : p = op'[t] /\ Fits(p)'
    <3>1. CASE t = s
      BY <1>1, <1>4, <3>1
    <3>2. CASE t # s
      BY <1>1, <1>4, <3>2 DEF On, Ranges, OpRanges
    <3> QED
      BY <3>1, <3>2
  <2> QED
    BY <2>1 DEF Fits, FitsImport, FitsQuota, FitsProject, FitsRemove, FitsMigrate
<1> QED
  BY <1>3, <1>4 DEF Kept

\* Nobody else works on an account under migration.
LEMMA MigratesAlone ==
  ASSUME Ranges, Locking, NEW a \in Accounts, Kept(a), NEW s \in Slots, On(s, a), op[s].kind = "migrate",
         NEW t \in Slots, t # s
  PROVE  ~On(t, a)
  BY Company DEF Kept

\* A directory for the projection: no removal is between the projection and the row.
LEMMA MakeDirKept ==
  ASSUME Ranges, Locking, NEW a \in Accounts, Kept(a), NEW s \in Slots, On(s, a), MakeDir(s)
  PROVE  Kept(a)'
<1>1. op[s] # None /\ op[s] \in Operation /\ Fits(op[s]) /\ a = op[s].account /\ Acc(s) = a
  BY OnFacts
<1>2. /\ op[s].kind \in Projects /\ op[s].at = "dir" /\ Goto(s, "auth")
      /\ row' = row /\ secret' = secret /\ stranded' = stranded
  BY DEF MakeDir, At, Projects, stored, history
<1>3. PICK o \in Operation : Turns(s, o) /\ o.at = "auth"
  BY <1>1, <1>2, GotoTurns DEF Steps, Ranges
<1>4. o.account = a /\ o.kind = op[s].kind /\ o.backend = op[s].backend /\ o # None /\ o.cli = op[s].cli
  BY <1>1, <1>3, ConstantsOK DEF Turns, Changes, Same
<1>5. /\ \A b \in Backends : (Storing(a, b) => Storing(a, b)') /\ (Copying(a, b) => Copying(a, b)')
      /\ Deleting(a) => Deleting(a)'
  BY <1>2, <1>3, TurnsCarry DEF Projects, Copies, Stores, Deletes
<1>6. Present(a)' /\ secret[op[s].backend][a] # None
  <2>1. Present(a) /\ secret[op[s].backend][a] # None
    BY <1>1, <1>2 DEF Fits, FitsProject, Reading, Projection
  <2> QED
    BY <1>2, <1>5, <2>1 DEF Present
<1>7. Fits(o)'
  BY <1>1, <1>2, <1>3, <1>4, <1>6 DEF Fits, FitsImport, FitsQuota, FitsProject, FitsRemove, FitsMigrate, Projects
<1>8. ASSUME NEW p \in Operation, NEW t \in Slots \ {s}, On(t, a), p = op[t]
      PROVE  Fits(p)'
  <2>1. Fits(p) /\ p.account = a
    BY <1>8 DEF Kept, On, Acc
  <2>2. p.kind = "remove" => p.at \notin Locked
    BY <1>2, <1>8, Company DEF Kept, Lockers, Projects, Locked
  <2>3. FitsImport(p)' /\ FitsQuota(p)' /\ FitsMigrate(p)'
    BY <1>2, <2>1 DEF Fits, FitsImport, FitsQuota, FitsMigrate
  <2>4. FitsProject(p)'
    BY <1>2, <1>6, <2>1 DEF Fits, FitsProject
  <2>5. FitsRemove(p)'
    BY <1>2, <2>1, <2>2 DEF Fits, FitsRemove, Locked
  <2> QED
    BY <2>3, <2>4, <2>5 DEF Fits
<1>9. RowKept(a)' /\ SecretKept(a)' /\ HomeKept(a)'
  BY <1>2, <1>5, <1>6 DEF Kept, RowKept, SecretKept, HomeKept
<1> QED
  BY <1>3, <1>7, <1>8, <1>9, ChangedKept

\* Nobody imports an account, refreshes its quota or migrates it while it is removed.
LEMMA RemovalsCompany ==
  ASSUME Ranges, Locking, NEW a \in Accounts, Kept(a), NEW s \in Slots, On(s, a), op[s].kind = "remove",
         op[s].at \in Locked, NEW t \in Slots \ {s}, On(t, a), NEW p \in Operation, p = op[t]
  PROVE  /\ Fits(p) /\ p.account = a /\ ~p.cli /\ p.kind \notin {"import", "quota", "migrate"}
         /\ p.backend = op[s].backend
         /\ p.kind \in Projects => p.at \notin Reading
         /\ p.kind = "remove" => p.at \notin {"secret", "row"}
<1>1. Fits(p) /\ p.account = a
  BY DEF Kept, On, Acc
<1>2. /\ ~p.cli /\ p.kind \notin {"import", "quota", "migrate"} /\ p.backend = op[s].backend
      /\ p.kind \in Lockers => p.at \notin Locked
  BY Company DEF Kept
<1> QED
  BY <1>1, <1>2 DEF Lockers, Projects, Reading, Projection, Locked

\* The credential is deleted: projections find none.
LEMMA RemoveSecretKept ==
  ASSUME Ranges, Locking, NEW a \in Accounts, Kept(a), NEW s \in Slots, On(s, a), RemoveSecret(s)
  PROVE  Kept(a)'
<1>1. op[s] # None /\ op[s] \in Operation /\ Fits(op[s]) /\ a = op[s].account /\ Acc(s) = a /\ op[s].backend \in Backends
  BY OnFacts
<1>2. /\ op[s].kind = "remove" /\ op[s].at = "secret" /\ Goto(s, "row") /\ DeleteSecret(op[s].backend, a)
      /\ row' = row /\ home' = home
  BY <1>1 DEF RemoveSecret, At, stored
<1>3. PICK o \in Operation : Turns(s, o) /\ o.at = "row"
  BY <1>1, <1>2, GotoTurns DEF Steps, Ranges
<1>4. o.account = a /\ o.kind = "remove" /\ o.backend = op[s].backend /\ o # None
  BY <1>1, <1>2, <1>3, ConstantsOK DEF Turns, Changes, Same
<1>5. /\ \A b \in Backends : (Storing(a, b) => Storing(a, b)') /\ (Copying(a, b) => Copying(a, b)')
      /\ Deleting(a)'
  BY <1>2, <1>3, <1>4, TurnsCarry DEF Copies, Stores, Deletes
<1>6. /\ secret'[op[s].backend][a] = None
      /\ \A b \in Backends \ {op[s].backend} : /\ secret'[b][a] = secret[b][a]
                                               /\ <<b, a>> \in stranded => <<b, a>> \in stranded'
  BY <1>1, <1>2 DEF DeleteSecret, Ranges, FileRanges
<1>7. row[a] \in {op[s].backend, None} /\ ~home[a].dir
  BY <1>1, <1>2 DEF Fits, FitsRemove
<1>8. Fits(o)'
  BY <1>2, <1>3, <1>4, <1>6, <1>7 DEF Fits, FitsImport, FitsQuota, FitsProject, FitsRemove, FitsMigrate, Projects
<1>9. ASSUME NEW p \in Operation, NEW t \in Slots \ {s}, On(t, a), p = op[t]
      PROVE  Fits(p)'
  <2>1. /\ Fits(p) /\ p.account = a /\ ~p.cli /\ p.kind \notin {"import", "quota", "migrate"}
        /\ p.backend = op[s].backend
        /\ p.kind \in Projects => p.at \notin Reading
        /\ p.kind = "remove" => p.at \notin {"secret", "row"}
    BY <1>2, <1>9, RemovalsCompany DEF Locked
  <2> QED
    BY <1>2, <1>6, <2>1 DEF Fits, FitsImport, FitsQuota, FitsProject, FitsRemove, FitsMigrate
<1>10. RowKept(a)' /\ SecretKept(a)' /\ HomeKept(a)'
  BY <1>2, <1>5, <1>6, <1>7 DEF Kept, RowKept, SecretKept, HomeKept
<1> QED
  BY <1>3, <1>8, <1>9, <1>10, ChangedKept

\* The row is deleted, the last of the three.
LEMMA RemoveRowKept ==
  ASSUME Ranges, Locking, NEW a \in Accounts, Kept(a), NEW s \in Slots, On(s, a), RemoveRow(s)
  PROVE  Kept(a)'
<1>1. op[s] # None /\ op[s] \in Operation /\ Fits(op[s]) /\ a = op[s].account /\ Acc(s) = a /\ None \notin Backends
  BY OnFacts
<1>2. /\ op[s].kind = "remove" /\ op[s].at = "row" /\ Return(s) /\ row'[a] = None
      /\ secret' = secret /\ home' = home /\ stranded' = stranded
  BY <1>1 DEF RemoveRow, DeleteAccount, At, files, Ranges, StoredRanges
<1>3. Turns(s, None)
  BY <1>2, ReturnTurns
<1>4. \A b \in Backends : (Storing(a, b) => Storing(a, b)') /\ (Copying(a, b) => Copying(a, b)')
  BY <1>2, <1>3, TurnsCarry DEF Copies, Stores
<1>5. row[a] \in {op[s].backend, None} /\ ~home[a].dir /\ secret[op[s].backend][a] = None
  BY <1>1, <1>2 DEF Fits, FitsRemove
<1>6. ASSUME NEW p \in Operation, NEW t \in Slots \ {s}, On(t, a), p = op[t]
      PROVE  Fits(p)'
  <2>1. /\ Fits(p) /\ p.account = a /\ ~p.cli /\ p.kind \notin {"import", "quota", "migrate"}
        /\ p.backend = op[s].backend
        /\ p.kind \in Projects => p.at \notin Reading
        /\ p.kind = "remove" => p.at \notin {"secret", "row"}
    BY <1>2, <1>6, RemovalsCompany DEF Locked
  <2> QED
    BY <1>2, <1>5, <2>1 DEF Fits, FitsImport, FitsQuota, FitsProject, FitsRemove, FitsMigrate
<1>7. RowKept(a)' /\ SecretKept(a)' /\ HomeKept(a)'
  BY <1>1, <1>2, <1>4, <1>5 DEF Kept, RowKept, SecretKept, HomeKept
<1> QED
  BY <1>3, <1>6, <1>7, ChangedKept

\* No removal or migration meets an import or a quota refresh.
LEMMA ImportsCompany ==
  ASSUME Ranges, Locking, NEW a \in Accounts, Kept(a), NEW s \in Slots, On(s, a),
         op[s].kind \in {"import", "quota"}, NEW t \in Slots \ {s}, On(t, a), NEW p \in Operation, p = op[t]
  PROVE  Fits(p) /\ p.account = a /\ p.kind \notin {"remove", "migrate"}
<1>1. Fits(p) /\ p.account = a
  BY DEF Kept, On, Acc
<1>2. p.kind \notin {"remove", "migrate"}
  BY Company DEF Kept
<1> QED
  BY <1>1, <1>2

\* An import stores the credential, and is to enter the row.
LEMMA ImportStoreKept ==
  ASSUME Ranges, Locking, NEW a \in Accounts, Kept(a), NEW s \in Slots, On(s, a), ImportStore(s)
  PROVE  Kept(a)'
<1>1. /\ op[s] # None /\ op[s] \in Operation /\ Fits(op[s]) /\ a = op[s].account /\ Acc(s) = a
      /\ op[s].backend \in Backends /\ op[s].token # None
  BY OnFacts
<1>2. /\ op[s].kind = "import" /\ op[s].at = "store" /\ Goto(s, "upsert")
      /\ row' = row /\ home' = home
  BY <1>1 DEF ImportStore, At, stored
<1>3. PICK o \in Operation : Turns(s, o) /\ o.at = "upsert"
  BY <1>1, <1>2, GotoTurns DEF Steps, Ranges
<1>4. o.account = a /\ o.kind = "import" /\ o.backend = op[s].backend /\ o.row = op[s].row /\ o # None
  BY <1>1, <1>2, <1>3, ConstantsOK DEF Turns, Changes, Same
<1> PICK c \in Backends : c = op[s].backend
  BY <1>1
<1>5. /\ \A b \in Backends : (Storing(a, b) => Storing(a, b)') /\ (Copying(a, b) => Copying(a, b)')
      /\ Deleting(a) => Deleting(a)'
      /\ Storing(a, c)'
  <2>1. Stores(o, c) /\ \A b \in Backends : ~Stores(op[s], b) /\ ~Copies(op[s], b)
    BY <1>2, <1>3, <1>4 DEF Stores, Copies
  <2>2. ~Deletes(op[s])
    BY <1>2 DEF Deletes
  <2> QED
    BY <1>3, <1>4, <2>1, <2>2, TurnsCarry
<1>6. /\ secret'[c][a] # None
      /\ \A b \in Backends \ {c} : /\ secret'[b][a] = secret[b][a]
                                   /\ <<b, a>> \in stranded => <<b, a>> \in stranded'
  BY <1>1 DEF ImportStore, Ranges, FileRanges
<1>7. Present(a)'
  BY <1>1, <1>5 DEF Present
<1>8. Fits(o)'
  BY <1>1, <1>2, <1>3, <1>4, <1>6 DEF Fits, FitsImport, FitsQuota, FitsProject, FitsRemove, FitsMigrate, Projects
<1>9. ASSUME NEW p \in Operation, NEW t \in Slots \ {s}, On(t, a), p = op[t]
      PROVE  Fits(p)'
  <2>1. Fits(p) /\ p.account = a /\ p.kind \notin {"remove", "migrate"} /\ p.backend \in Backends /\ p.row \in Backends
    BY <1>2, <1>9, ImportsCompany DEF Operation
  <2>2. FitsImport(p)' /\ FitsQuota(p)'
    BY <1>2, <1>6, <2>1 DEF Fits, FitsImport, FitsQuota
  <2>3. FitsProject(p)'
    BY <1>2, <1>6, <1>7, <2>1 DEF Fits, FitsProject
  <2> QED
    BY <2>1, <2>2, <2>3 DEF Fits, FitsRemove, FitsMigrate
<1>10. RowKept(a)' /\ SecretKept(a)' /\ HomeKept(a)'
  <2>1. row[a] # None => row[a] \in Backends
    BY DEF Ranges, StoredRanges
  <2> QED
    BY <1>2, <1>5, <1>6, <1>7, <2>1 DEF Kept, RowKept, SecretKept, HomeKept
<1> QED
  BY <1>3, <1>8, <1>9, <1>10, ChangedKept

\* A row is entered, or written back, over a credential that is there.
LEMMA UpsertKept ==
  ASSUME Ranges, Locking, NEW a \in Accounts, Kept(a), NEW s \in Slots, On(s, a),
         ImportUpsert(s) \/ QuotaUpsert(s)
  PROVE  Kept(a)'
<1>1. /\ op[s] # None /\ op[s] \in Operation /\ Fits(op[s]) /\ a = op[s].account /\ Acc(s) = a
      /\ op[s].row \in Backends /\ None \notin Backends
  BY OnFacts
<1>2. /\ op[s].kind \in {"import", "quota"} /\ op[s].at \in {"upsert", "meta"} /\ Upsert(a, op[s].row)
      /\ op[s].kind = "import" => op[s].at = "upsert"
      /\ op[s].kind = "quota" => op[s].at = "meta"
      /\ secret' = secret /\ home' = home
  BY <1>1 DEF ImportUpsert, QuotaUpsert, At, files
<1> PICK r \in Backends : r = op[s].row
  BY <1>1
<1>3. secret[r][a] # None /\ (op[s].kind = "import" => op[s].backend = r)
  BY <1>1, <1>2 DEF Fits, FitsImport, FitsQuota
<1>4. PICK o \in Operation \cup {None} : Turns(s, o) /\ (o # None => o.at \in {"look", "check"})
  <2>1. CASE Return(s)
    BY <2>1, ReturnTurns
  <2>2. ASSUME NEW step \in {"look", "check"}, Goto(s, step)
        PROVE  \E o \in Operation : Turns(s, o) /\ o.at = step
    BY <1>1, <2>2, GotoTurns DEF Steps, Ranges
  <2> QED
    BY <2>1, <2>2 DEF ImportUpsert, QuotaUpsert
<1>5. o # None => o.kind = op[s].kind /\ o.backend = op[s].backend /\ o.row = op[s].row /\ o.account = a
  BY <1>4, TurnsCarry
<1>6. /\ row'[a] = r
      /\ \A b \in Backends : (<<b, a>> \in stranded \/ (row[a] = b /\ b # r)) => <<b, a>> \in stranded'
  BY <1>1, <1>2 DEF Upsert, Ranges, StoredRanges
<1>7. \A b \in Backends \ {r} : (Storing(a, b) => Storing(a, b)') /\ (Copying(a, b) => Copying(a, b)')
  <2>1. \A b \in Backends \ {r} : ~Stores(op[s], b) /\ ~Copies(op[s], b)
    BY <1>2, <1>3 DEF Stores, Copies
  <2> QED
    BY <1>4, <2>1, TurnsCarry
<1>8. Present(a)'
  BY <1>1, <1>6 DEF Present
<1>9. o # None => Fits(o)'
  BY <1>1, <1>2, <1>3, <1>4, <1>5, <1>6 DEF Fits, FitsImport, FitsQuota, FitsProject, FitsRemove, FitsMigrate,
       Projects
<1>10. ASSUME NEW p \in Operation, NEW t \in Slots \ {s}, On(t, a), p = op[t]
       PROVE  Fits(p)'
  <2>1. Fits(p) /\ p.account = a /\ p.kind \notin {"remove", "migrate"}
    BY <1>2, <1>10, ImportsCompany
  <2>2. FitsImport(p)' /\ FitsQuota(p)'
    BY <1>1, <1>2, <1>6, <2>1 DEF Fits, FitsImport, FitsQuota
  <2>3. FitsProject(p)'
    BY <1>1, <1>2, <1>6, <1>8, <2>1 DEF Fits, FitsProject
  <2> QED
    BY <2>1, <2>2, <2>3 DEF Fits, FitsRemove, FitsMigrate
<1>11. RowKept(a)' /\ SecretKept(a)' /\ HomeKept(a)'
  <2>1. RowKept(a)' /\ HomeKept(a)'
    BY <1>2, <1>3, <1>6, <1>8 DEF RowKept, HomeKept
  <2>2. SecretKept(a)'
    BY <1>2, <1>6, <1>7 DEF Kept, SecretKept
  <2> QED
    BY <2>1, <2>2
<1> QED
  BY <1>4, <1>9, <1>10, <1>11, ChangedKept

\* A migration copies the credential.
LEMMA MigratePutKept ==
  ASSUME Ranges, Locking, NEW a \in Accounts, Kept(a), NEW s \in Slots, On(s, a), MigratePut(s)
  PROVE  Kept(a)'
<1>1. /\ op[s] # None /\ op[s] \in Operation /\ Fits(op[s]) /\ a = op[s].account /\ Acc(s) = a
      /\ op[s].token # None
  BY OnFacts
<1> PICK c \in Backends : c = Other(op[s].backend)
  BY OnFacts
<1>2. /\ op[s].kind = "migrate" /\ op[s].at = "target" /\ Goto(s, "readback")
      /\ row' = row /\ home' = home
  BY <1>1 DEF MigratePut, At, stored
<1>3. PICK o \in Operation : Turns(s, o) /\ o.at = "readback"
  BY <1>1, <1>2, GotoTurns DEF Steps, Ranges
<1>4. o.account = a /\ o.kind = "migrate" /\ o.backend = op[s].backend
  BY <1>1, <1>2, <1>3, ConstantsOK DEF Turns, Changes, Same
<1>5. /\ \A b \in Backends : (Storing(a, b) => Storing(a, b)') /\ (Copying(a, b) => Copying(a, b)')
      /\ Deleting(a) => Deleting(a)'
      /\ Copying(a, c)'
  <2>1. Copies(o, c) /\ \A b \in Backends : ~Stores(op[s], b) /\ ~Copies(op[s], b)
    BY <1>2, <1>3, <1>4 DEF Stores, Copies
  <2>2. ~Deletes(op[s]) /\ o # None
    BY <1>2, ConstantsOK DEF Deletes
  <2> QED
    BY <1>3, <2>1, <2>2, TurnsCarry
<1>6. /\ secret'[c][a] # None
      /\ \A b \in Backends \ {c} : /\ secret'[b][a] = secret[b][a]
                                   /\ <<b, a>> \in stranded => <<b, a>> \in stranded'
  BY <1>1 DEF MigratePut, Ranges, FileRanges
<1>7. Fits(o)'
  BY <1>1, <1>2, <1>3, <1>4 DEF Fits, FitsImport, FitsQuota, FitsProject, FitsRemove, FitsMigrate, Projects
<1>8. \A t \in Slots \ {s} : ~On(t, a)
  BY <1>2, MigratesAlone
<1>9. RowKept(a)' /\ SecretKept(a)' /\ HomeKept(a)'
  <2>1. row[a] # None => row[a] \in Backends
    BY DEF Ranges, StoredRanges
  <2>2. Present(a) => Present(a)'
    BY <1>2, <1>5 DEF Present
  <2> QED
    BY <1>2, <1>5, <1>6, <2>1, <2>2 DEF Kept, RowKept, SecretKept, HomeKept
<1> QED
  BY <1>3, <1>7, <1>8, <1>9, ChangedKept

\* The row is moved to the copy, or the copy is to be deleted again.
LEMMA MigrateMoveKept ==
  ASSUME Ranges, Locking, NEW a \in Accounts \ disturbed', Kept(a), NEW s \in Slots, On(s, a), MigrateMove(s)
  PROVE  Kept(a)'
<1>1. /\ op[s] # None /\ op[s] \in Operation /\ Fits(op[s]) /\ a = op[s].account /\ Acc(s) = a
      /\ op[s].backend \in Backends /\ None \notin Backends
      /\ Other(op[s].backend) # op[s].backend
  BY OnFacts
<1> PICK c \in Backends : c = Other(op[s].backend)
  BY OnFacts
<1>2. /\ op[s].kind = "migrate" /\ op[s].at = "move" /\ secret' = secret /\ home' = home
      /\ row[a] = op[s].backend /\ secret[c][a] # None
  BY <1>1 DEF MigrateMove, At, files, Fits, FitsMigrate
<1>3. CASE Upsert(a, c) /\ ((op[s].drop /\ Goto(s, "drop")) \/ Return(s))
  <2>1. PICK o \in Operation \cup {None} : Turns(s, o) /\ (o # None => o.at = "drop")
    <3>1. CASE Return(s)
      BY <3>1, ReturnTurns
    <3>2. CASE Goto(s, "drop")
      BY <1>1, <3>2, GotoTurns DEF Steps, Ranges
    <3> QED
      BY <1>3, <3>1, <3>2
  <2>2. o # None => o.kind = "migrate" /\ o.backend = op[s].backend /\ o.account = a
    BY <1>2, <2>1, TurnsCarry
  <2>3. row'[a] = c /\ \A b \in Backends \ {c} : <<b, a>> \in stranded'
    BY <1>1, <1>2, <1>3 DEF Upsert, Ranges, StoredRanges, Other, Backends
  <2>4. o # None => Fits(o)'
    BY <1>1, <1>2, <2>1, <2>2, <2>3 DEF Fits, FitsImport, FitsQuota, FitsProject, FitsRemove, FitsMigrate, Projects
  <2>5. \A t \in Slots \ {s} : ~On(t, a)
    BY <1>2, MigratesAlone
  <2>6. RowKept(a)' /\ SecretKept(a)' /\ HomeKept(a)'
    BY <1>1, <1>2, <2>3 DEF RowKept, SecretKept, HomeKept, Present
  <2> QED
    BY <2>1, <2>4, <2>5, <2>6, ChangedKept
<1>4. CASE Goto(s, "undo") /\ row' = row /\ stranded' = stranded
  <2>1. PICK o \in Operation : Turns(s, o) /\ o.at = "undo"
    BY <1>1, <1>4, GotoTurns DEF Steps, Ranges
  <2>2. o.account = a /\ o.kind = "migrate" /\ o.backend = op[s].backend
    BY <1>1, <1>2, <2>1, ConstantsOK DEF Turns, Changes, Same
  <2>3. Fits(o) /\ \A b \in Backends : Copies(op[s], b) => Copies(o, b)
    BY <1>2, <2>1, <2>2 DEF Fits, FitsImport, FitsQuota, FitsProject, FitsRemove, FitsMigrate, Projects, Copies
  <2>4. Untouched(a)
    BY <1>2, <1>4, NothingTouched
  <2>5. o # None
    BY ConstantsOK
  <2> QED
    BY <1>1, <1>2, <2>1, <2>3, <2>4, <2>5, QuietKept
<1>5. ~(disturbed' = disturbed \cup {a})
  OBVIOUS
<1> QED
  BY <1>1, <1>3, <1>4, <1>5 DEF MigrateMove

\* The copy, or the source of a move, is deleted.
LEMMA MigrateDeleteKept ==
  ASSUME Ranges, Locking, NEW a \in Accounts \ disturbed', Kept(a), NEW s \in Slots, On(s, a),
         MigrateUndo(s) \/ MigrateDrop(s)
  PROVE  Kept(a)'
<1>1. /\ op[s] # None /\ op[s] \in Operation /\ Fits(op[s]) /\ a = op[s].account /\ Acc(s) = a
      /\ op[s].backend \in Backends /\ None \notin Backends
      /\ Other(op[s].backend) # op[s].backend
  BY OnFacts
<1>2. PICK c \in Backends : DeleteSecret(c, a) /\ row[a] = Other(c)
  <2>1. CASE MigrateUndo(s)
    <3>1. DeleteSecret(Other(op[s].backend), a) /\ row[a] = op[s].backend
      BY <1>1, <2>1 DEF MigrateUndo, At, Fits, FitsMigrate
    <3> QED
      BY <1>1, <3>1, OnFacts DEF Other, Backends
  <2>2. CASE MigrateDrop(s)
    BY <1>1, <2>2 DEF MigrateDrop, At, Fits, FitsMigrate
  <2> QED
    BY <2>1, <2>2
<1>3. op[s].kind = "migrate" /\ Return(s) /\ row' = row /\ home' = home
  BY DEF MigrateUndo, MigrateDrop, At, stored
<1>4. Turns(s, None)
  BY <1>3, ReturnTurns
<1>5. Deleting(a) => Deleting(a)'
  BY <1>3, <1>4, TurnsCarry DEF Deletes
<1>6. secret'[c][a] = None /\ \A b \in Backends \ {c} : secret'[b][a] = secret[b][a]
  BY <1>2 DEF DeleteSecret, Ranges, FileRanges
<1>7. \A t \in Slots \ {s} : ~On(t, a)
  BY <1>3, MigratesAlone
<1>8. RowKept(a)' /\ SecretKept(a)' /\ HomeKept(a)'
  <2>1. row[a] \in Backends /\ row[a] # c /\ \A b \in Backends : b # c => b = row[a]
    BY <1>2 DEF Other, Backends
  <2> QED
    BY <1>1, <1>3, <1>5, <1>6, <2>1 DEF Kept, RowKept, SecretKept, HomeKept, Present
<1> QED
  BY <1>4, <1>7, <1>8, ChangedKept
-----------------------------------------------------------------------------
(* Who works on one account leaves the others alone, and so do the rest.      *)

Working(s) == Lock(s) \/ Projecting(s) \/ Writing(s) \/ Removing(s) \/ Importing(s) \/ Refreshing(s)
                \/ Migrating(s)

\* Such a step changes one operation.
LEMMA WorkingChanges ==
  ASSUME Ranges, NEW s \in Slots, Working(s)
  PROVE  op[s] # None /\ \E o \in Operation \cup {None} : Changes(s, o)
<1>1. op[s] # None
  <2>1. CASE Lock(s) \/ Projecting(s)
    BY <2>1 DEF Lock, Projecting, Get, Sync, SyncPut, MakeDir, WriteAuth, WriteMarker, ProjectFails,
                Create, At
  <2>2. CASE Writing(s) \/ Removing(s)
    BY <2>2 DEF Writing, Check, Insert, WriterFails, Removing, RemoveHome, RemoveSecret, RemoveRow,
                RemoveFails, At
  <2>3. CASE Importing(s) \/ Refreshing(s)
    BY <2>3 DEF Importing, ImportStore, ImportUpsert, ImportLook, ImportFails, Refreshing, Usage,
                QuotaUpsert, QuotaFails, At
  <2>4. CASE Migrating(s)
    BY <2>4 DEF Migrating, MigrateGet, MigratePut, MigrateRead, MigrateMove, MigrateUndo, MigrateDrop,
                MigrateFails, At
  <2> QED
    BY <2>1, <2>2, <2>3, <2>4 DEF Working
<1>2. Moves(s)
  BY LockLocks, ProjectingMoves, WritingMoves, RemovingMoves, ImportingMoves, RefreshingMoves,
     MigratingMoves DEF Working, Moves
<1>3. op[s] \in Operation /\ op = [op EXCEPT ![s] = op[s]] /\ Same(op[s], op[s])
  BY <1>1 DEF Ranges, OpRanges, Same
<1>4. CASE Idles
  <2>1. op' = [op EXCEPT ![s] = op[s]]
    BY <1>3, <1>4 DEF Idles
  <2>2. PICK o \in Operation : o = op[s]
    BY <1>3
  <2>3. Changes(s, o)
    BY <1>3, <2>1, <2>2 DEF Changes
  <2> QED
    BY <1>1, <2>3
<1>5. CASE Proceeds(s)
  BY <1>5 DEF Proceeds, Changes
<1>6. CASE Locks(s)
  BY <1>6 DEF Locks, Changes
<1>7. CASE Leaves(s)
  BY <1>7 DEF Leaves, Changes
<1> QED
  BY <1>1, <1>2, <1>4, <1>5, <1>6, <1>7 DEF Moves, Starts

\* The files and rows of the other accounts stay.
LEMMA WorkingApart ==
  ASSUME Ranges, NEW s \in Slots, Working(s), NEW a \in Accounts, a # Acc(s)
  PROVE  Untouched(a)
<1> USE DEF Untouched, Ranges, StoredRanges, FileRanges
<1>1. CASE Lock(s)
  BY <1>1 DEF Lock, stored, files, history
<1>2. CASE Projecting(s)
  <2>1. CASE Get(s) \/ Sync(s) \/ ProjectFails(s) \/ Create(s)
    BY <2>1 DEF Get, Sync, ProjectFails, Create, stored, files, history
  <2>2. CASE SyncPut(s)
    BY <2>2 DEF SyncPut, stored, history
  <2>3. CASE MakeDir(s) \/ WriteAuth(s) \/ WriteMarker(s)
    BY <2>3 DEF MakeDir, WriteAuth, WriteMarker, stored, history
  <2> QED
    BY <1>2, <2>1, <2>2, <2>3 DEF Projecting
<1>3. CASE Writing(s)
  BY <1>3 DEF Writing, Check, Insert, WriterFails, stored, files, history
<1>4. CASE Removing(s)
  <2>1. CASE RemoveHome(s)
    BY <2>1 DEF RemoveHome, stored, history
  <2>2. CASE RemoveSecret(s)
    BY <2>2 DEF RemoveSecret, DeleteSecret, stored
  <2>3. CASE RemoveRow(s) \/ RemoveFails(s)
    BY <2>3 DEF RemoveRow, DeleteAccount, RemoveFails, stored, files
  <2> QED
    BY <1>4, <2>1, <2>2, <2>3 DEF Removing
<1>5. CASE Importing(s) \/ Refreshing(s)
  <2>1. CASE ImportStore(s)
    BY <2>1 DEF ImportStore, stored
  <2>2. CASE ImportUpsert(s) \/ QuotaUpsert(s)
    BY <2>2 DEF ImportUpsert, QuotaUpsert, Upsert, files
  <2>3. CASE ImportLook(s) \/ ImportFails(s) \/ Usage(s) \/ QuotaFails(s)
    BY <2>3 DEF ImportLook, ImportFails, Usage, QuotaFails, stored, files, history
  <2> QED
    BY <1>5, <2>1, <2>2, <2>3 DEF Importing, Refreshing
<1>6. CASE Migrating(s)
  <2>1. CASE MigrateGet(s) \/ MigrateRead(s) \/ MigrateFails(s)
    BY <2>1 DEF MigrateGet, MigrateRead, MigrateFails, stored, files, history
  <2>2. CASE MigratePut(s)
    BY <2>2 DEF MigratePut, stored
  <2>3. CASE MigrateMove(s)
    BY <2>3 DEF MigrateMove, Upsert, files
  <2>4. CASE MigrateUndo(s) \/ MigrateDrop(s)
    BY <2>4 DEF MigrateUndo, MigrateDrop, DeleteSecret, stored
  <2> QED
    BY <1>6, <2>1, <2>2, <2>3, <2>4 DEF Migrating
<1> QED
  BY <1>1, <1>2, <1>3, <1>4, <1>5, <1>6 DEF Working

\* What is said of an account is kept by who works on it and by who works on others.
LEMMA WorkingKept ==
  ASSUME Ranges, Locking, NEW s \in Slots, Working(s), NEW a \in Accounts \ disturbed', Kept(a)
  PROVE  Kept(a)'
<1>1. op[s] # None /\ \E o \in Operation \cup {None} : Changes(s, o)
  BY WorkingChanges
<1>2. CASE On(s, a)
  <2>1. CASE Lock(s) \/ Projecting(s)
    BY <1>2, <2>1, LockKept, GetKept, SyncKept, WriteKept, MakeDirKept DEF Projecting
  <2>2. CASE Writing(s)
    BY <1>2, <2>2, WritingKept
  <2>3. CASE Removing(s)
    BY <1>2, <2>3, RemoveHomeKept, RemoveSecretKept, RemoveRowKept DEF Removing
  <2>4. CASE Importing(s) \/ Refreshing(s)
    BY <1>2, <2>4, ImportStoreKept, UpsertKept, LookKept DEF Importing, Refreshing
  <2>5. CASE Migrating(s)
    BY <1>2, <2>5, MigrateReadKept, MigratePutKept, MigrateMoveKept, MigrateDeleteKept DEF Migrating
  <2> QED
    BY <2>1, <2>2, <2>3, <2>4, <2>5 DEF Working
<1>3. CASE ~On(s, a)
  <2>1. Untouched(a)
    BY <1>1, <1>3, WorkingApart DEF On
  <2> QED
    BY <1>1, <1>3, <2>1, ChangeKept
<1> QED
  BY <1>2, <1>3

\* An operation begins on an account where it disturbs nobody.
LEMMA BeginKept ==
  ASSUME Ranges, NEW s \in Slots, NEW o \in Operation, Begin(s, o), Fits(o),
         NEW a \in Accounts \ disturbed', Kept(a)
  PROVE  Kept(a)'
<1>1. /\ op[s] = None /\ op' = [op EXCEPT ![s] = o] /\ op'[s] = o /\ o # None
      /\ \A t \in Slots : t # s => op'[t] = op[t] /\ (On(t, a)' <=> On(t, a))
      /\ On(s, a)' <=> o.account = a
  BY ConstantsOK DEF Begin, On, Acc, Ranges, OpRanges
<1>2. row' = row /\ secret' = secret /\ home' = home /\ stranded' = stranded
  BY DEF Begin, stored, files
<1>3. ASSUME NEW b \in Backends, NEW t \in Slots, On(t, a)
      PROVE  /\ Stores(op[t], b) => Storing(a, b)'
             /\ Copies(op[t], b) => Copying(a, b)'
             /\ Deletes(op[t]) => Deleting(a)'
  <2>1. On(t, a)' /\ op'[t] = op[t]
    BY <1>1, <1>3 DEF On
  <2> QED
    BY <2>1 DEF Storing, Stores, Copying, Copies, Deleting, Deletes
<1>4. /\ \A b \in Backends : (Storing(a, b) => Storing(a, b)') /\ (Copying(a, b) => Copying(a, b)')
      /\ Deleting(a) => Deleting(a)'
  <2>1. \A b \in Backends : (Storing(a, b) => Storing(a, b)') /\ (Copying(a, b) => Copying(a, b)')
    BY <1>3 DEF Storing, Copying
  <2>2. Deleting(a) => Deleting(a)'
    BY <1>3 DEF Deleting, Backends
  <2> QED
    BY <2>1, <2>2
<1>5. Present(a) => Present(a)'
  BY <1>2, <1>4 DEF Present
<1>6. Untouched(a)
  BY <1>2, NothingTouched
<1>7. ASSUME NEW t \in Slots, On(t, a)'
      PROVE  Fits(op[t])'
  <2>1. PICK p \in Operation : p = op'[t] /\ Fits(p) /\ p.account = a
    BY <1>1, <1>7 DEF On, Acc, Kept, Ranges, OpRanges
  <2>2. Fits(p)'
    BY <1>5, <1>6, <2>1, UntouchedFits
  <2> QED
    BY <2>1, <2>2 DEF Fits, FitsImport, FitsQuota, FitsProject, FitsRemove, FitsMigrate
<1>8. Clear(a)'
  <2> SUFFICES ASSUME NEW t \in Slots, NEW u \in Slots, t # u, On(t, a)', On(u, a)'
               PROVE  ~Clash(op'[t], op'[u])
    BY DEF Clear, Clash, Guarded
  <2>1. CASE t # s /\ u # s
    BY <1>1, <2>1 DEF Kept, Clear
  <2>2. ASSUME NEW v \in Slots \ {s}, On(v, a)', On(s, a)'
        PROVE  ~Clash(op'[s], op'[v]) /\ ~Clash(op'[v], op'[s])
    <3>1. op'[v] = op[v] /\ op[v] # None /\ op[v].account = a /\ o.account = a
      BY <1>1, <2>2 DEF On, Acc
    <3>2. ~Clash(o, op[v])
      BY <3>1 DEF Begin
    <3> QED
      BY <1>1, <3>1, <3>2 DEF Clash
  <2> QED
    BY <2>1, <2>2
<1>9. RowKept(a)' /\ SecretKept(a)' /\ HomeKept(a)'
  <2>1. RowKept(a)' /\ HomeKept(a)'
    BY <1>2, <1>4, <1>5 DEF Kept, RowKept, HomeKept
  <2>2. SecretKept(a)'
    BY <1>2, <1>4 DEF Kept, SecretKept
  <2> QED
    BY <2>1, <2>2
<1> QED
  BY <1>7, <1>8, <1>9 DEF Kept

\* What a request or a command starts from: the row as it is now, of its own backend where
\* that matters.
LEMMA CallBegins ==
  ASSUME Ranges, NEW s \in Slots, NEW kind \in Kinds \ {"import"}, NEW cli \in BOOLEAN,
         NEW a \in Accounts, NEW b \in Backends, NEW drop \in BOOLEAN,
         Call(s, kind, cli, a, b, drop), kind \in {"remove", "migrate"} => row[a] = b
  PROVE  \E o \in Operation : Begin(s, o) /\ Fits(o)
<1> DEFINE o == [kind |-> kind, cli |-> cli, backend |-> b, account |-> a, at |-> First(kind, cli),
                 row |-> row[a], token |-> 0, fresh |-> 0, drop |-> drop, excused |-> FALSE]
<1>1. /\ First(kind, cli) \in Steps
      /\ First(kind, cli) \in {"lock", "get", "home", "store", "source", "check"}
      /\ kind = "quota" => First(kind, cli) = "get"
  BY DEF First, Steps, Kinds, Lockers
<1>2. row[a] \in Backends /\ row[a] # None
  BY DEF Call, Ranges, StoredRanges
<1>3. 0 \in Tokens
  BY ConstantsOK DEF Tokens
<1>4. o \in Operation
  BY <1>1, <1>2, <1>3 DEF Operation
<1>5. Begin(s, o)
  BY DEF Call
<1>6. o.at = First(kind, cli) /\ o.kind = kind /\ o.backend = b /\ o.account = a
  OBVIOUS
<1>7. Present(a)
  BY <1>2 DEF Present
<1> HIDE DEF o
<1>8. Fits(o)
  BY <1>1, <1>2, <1>6, <1>7 DEF Fits, FitsImport, FitsQuota, FitsProject, FitsRemove, FitsMigrate, Reading,
       Projection,
                                Projects
<1> QED
  BY <1>4, <1>5, <1>8

\* An import starts with a row of the backend it writes.
LEMMA ImportBegins ==
  ASSUME Ranges, NEW s \in Slots, NEW cli \in BOOLEAN, NEW b \in Backends, Import(s, cli, b)
  PROVE  \E o \in Operation : Begin(s, o) /\ Fits(o)
<1>1. PICK a \in Accounts, v \in Tokens :
        Begin(s, [kind |-> "import", cli |-> cli, backend |-> b, account |-> a, at |-> "store",
                  row |-> b, token |-> v, fresh |-> v, drop |-> FALSE, excused |-> FALSE])
  BY DEF Import
<1> DEFINE o == [kind |-> "import", cli |-> cli, backend |-> b, account |-> a, at |-> "store",
                 row |-> b, token |-> v, fresh |-> v, drop |-> FALSE, excused |-> FALSE]
<1>2. o \in Operation /\ Begin(s, o)
  BY <1>1 DEF Operation, Kinds, Steps
<1>3. o.at = "store" /\ o.kind = "import" /\ o.row = b /\ o.backend = b
  OBVIOUS
<1> HIDE DEF o
<1>4. Fits(o)
  BY <1>3 DEF Fits, FitsImport, FitsQuota, FitsProject, FitsRemove, FitsMigrate, Projects
<1> QED
  BY <1>2, <1>4

\* So every operation begins.
LEMMA AskingBegins ==
  ASSUME Ranges, NEW s \in Slots, Requesting(s) \/ Commanding(s)
  PROVE  \E o \in Operation : Begin(s, o) /\ Fits(o)
<1>1. DaemonBackend \in Backends /\ TRUE \in BOOLEAN /\ FALSE \in BOOLEAN
  BY ConstantsOK
<1>2. ASSUME NEW cli \in BOOLEAN, NEW b \in Backends, Import(s, cli, b)
      PROVE  \E o \in Operation : Begin(s, o) /\ Fits(o)
  BY <1>2, ImportBegins
<1>3. ASSUME NEW kind \in Kinds \ {"import"}, NEW a \in Accounts, Request(s, kind, a),
             kind \in {"remove", "migrate"} => row[a] = DaemonBackend
      PROVE  \E o \in Operation : Begin(s, o) /\ Fits(o)
  BY <1>1, <1>3, CallBegins DEF Request
<1>4. ASSUME NEW kind \in Kinds \ {"import"}, NEW a \in Accounts, NEW b \in Backends, NEW drop \in BOOLEAN,
             Command(s, kind, a, b, drop), kind \in {"remove", "migrate"} => row[a] = b
      PROVE  \E o \in Operation : Begin(s, o) /\ Fits(o)
  BY <1>1, <1>4, CallBegins DEF Command
<1>5. ASSUME Requesting(s)
      PROVE  \E o \in Operation : Begin(s, o) /\ Fits(o)
  <2>1. CASE ImportRequest(s)
    BY <1>1, <1>2, <2>1 DEF ImportRequest
  <2>2. CASE \E kind \in {"session", "project", "quota", "current", "member"}, a \in Accounts : Request(s, kind, a)
    BY <1>3, <2>2 DEF Kinds
  <2>3. CASE RemoveRequest(s)
    BY <1>3, <2>3 DEF RemoveRequest, Kinds
  <2> QED
    BY <1>5, <2>1, <2>2, <2>3 DEF Requesting, SessionRequest, ProjectRequest, QuotaRequest, CurrentRequest,
         MemberRequest
<1>6. ASSUME Commanding(s)
      PROVE  \E o \in Operation : Begin(s, o) /\ Fits(o)
  <2>1. CASE ImportCommand(s)
    BY <1>1, <1>2, <2>1 DEF ImportCommand
  <2>2. CASE \E kind \in {"project", "quota", "current", "member"}, a \in Accounts, b \in Backends :
               Command(s, kind, a, b, FALSE)
    BY <1>1, <1>4, <2>2 DEF Kinds
  <2>3. CASE RemoveCommand(s)
    BY <1>1, <1>4, <2>3 DEF RemoveCommand, Kinds
  <2>4. CASE MigrateCommand(s)
    BY <1>4, <2>4 DEF MigrateCommand, Kinds
  <2> QED
    BY <1>1, <1>6, <2>1, <2>2, <2>3, <2>4 DEF Commanding, ProjectCommand, QuotaCommand, CurrentCommand, MemberCommand
<1> QED
  BY <1>5, <1>6

\* Operations that are cut off, or excused, and files that stay.
LEMMA StillKept ==
  ASSUME Ranges, NEW a \in Accounts, Kept(a), row' = row, secret' = secret, stranded' = stranded,
         home'[a].dir = home[a].dir,
         \A t \in Slots : op'[t] # None =>
            /\ op[t] # None /\ op'[t] \in Operation /\ Same(op'[t], op[t]) /\ op'[t].at = op[t].at
            /\ op'[t].row = op[t].row \/ op[t].kind \in Projects,
         \A t \in Slots : On(t, a) /\ op'[t] = None => op[t].kind \notin {"import", "remove", "migrate"}
  PROVE  Kept(a)'
<1>1. \A t \in Slots : On(t, a)' => /\ On(t, a) /\ op'[t] \in Operation /\ Same(op'[t], op[t]) /\ op'[t].at = op[t].at
                                    /\ op'[t].row = op[t].row \/ op[t].kind \in Projects
  BY DEF On, Acc, Same
<1>2. ASSUME NEW t \in Slots, On(t, a), op[t].kind \in {"import", "remove", "migrate"}
      PROVE  On(t, a)' /\ op'[t].kind = op[t].kind /\ op'[t].at = op[t].at /\ op'[t].backend = op[t].backend
  BY <1>2 DEF On, Acc, Same
<1>3. ASSUME NEW b \in Backends, NEW t \in Slots, On(t, a)
      PROVE  /\ Stores(op[t], b) => Storing(a, b)'
             /\ Copies(op[t], b) => Copying(a, b)'
             /\ Deletes(op[t]) => Deleting(a)'
  <2>1. Stores(op[t], b) => Storing(a, b)'
    BY <1>2, <1>3 DEF Storing, Stores
  <2>2. Copies(op[t], b) => Copying(a, b)'
    BY <1>2, <1>3 DEF Copying, Copies
  <2>3. Deletes(op[t]) => Deleting(a)'
    BY <1>2, <1>3 DEF Deleting, Deletes
  <2> QED
    BY <2>1, <2>2, <2>3
<1>4. \A b \in Backends : (Storing(a, b) => Storing(a, b)') /\ (Copying(a, b) => Copying(a, b)')
  BY <1>3 DEF Storing, Copying
<1>5. Deleting(a) => Deleting(a)'
  BY <1>3 DEF Deleting, Backends
<1>6. Present(a) => Present(a)'
  BY <1>4 DEF Present
<1>7. Untouched(a)
  BY DEF Untouched
<1>8. ASSUME NEW t \in Slots, On(t, a)'
      PROVE  Fits(op[t])'
  <2>1. PICK p \in Operation : p = op'[t] /\ Fits(p) /\ p.account = a
    <3>1. Fits(op[t]) /\ op[t].account = a
      BY <1>1, <1>8 DEF Kept, On, Acc
    <3>2. CASE op'[t].row = op[t].row
      BY <1>1, <1>8, <3>1, <3>2 DEF Same, Fits, FitsImport, FitsQuota, FitsProject, FitsRemove, FitsMigrate
    <3>3. CASE op[t].kind \in Projects
      BY <1>1, <1>8, <3>1, <3>3 DEF Same, Fits, FitsImport, FitsQuota, FitsProject, FitsRemove, FitsMigrate, Projects
    <3> QED
      BY <1>1, <1>8, <3>2, <3>3
  <2>2. Fits(p)'
    BY <1>6, <1>7, <2>1, UntouchedFits
  <2> QED
    BY <2>1, <2>2 DEF Fits, FitsImport, FitsQuota, FitsProject, FitsRemove, FitsMigrate
<1>9. Clear(a)'
  <2> SUFFICES ASSUME NEW t \in Slots, NEW u \in Slots, t # u, On(t, a)', On(u, a)'
               PROVE  ~Clash(op'[t], op'[u])
    BY DEF Clear, Clash, Guarded
  <2> QED
    BY <1>1, ClashSame DEF Kept, Clear
<1>10. RowKept(a)' /\ SecretKept(a)' /\ HomeKept(a)'
  <2>1. RowKept(a)' /\ HomeKept(a)'
    BY <1>5, <1>6 DEF Kept, RowKept, HomeKept
  <2>2. SecretKept(a)'
    BY <1>4 DEF Kept, SecretKept
  <2> QED
    BY <2>1, <2>2
<1> QED
  BY <1>8, <1>9, <1>10 DEF Kept

\* A killed process leaves no import, removal or migration on an account whose operations
\* were not broken off.
LEMMA KillKept ==
  ASSUME Ranges, NEW dead \in SUBSET Slots, Kill(dead), NEW a \in Accounts \ disturbed', Kept(a)
  PROVE  Kept(a)'
<1>1. \A t \in Slots : op'[t] = IF t \in dead THEN None ELSE op[t]
  BY DEF Kill
<1>2. ASSUME NEW t \in Slots, On(t, a), op'[t] = None
      PROVE  op[t].kind \notin {"import", "remove", "migrate"}
  <2>1. t \in dead /\ Acc(t) = a
    BY <1>1, <1>2 DEF On
  <2> QED
    BY <2>1 DEF Kill
<1>3. ASSUME NEW t \in Slots, op'[t] # None
      PROVE  op'[t] = op[t] /\ op[t] # None /\ op[t] \in Operation /\ Same(op'[t], op[t])
  <2>1. op'[t] = op[t] /\ op[t] # None /\ op[t] \in Operation
    BY <1>1, <1>3 DEF Ranges, OpRanges
  <2> QED
    BY <2>1 DEF Same
<1>4. row' = row /\ secret' = secret /\ stranded' = stranded /\ home' = home
  BY DEF Kill, stored, files
<1> QED
  BY <1>2, <1>3, <1>4, StillKept

\* Codex rotates tokens, and excuses projections only.
LEMMA CodexKept ==
  ASSUME Ranges, NEW c \in Accounts, CodexRefreshes(c), NEW a \in Accounts, Kept(a)
  PROVE  Kept(a)'
<1>1. ASSUME NEW t \in Slots, op'[t] # None
      PROVE  /\ op[t] # None /\ op'[t] \in Operation /\ Same(op'[t], op[t]) /\ op'[t].at = op[t].at
             /\ op'[t].row = op[t].row \/ op[t].kind \in Projects
  <2>1. CASE op'[t] = op[t]
    BY <1>1, <2>1 DEF Same, Ranges, OpRanges
  <2>2. CASE op[t] # None /\ op'[t] = [op[t] EXCEPT !.excused = TRUE] /\ op[t].kind \in Projects
    <3>1. op[t] \in Operation
      BY <2>2 DEF Ranges, OpRanges
    <3> QED
      BY <2>2, <3>1 DEF Operation, Same
  <2> QED
    BY <2>1, <2>2 DEF CodexRefreshes, At, Projects
<1>2. ASSUME NEW t \in Slots, On(t, a), op'[t] = None
      PROVE  FALSE
  <2>1. op[t] \in Operation /\ op[t] # None
    BY <1>2 DEF On, Ranges, OpRanges
  <2>2. [op[t] EXCEPT !.excused = TRUE] \in Operation
    BY <2>1 DEF Operation
  <2>3. op'[t] = op[t] \/ op'[t] = [op[t] EXCEPT !.excused = TRUE]
    BY DEF CodexRefreshes
  <2> QED
    BY <1>2, <2>1, <2>2, <2>3, ConstantsOK
<1>3. row' = row /\ secret' = secret /\ stranded' = stranded /\ home'[a].dir = home[a].dir
  BY DEF CodexRefreshes, stored, history, Ranges, FileRanges, Homes
<1> QED
  BY <1>1, <1>2, <1>3, StillKept

\* Neither do steps on auth profiles matter.
LEMMA IdleKept ==
  ASSUME Ranges, UNCHANGED <<row, files, op, stranded>>, NEW a \in Accounts, Kept(a)
  PROVE  Kept(a)'
<1>1. ASSUME NEW t \in Slots, op'[t] # None
      PROVE  op'[t] = op[t] /\ op[t] \in Operation /\ Same(op'[t], op[t])
  BY <1>1 DEF Same, Ranges, OpRanges
<1>2. ASSUME NEW t \in Slots, On(t, a), op'[t] = None PROVE FALSE
  BY <1>2 DEF On
<1>3. row' = row /\ secret' = secret /\ stranded' = stranded /\ home' = home /\ op' = op
  BY DEF files
<1> QED
  BY <1>1, <1>2, <1>3, StillKept

\* An account whose operations were broken off stays one.
LEMMA DisturbedGrows ==
  ASSUME Ranges, [Next]_vars
  PROVE  disturbed \subseteq disturbed'
<1>1. ASSUME NEW s \in Slots, Requesting(s) \/ Commanding(s)
      PROVE  disturbed \subseteq disturbed'
  BY <1>1, AskingBegins DEF Begin
<1>2. ASSUME NEW s \in Slots, Lock(s) \/ Projecting(s)
      PROVE  disturbed \subseteq disturbed'
  BY <1>2 DEF Lock, Projecting, Get, Sync, SyncPut, MakeDir, WriteAuth, WriteMarker, ProjectFails,
              Create, history
<1>3. ASSUME NEW s \in Slots, Writing(s) \/ Removing(s)
      PROVE  disturbed \subseteq disturbed'
  BY <1>3 DEF Writing, Check, Insert, WriterFails, Removing, RemoveHome, RemoveSecret, RemoveRow,
              RemoveFails, history
<1>4. ASSUME NEW s \in Slots, Importing(s) \/ Refreshing(s)
      PROVE  disturbed \subseteq disturbed'
  BY <1>4 DEF Importing, ImportStore, ImportUpsert, ImportLook, ImportFails, Refreshing, Usage,
              QuotaUpsert, QuotaFails, history
<1>5. ASSUME NEW s \in Slots, Migrating(s)
      PROVE  disturbed \subseteq disturbed'
  BY <1>5 DEF Migrating, MigrateGet, MigratePut, MigrateRead, MigrateMove, MigrateUndo, MigrateDrop,
              MigrateFails, history
<1>6. ASSUME NEW dead, Kill(dead)
      PROVE  disturbed \subseteq disturbed'
  BY <1>6 DEF Kill
<1>7. ASSUME MakeProfile \/ DropProfile \/ \E a \in Accounts : CodexRefreshes(a) \/ DropMember(a)
      PROVE  disturbed \subseteq disturbed'
  BY <1>7 DEF MakeProfile, DropProfile, CodexRefreshes, DropMember, history
<1>8. CASE Next
  BY <1>1, <1>2, <1>3, <1>4, <1>5, <1>6, <1>7, <1>8 DEF Next, Crash, Interrupt
<1> QED
  BY <1>8 DEF vars, history

\* Every step keeps the accounts whole that it does not disturb.
LEMMA KeptStep == Ranges /\ Locking /\ KeptWhole /\ [Next]_vars => KeptWhole'
<1> SUFFICES ASSUME Ranges, Locking, KeptWhole, [Next]_vars, NEW a \in Accounts \ disturbed'
             PROVE  Kept(a)'
  BY DEF KeptWhole
<1>1. Kept(a)
  BY DisturbedGrows DEF KeptWhole
<1>2. ASSUME NEW s \in Slots, Requesting(s) \/ Commanding(s)
      PROVE  Kept(a)'
  BY <1>1, <1>2, AskingBegins, BeginKept
<1>3. ASSUME NEW s \in Slots, Working(s)
      PROVE  Kept(a)'
  BY <1>1, <1>3, WorkingKept
<1>4. ASSUME NEW s \in Slots, Interrupt(s)
      PROVE  Kept(a)'
  BY <1>1, <1>4, KillKept DEF Interrupt
<1>5. CASE Crash
  BY <1>1, <1>5, KillKept DEF Crash
<1>6. ASSUME NEW c \in Accounts, CodexRefreshes(c) \/ DropMember(c)
      PROVE  Kept(a)'
  BY <1>1, <1>6, CodexKept, IdleKept DEF DropMember, history
<1>7. CASE MakeProfile \/ DropProfile
  BY <1>1, <1>7, IdleKept DEF MakeProfile, DropProfile, history
<1>8. CASE UNCHANGED vars
  BY <1>1, <1>8, IdleKept DEF vars, stored, history
<1>9. CASE Next
  BY <1>2, <1>3, <1>4, <1>5, <1>6, <1>7, <1>9 DEF Next, Working
<1> QED
  BY <1>8, <1>9

\* At the start every account is there with its credential, or has neither.
LEMMA KeptInit == Init => KeptWhole
<1> SUFFICES ASSUME Init, NEW a \in Accounts PROVE Kept(a)
  BY DEF KeptWhole
<1>1. PICK imported \in SUBSET Accounts :
        /\ row = [c \in Accounts |-> IF c \in imported THEN DaemonBackend ELSE None]
        /\ secret = [b \in Backends |-> [c \in Accounts |->
                      IF c \in imported /\ b = DaemonBackend THEN 0 ELSE None]]
  BY DEF Init
<1>2. home[a].dir = FALSE /\ \A s \in Slots : op[s] = None
  BY DEF Init, NoHome
<1>3. 0 # None /\ None \notin Backends /\ DaemonBackend \in Backends
  BY ConstantsOK
<1>4. RowKept(a) /\ SecretKept(a) /\ HomeKept(a)
  BY <1>1, <1>2, <1>3 DEF RowKept, SecretKept, HomeKept
<1> QED
  BY <1>2, <1>4 DEF Kept, Clear, On

\* When nothing is under way on an account whose operations were neither broken off nor
\* overlapped by a command, an import or a quota refresh that removes or migrates it, it is
\* stored with its credential, or gone with its projection and its credentials.
THEOREM SettledCorrect == Spec => []SettledAccountsAreWhole
<1>1. Init => KeptWhole
  BY KeptInit
<1>2. KeptWhole => SettledAccountsAreWhole
  BY KeptIsSettled
<1> QED
  BY <1>1, <1>2, KeptStep, TypesInvariant, PTL DEF Spec
=============================================================================
