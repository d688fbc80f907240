------------------------------ MODULE Accounts ------------------------------
(***************************************************************************)
(* Imported Codex accounts: rows of the account database, credentials in a   *)
(* SecretStore, runtime projections (a CODEX_HOME per account).  Requests of *)
(* the daemon and commands of the CLI, a process of its own over the same    *)
(* files, run at the same time, one step per store call or file operation.   *)
(* The daemon has a lock per account, taken by projections and removals; the *)
(* CLI takes none.  Any call may fail, and a write that ends in afterWrite   *)
(* may report a failure although the row is written.                         *)
(*                                                                           *)
(* A token is its last_refresh, 0 when it has none.                          *)
(***************************************************************************)
EXTENDS Integers, FiniteSets

CONSTANTS Accounts, Slots, None,
          DaemonBackend, \* CAPD_SECRET_BACKEND of the daemon
          Commands,      \* kinds of operation the CLI runs
          Requests,      \* kinds of operation the daemon runs
          MaxToken,      \* bound: refreshes
          MaxImported,   \* bound: accounts imported before
          MaxBegun       \* bound: operations begun

Backends == {"file", "native"}
Kinds == {"import", "project", "session", "remove", "quota", "current", "member", "migrate"}

Tokens == 0 .. MaxToken

\* A projection: the directory, its auth.json, its marker.
Homes == [dir : BOOLEAN, auth : Tokens \cup {None}, marked : BOOLEAN]
NoHome == [dir |-> FALSE, auth |-> None, marked |-> FALSE]

\* The tables whose rows name an account.  account_health is left out: only routing
\* reads it, and its writers never look at the account.
Tables == {"quota", "session", "member", "current"}

Steps == {"lock", "get", "sync", "put", "dir", "auth", "marker",  \* Project
          "create",                                                \* session/create
          "home", "secret", "row",                                 \* removal
          "store", "upsert", "look",                               \* import
          "usage", "meta",                                         \* quota
          "check", "insert",                                       \* load, then write
          "source", "target", "readback", "move", "undo", "drop"}  \* migration

Operation == [kind : Kinds, cli : BOOLEAN, backend : Backends, account : Accounts, at : Steps,
              row : Backends,   \* the row as it was loaded
              token : Tokens,   \* the credential in hand
              fresh : Tokens,   \* the projected auth.json, when it is newer
              drop : BOOLEAN,   \* --delete-source
              excused : BOOLEAN]  \* it may write an older auth.json (history)

ASSUME ConstantsOK == /\ None \notin Accounts \cup Slots \cup Backends \cup Nat \cup Operation
                      /\ DaemonBackend \in Backends
                      /\ Commands \subseteq Kinds \ {"session"}
                      /\ Requests \subseteq Kinds \ {"migrate"}
                      /\ MaxToken \in Nat
                      /\ {MaxImported, MaxBegun} \subseteq Nat

VARIABLES
  row,        \* row[a]: the backend in the secret_ref of a's row, or None
  current,    \* account_state of the provider, or None
  named,      \* <<a, table>>: rows of other tables that name an account
  profile,    \* the profile exists
  secret,     \* secret[b][a]: the credential of a in backend b, or None
  home,       \* home[a]: the projection
  lock,       \* lock[a]: the operation that holds accountMux[a], or None
  op,         \* op[s]: the operation in slot s, or None
  begun,      \* operations begun
  raced,      \* <<a, table>>: deleted between the look and the write of a writer (history)
  disturbed,  \* accounts with overlapping or broken off operations (history)
  unlocked,   \* accounts a command has worked on (history)
  unset,      \* rows whose writer has not looked at the current account (history)
  stranded    \* <<b, a>>: a credential left behind by a change of backend (history)

stored == <<row, current, named, profile>>
files == <<secret, home>>
history == <<raced, disturbed, unlocked, unset, stranded>>
vars == <<stored, files, lock, op, begun, history>>

\* The daemon starts over a new database, or one in which accounts were imported.
Init == /\ \E imported \in SUBSET Accounts :
             /\ Cardinality(imported) <= MaxImported
             /\ row = [a \in Accounts |-> IF a \in imported THEN DaemonBackend ELSE None]
             /\ secret = [b \in Backends |-> [a \in Accounts |->
                           IF a \in imported /\ b = DaemonBackend THEN 0 ELSE None]]
             /\ current \in IF imported = {} THEN {None} ELSE imported
        /\ named = {}
        /\ profile = FALSE
        /\ home = [a \in Accounts |-> NoHome]
        /\ lock = [a \in Accounts |-> None]
        /\ op = [s \in Slots |-> None]
        /\ begun = 0
        /\ raced = {}
        /\ disturbed = {}
        /\ unlocked = {}
        /\ unset = {}
        /\ stranded = {}

At(s, kinds, step) == op[s] # None /\ op[s].kind \in kinds /\ op[s].at = step
Goto(s, step) == op' = [op EXCEPT ![s].at = step]
Acc(s) == op[s].account

\* Mutant of Release: an operation that fails keeps the lock.
ReleaseNot(s) == lock' = lock

\* defer unlock().
Release(s) == lock' = [a \in Accounts |-> IF lock[a] = s THEN None ELSE lock[a]]

\* The operation returns.
Return(s) == op' = [op EXCEPT ![s] = None] /\ Release(s)
-----------------------------------------------------------------------------
(* Operations begin.                                                          *)

\* Projections, bindings and removals of the daemon are meant to run side by side.
Guarded(o) == ~o.cli /\ o.kind # "import" /\ o.kind # "quota"
Clash(o, p) == /\ {o.kind, p.kind} \cap {"remove", "migrate"} # {}
               /\ ~(Guarded(o) /\ Guarded(p))

\* Kinds that take the account's lock, in the daemon.
Lockers == {"project", "session", "remove"}

First(kind, cli) == IF kind \in Lockers /\ ~cli THEN "lock"
                    ELSE CASE kind \in {"project", "quota"} -> "get"
                           [] kind = "remove" -> "home"
                           [] kind = "import" -> "store"
                           [] kind = "migrate" -> "source"
                           [] OTHER -> "check"

Begin(s, o) ==
  /\ op[s] = None
  /\ begun < MaxBegun
  /\ begun' = begun + 1
  /\ op' = [op EXCEPT ![s] = o]
  /\ disturbed' = disturbed \cup
       {a \in {o.account} : \E t \in Slots : op[t] # None /\ op[t].account = a /\ Clash(o, op[t])}
  /\ unlocked' = IF o.cli THEN unlocked \cup {o.account} ELSE unlocked
  /\ UNCHANGED <<stored, files, lock, raced, unset, stranded>>

\* An auth.json of any age, with or without last_refresh.
Import(s, cli, b) == \E a \in Accounts, v \in Tokens :
  Begin(s, [kind |-> "import", cli |-> cli, backend |-> b, account |-> a, at |-> "store",
            row |-> b, token |-> v, fresh |-> v, drop |-> FALSE, excused |-> FALSE])

\* Every other operation starts from the row as it is now.
Call(s, kind, cli, a, b, drop) ==
  /\ row[a] # None
  /\ Begin(s, [kind |-> kind, cli |-> cli, backend |-> b, account |-> a, at |-> First(kind, cli),
               row |-> row[a], token |-> 0, fresh |-> 0, drop |-> drop, excused |-> FALSE])

\* Of the daemon.  A removal and a quota refresh refuse a row of another backend at once.
Request(s, kind, a) == kind \in Requests /\ Call(s, kind, FALSE, a, DaemonBackend, FALSE)

ImportRequest(s) == "import" \in Requests /\ Import(s, FALSE, DaemonBackend)
SessionRequest(s) == \E a \in Accounts : Request(s, "session", a)
ProjectRequest(s) == \E a \in Accounts : Request(s, "project", a)
RemoveRequest(s) == \E a \in Accounts : row[a] = DaemonBackend /\ Request(s, "remove", a)
QuotaRequest(s) == \E a \in Accounts : row[a] = DaemonBackend /\ Request(s, "quota", a)
CurrentRequest(s) == \E a \in Accounts : Request(s, "current", a)
MemberRequest(s) == \E a \in Accounts : profile /\ Request(s, "member", a)

\* Of the command line, with a backend of its own.  An account is set current, or made a
\* member, as by the daemon.
Command(s, kind, a, b, drop) == kind \in Commands /\ Call(s, kind, TRUE, a, b, drop)

ImportCommand(s) == \E b \in Backends : "import" \in Commands /\ Import(s, TRUE, b)
ProjectCommand(s) == \E a \in Accounts, b \in Backends : Command(s, "project", a, b, FALSE)
RemoveCommand(s) == \E a \in Accounts, b \in Backends : row[a] = b /\ Command(s, "remove", a, b, FALSE)
QuotaCommand(s) == \E a \in Accounts, b \in Backends : row[a] = b /\ Command(s, "quota", a, b, FALSE)
CurrentCommand(s) == \E a \in Accounts : Command(s, "current", a, DaemonBackend, FALSE)
MemberCommand(s) == \E a \in Accounts : profile /\ Command(s, "member", a, DaemonBackend, FALSE)
MigrateCommand(s) == \E a \in Accounts, b \in Backends, drop \in BOOLEAN :
  row[a] = b /\ Command(s, "migrate", a, b, drop)
-----------------------------------------------------------------------------
(* RuntimeProjector.Project, by accounts/project and session/create.          *)

\* Mutant of Lock: nobody waits.
LockOpen(s) ==
  /\ op[s] # None /\ op[s].at = "lock"
  /\ lock' = [lock EXCEPT ![Acc(s)] = s]
  /\ Goto(s, IF op[s].kind = "remove" THEN "home" ELSE "get")
  /\ UNCHANGED <<stored, files, begun, history>>

\* lockAccountRuntime.
Lock(s) ==
  /\ op[s] # None /\ op[s].at = "lock"
  /\ lock[Acc(s)] = None
  /\ lock' = [lock EXCEPT ![Acc(s)] = s]
  /\ Goto(s, IF op[s].kind = "remove" THEN "home" ELSE "get")
  /\ UNCHANGED <<stored, files, begun, history>>

Readable(s) == /\ op[s].row = op[s].backend
               /\ secret[op[s].backend][Acc(s)] # None

\* EnsureRefBackend, Get.
Get(s) ==
  /\ At(s, {"project", "session", "quota"}, "get")
  /\ Readable(s)
  /\ op' = [op EXCEPT ![s].at = IF op[s].kind = "quota" THEN "usage" ELSE "sync",
                      ![s].token = secret[op[s].backend][Acc(s)]]
  /\ UNCHANGED <<stored, files, lock, begun, history>>

\* Mutant of Newer: a stored credential without last_refresh is kept.
NewerDated(candidate, known) == known > 0 /\ candidate > known

\* authJSONNewer.
Newer(candidate, known) == candidate > known

\* syncRefreshedAuth, up to its Put.
Sync(s) ==
  LET projected == home[Acc(s)].auth IN
  /\ At(s, {"project", "session"}, "sync")
  /\ op' = IF projected # None /\ Newer(projected, op[s].token)
             THEN [op EXCEPT ![s].at = "put", ![s].fresh = projected]
             ELSE [op EXCEPT ![s].at = "dir"]
  /\ UNCHANGED <<stored, files, lock, begun, history>>

\* The Put; when it fails the stored credential is projected.
SyncPut(s) ==
  /\ At(s, {"project", "session"}, "put")
  /\ \/ /\ secret' = [secret EXCEPT ![op[s].backend][Acc(s)] = op[s].fresh]
        /\ op' = [op EXCEPT ![s].at = "dir", ![s].token = op[s].fresh]
     \/ /\ op' = [op EXCEPT ![s].at = "dir", ![s].excused = TRUE]
        /\ UNCHANGED secret
  /\ UNCHANGED <<stored, home, lock, begun, history>>

MakeDir(s) ==
  /\ At(s, {"project", "session"}, "dir")
  /\ home' = [home EXCEPT ![Acc(s)].dir = TRUE]
  /\ Goto(s, "auth")
  /\ UNCHANGED <<stored, secret, lock, begun, history>>

\* writePrivate: the directory may have been removed again.
WriteAuth(s) ==
  /\ At(s, {"project", "session"}, "auth")
  /\ home[Acc(s)].dir
  /\ home' = [home EXCEPT ![Acc(s)].auth = op[s].token]
  /\ Goto(s, "marker")
  /\ UNCHANGED <<stored, secret, lock, begun, history>>

\* The marker, and the environment is returned: a session goes on to Create.
WriteMarker(s) ==
  /\ At(s, {"project", "session"}, "marker")
  /\ home[Acc(s)].dir
  /\ home' = [home EXCEPT ![Acc(s)].marked = TRUE]
  /\ IF op[s].kind = "session" THEN Goto(s, "create") /\ Release(s) ELSE Return(s)
  /\ UNCHANGED <<stored, secret, begun, history>>

\* Any of its calls fails.
ProjectFails(s) ==
  /\ \E step \in {"get", "dir", "auth", "marker"} : At(s, {"project", "session"}, step)
  /\ Return(s)
  /\ UNCHANGED <<stored, files, begun, history>>

\* Codex refreshes the auth.json of a projection it runs in, at any time.
CodexRefreshes(a) ==
  /\ home[a].dir /\ home[a].auth # None
  /\ home[a].auth < MaxToken
  /\ home' = [home EXCEPT ![a].auth = @ + 1]
  /\ op' = [s \in Slots |-> IF /\ \E step \in {"put", "dir", "auth"} : At(s, {"project", "session"}, step)
                               /\ Acc(s) = a
                              THEN [op[s] EXCEPT !.excused = TRUE] ELSE op[s]]
  /\ UNCHANGED <<stored, secret, lock, begun, history>>
-----------------------------------------------------------------------------
(* session/create after its projection: the session is created, and is to be bound,  *)
(* or the request fails.                                                      *)

Create(s) ==
  /\ At(s, {"session"}, "create")
  /\ \/ Goto(s, "check") /\ UNCHANGED lock
     \/ Return(s)
  /\ UNCHANGED <<stored, files, begun, history>>
-----------------------------------------------------------------------------
(* LoadAccount, then a write that names the account: SaveQuota,               *)
(* BindSessionAccount, AddProfileAccount, SetCurrentAccount.                   *)

Table(kind) == CASE kind = "quota" -> "quota"
                 [] kind = "session" -> "session"
                 [] kind = "member" -> "member"
                 [] OTHER -> "current"

Writers == {"quota", "session", "member", "current", "import"}

Check(s) ==
  /\ At(s, Writers, "check")
  /\ IF row[Acc(s)] # None THEN Goto(s, "insert") /\ UNCHANGED lock ELSE Return(s)
  /\ UNCHANGED <<stored, files, begun, history>>

Insert(s) ==
  /\ At(s, Writers, "insert")
  /\ IF Table(op[s].kind) = "current"
       THEN /\ current' = Acc(s)
            /\ unset' = IF op[s].kind = "import" THEN unset \ {Acc(s)} ELSE unset
            /\ UNCHANGED named
       ELSE /\ named' = named \cup {<<Acc(s), Table(op[s].kind)>>}
            /\ UNCHANGED <<current, unset>>
  /\ Return(s)
  /\ UNCHANGED <<row, profile, files, begun, raced, disturbed, unlocked, stranded>>

\* The look or the write fails.
WriterFails(s) ==
  /\ At(s, Writers, "check") \/ At(s, Writers, "insert")
  /\ Return(s)
  /\ UNCHANGED <<stored, files, begun, history>>

\* UpsertProfile.
MakeProfile == /\ "member" \in Commands \cup Requests
               /\ ~profile
               /\ profile' = TRUE
               /\ UNCHANGED <<row, current, named, files, lock, op, begun, history>>

InFlight(table) == {a \in Accounts : \E s \in Slots : /\ At(s, Writers, "insert")
                                                      /\ Acc(s) = a
                                                      /\ Table(op[s].kind) = table}

\* DeleteProfile: the profile and its members in one transaction.
DropProfile ==
  /\ profile
  /\ profile' = FALSE
  /\ named' = {n \in named : n[2] # "member"}
  /\ raced' = raced \cup {<<Acc(s), "member">> : s \in {s \in Slots : op[s] # None /\ op[s].kind = "member"}}
  /\ UNCHANGED <<row, current, files, lock, op, begun, disturbed, unlocked, unset, stranded>>

\* RemoveProfileAccount.
DropMember(a) ==
  /\ <<a, "member">> \in named
  /\ named' = named \ {<<a, "member">>}
  /\ UNCHANGED <<row, current, profile, files, lock, op, begun, history>>
-----------------------------------------------------------------------------
(* accounts/remove.                                                           *)

\* RemoveRuntimeProjection: nothing there, or a directory with its marker.
RemoveHome(s) ==
  /\ At(s, {"remove"}, "home")
  /\ home[Acc(s)].dir => home[Acc(s)].marked
  /\ home' = [home EXCEPT ![Acc(s)] = NoHome]
  /\ Goto(s, "secret")
  /\ UNCHANGED <<stored, secret, lock, begun, history>>

DeleteSecret(b, a) == /\ secret' = [secret EXCEPT ![b][a] = None]
                      /\ stranded' = stranded \ {<<b, a>>}

RemoveSecret(s) ==
  /\ At(s, {"remove"}, "secret")
  /\ DeleteSecret(op[s].backend, Acc(s))
  /\ Goto(s, "row")
  /\ UNCHANGED <<stored, home, lock, begun, raced, disturbed, unlocked, unset>>

\* The current account once a is gone: when a was it another one, by updated_at; which
\* one is left open.
Heirs(a) == LET left == {b \in Accounts \ {a} : row[b] # None}
            IN CASE current # a -> {current}
                 [] current = a /\ left = {} -> {None}
                 [] OTHER -> left

\* Mutant of DeleteAccount: the cached quota stays.
DeleteAccountCached(a) ==
  /\ row' = [row EXCEPT ![a] = None]
  /\ named' = {n \in named : n[1] # a \/ n[2] = "quota"}
  /\ raced' = {n \in raced : n[1] # a \/ n[2] = "member"} \cup {<<a, t>> : t \in {t \in Tables : a \in InFlight(t)}}
  /\ unset' = unset \ {a}
  /\ current' \in Heirs(a)

\* Mutant of DeleteAccount: no other account becomes the current one.
DeleteAccountOnly(a) ==
  /\ row' = [row EXCEPT ![a] = None]
  /\ named' = {n \in named : n[1] # a}
  /\ raced' = {n \in raced : n[1] # a \/ n[2] = "member"} \cup {<<a, t>> : t \in {t \in Tables : a \in InFlight(t)}}
  /\ unset' = unset \ {a}
  /\ current' = IF current = a THEN None ELSE current

\* DeleteAccount, one transaction.
DeleteAccount(a) ==
  /\ row' = [row EXCEPT ![a] = None]
  /\ named' = {n \in named : n[1] # a}
  /\ raced' = {n \in raced : n[1] # a \/ n[2] = "member"} \cup {<<a, t>> : t \in {t \in Tables : a \in InFlight(t)}}
  /\ unset' = unset \ {a}
  /\ current' \in Heirs(a)

RemoveRow(s) ==
  /\ At(s, {"remove"}, "row")
  /\ IF row[Acc(s)] # None THEN DeleteAccount(Acc(s))
                           ELSE UNCHANGED <<row, current, named, raced, unset>>
  /\ Return(s)
  /\ UNCHANGED <<profile, files, begun, disturbed, unlocked, stranded>>

\* A step of the removal fails: what the steps before it removed stays removed.
RemoveFails(s) ==
  /\ \E step \in {"home", "secret", "row"} : At(s, {"remove"}, step)
  /\ disturbed' = IF op[s].at = "row" THEN disturbed \cup {Acc(s)} ELSE disturbed
  /\ Return(s)
  /\ UNCHANGED <<stored, files, begun, raced, unlocked, unset, stranded>>
-----------------------------------------------------------------------------
(* ImportAuthJSON.                                                            *)

\* UpsertAccount of the copy in hand.  A row that comes back this way, or moves to
\* another backend, is noted.
Upsert(a, r) ==
  /\ row' = [row EXCEPT ![a] = r]
  /\ unset' = IF row[a] = None THEN unset \cup {a} ELSE unset
  /\ stranded' = IF row[a] # None /\ row[a] # r
                   THEN stranded \cup {<<row[a], a>>} ELSE stranded

ImportStore(s) ==
  /\ At(s, {"import"}, "store")
  /\ secret' = [secret EXCEPT ![op[s].backend][Acc(s)] = op[s].token]
  /\ stranded' = stranded \ {<<op[s].backend, Acc(s)>>}
  /\ Goto(s, "upsert")
  /\ UNCHANGED <<stored, home, lock, begun, raced, disturbed, unlocked, unset>>

\* The second disjunct: written, and reported as failed.
ImportUpsert(s) ==
  /\ At(s, {"import"}, "upsert")
  /\ Upsert(Acc(s), op[s].row)
  /\ \/ Goto(s, "look") /\ UNCHANGED lock
     \/ Return(s)
  /\ UNCHANGED <<current, named, profile, files, begun, raced, disturbed, unlocked>>

\* CurrentAccount: SetCurrentAccount follows when there is none.
ImportLook(s) ==
  /\ At(s, {"import"}, "look")
  /\ IF current = None
       THEN Goto(s, "check") /\ UNCHANGED <<unset, lock>>
       ELSE Return(s) /\ unset' = unset \ {Acc(s)}
  /\ UNCHANGED <<stored, files, begun, raced, disturbed, unlocked, stranded>>

\* Unreadable or without a token, not stored, or stored and not entered.
ImportFails(s) ==
  /\ \E step \in {"store", "upsert", "look"} : At(s, {"import"}, step)
  /\ disturbed' = IF op[s].at = "upsert" THEN disturbed \cup {Acc(s)} ELSE disturbed
  /\ Return(s)
  /\ UNCHANGED <<stored, files, begun, raced, unlocked, unset, stranded>>
-----------------------------------------------------------------------------
(* refreshOneAccountQuota.                                                    *)

\* The backend answers; metadata that was missing, if any, is written back with the copy
\* that was loaded before the call.
Usage(s) ==
  /\ At(s, {"quota"}, "usage")
  /\ \E step \in {"check", "meta"} : Goto(s, step)
  /\ UNCHANGED <<stored, files, lock, begun, history>>

QuotaUpsert(s) ==
  /\ At(s, {"quota"}, "meta")
  /\ Upsert(Acc(s), op[s].row)
  /\ \/ Goto(s, "check") /\ UNCHANGED lock
     \/ Return(s)
  /\ UNCHANGED <<current, named, profile, files, begun, raced, disturbed, unlocked>>

QuotaFails(s) ==
  /\ \E step \in {"get", "usage", "meta"} : At(s, {"quota"}, step)
  /\ Return(s)
  /\ UNCHANGED <<stored, files, begun, history>>
-----------------------------------------------------------------------------
(* migrateCodexAccountSecret.                                                 *)

Other(b) == IF b = "file" THEN "native" ELSE "file"

MigrateGet(s) ==
  /\ At(s, {"migrate"}, "source")
  /\ Readable(s)
  /\ op' = [op EXCEPT ![s].at = "target", ![s].token = secret[op[s].backend][Acc(s)]]
  /\ UNCHANGED <<stored, files, lock, begun, history>>

MigratePut(s) ==
  /\ At(s, {"migrate"}, "target")
  /\ secret' = [secret EXCEPT ![Other(op[s].backend)][Acc(s)] = op[s].token]
  /\ stranded' = stranded \ {<<Other(op[s].backend), Acc(s)>>}
  /\ Goto(s, "readback")
  /\ UNCHANGED <<stored, home, lock, begun, raced, disturbed, unlocked, unset>>

\* The readback: what cannot be read is deleted again.
MigrateRead(s) ==
  /\ At(s, {"migrate"}, "readback")
  /\ \/ secret[Other(op[s].backend)][Acc(s)] # None /\ Goto(s, "move")
     \/ Goto(s, "undo")
  /\ UNCHANGED <<stored, files, lock, begun, history>>

\* The upsert of the copy with the new reference.  Third disjunct: written, and
\* reported as failed, so that the target is deleted under the row that names it.
MigrateMove(s) ==
  /\ At(s, {"migrate"}, "move")
  /\ \/ /\ Upsert(Acc(s), Other(op[s].backend))
        /\ IF op[s].drop THEN Goto(s, "drop") /\ UNCHANGED lock ELSE Return(s)
        /\ UNCHANGED disturbed
     \/ /\ Goto(s, "undo")
        /\ UNCHANGED <<row, unset, stranded, disturbed, lock>>
     \/ /\ Upsert(Acc(s), Other(op[s].backend))
        /\ Goto(s, "undo")
        /\ disturbed' = disturbed \cup {Acc(s)}
        /\ UNCHANGED lock
  /\ UNCHANGED <<current, named, profile, files, begun, raced, unlocked>>

\* The error of this Delete is ignored.
MigrateUndo(s) ==
  /\ At(s, {"migrate"}, "undo")
  /\ \/ DeleteSecret(Other(op[s].backend), Acc(s)) /\ UNCHANGED disturbed
     \/ disturbed' = disturbed \cup {Acc(s)} /\ UNCHANGED <<secret, stranded>>
  /\ Return(s)
  /\ UNCHANGED <<stored, home, begun, raced, unlocked, unset>>

\* Mutant of MigrateDrop: the credential that was just written.
MigrateDropTarget(s) ==
  /\ At(s, {"migrate"}, "drop")
  /\ DeleteSecret(Other(op[s].backend), Acc(s))
  /\ Return(s)
  /\ UNCHANGED <<stored, home, begun, raced, disturbed, unlocked, unset>>

\* --delete-source.
MigrateDrop(s) ==
  /\ At(s, {"migrate"}, "drop")
  /\ DeleteSecret(op[s].backend, Acc(s))
  /\ Return(s)
  /\ UNCHANGED <<stored, home, begun, raced, disturbed, unlocked, unset>>

MigrateFails(s) ==
  /\ \E step \in {"source", "target", "drop"} : At(s, {"migrate"}, step)
  /\ Return(s)
  /\ UNCHANGED <<stored, files, begun, history>>
-----------------------------------------------------------------------------
(* The daemon, or a command, is killed.                                       *)

Kill(dead) ==
  /\ dead # {}
  /\ op' = [s \in Slots |-> IF s \in dead THEN None ELSE op[s]]
  /\ lock' = [a \in Accounts |-> IF lock[a] \in dead THEN None ELSE lock[a]]
  /\ disturbed' = disturbed \cup {Acc(s) : s \in {s \in dead :
                      op[s].kind \in {"import", "remove", "migrate"}}}
  /\ UNCHANGED <<stored, files, begun, raced, unlocked, unset, stranded>>

Crash == Kill({s \in Slots : op[s] # None /\ ~op[s].cli})
Interrupt(s) == op[s] # None /\ op[s].cli /\ Kill({s})
-----------------------------------------------------------------------------
Requesting(s) == ImportRequest(s) \/ SessionRequest(s) \/ ProjectRequest(s) \/ RemoveRequest(s)
                   \/ QuotaRequest(s) \/ CurrentRequest(s) \/ MemberRequest(s)
Commanding(s) == ImportCommand(s) \/ ProjectCommand(s) \/ RemoveCommand(s) \/ QuotaCommand(s)
                   \/ CurrentCommand(s) \/ MemberCommand(s) \/ MigrateCommand(s)
Projecting(s) == Get(s) \/ Sync(s) \/ SyncPut(s) \/ MakeDir(s) \/ WriteAuth(s) \/ WriteMarker(s)
                   \/ ProjectFails(s) \/ Create(s)
Writing(s) == Check(s) \/ Insert(s) \/ WriterFails(s)
Removing(s) == RemoveHome(s) \/ RemoveSecret(s) \/ RemoveRow(s) \/ RemoveFails(s)
Importing(s) == ImportStore(s) \/ ImportUpsert(s) \/ ImportLook(s) \/ ImportFails(s)
Refreshing(s) == Usage(s) \/ QuotaUpsert(s) \/ QuotaFails(s)
Migrating(s) == MigrateGet(s) \/ MigratePut(s) \/ MigrateRead(s) \/ MigrateMove(s)
                  \/ MigrateUndo(s) \/ MigrateDrop(s) \/ MigrateFails(s)

Next == \/ \E s \in Slots : \/ Requesting(s) \/ Commanding(s) \/ Lock(s)
                            \/ Projecting(s) \/ Writing(s) \/ Removing(s) \/ Importing(s)
                            \/ Refreshing(s) \/ Migrating(s) \/ Interrupt(s)
        \/ \E a \in Accounts : CodexRefreshes(a) \/ DropMember(a)
        \/ MakeProfile \/ DropProfile \/ Crash

Spec == Init /\ [][Next]_vars
-----------------------------------------------------------------------------
\* Types; and a lock is held by an operation of the daemon on that account that is in
\* its locked part (accounts.go:78).
Locked == {"get", "sync", "put", "dir", "auth", "marker", "home", "secret", "row"}

TypeOK == /\ row \in [Accounts -> Backends \cup {None}]
          /\ current \in Accounts \cup {None}
          /\ named \in SUBSET (Accounts \X Tables)
          /\ profile \in BOOLEAN
          /\ secret \in [Backends -> [Accounts -> Tokens \cup {None}]]
          /\ home \in [Accounts -> Homes]
          /\ lock \in [Accounts -> Slots \cup {None}]
          /\ op \in [Slots -> Operation \cup {None}]
          /\ begun \in 0 .. MaxBegun
          /\ raced \in SUBSET (Accounts \X Tables)
          /\ disturbed \in SUBSET Accounts /\ unlocked \in SUBSET Accounts /\ unset \in SUBSET Accounts
          /\ stranded \in SUBSET (Backends \X Accounts)
          /\ \A a \in Accounts : lock[a] # None =>
                LET o == op[lock[a]] IN
                o # None /\ ~o.cli /\ o.account = a /\ o.at \in Locked

\* No quota, session binding, profile membership or current account names an account
\* that is not stored, except where the deletion came between a writer's look at the
\* account and its write (store.go:498, :542, :394, :476).
OrphansAreRaced ==
  /\ \A n \in named : row[n[1]] = None => n \in raced
  /\ \A n \in named : n[2] = "member" /\ ~profile => n \in raced
  /\ current # None /\ row[current] = None => <<current, "current">> \in raced

\* When nothing is under way on an account, its operations were not broken off and no
\* import, quota refresh or command overlapped a removal or migration of it, it is
\* there with its credential, or gone with its projection and every credential that no
\* change of backend left behind: projections, sessions and removals of the daemon may
\* run side by side (accounts.go:1095, :49).
SettledAccountsAreWhole ==
  \A a \in Accounts \ disturbed : (\A s \in Slots : op[s] # None => Acc(s) # a) =>
     IF row[a] # None THEN secret[row[a]][a] # None
     ELSE /\ ~home[a].dir
          /\ \A b \in Backends : secret[b][a] # None => <<b, a>> \in stranded

\* The daemon never leaves tokens in a projection whose credential is deleted, through
\* crashes and failures: a removal takes the projection first, and a projection that
\* waited for it finds no credential (accounts.go:1097, runtime.go:46).
TokensHaveCredential ==
  \A a \in Accounts \ unlocked : home[a].auth # None => secret[DaemonBackend][a] # None

\* A projection of the daemon about to write auth.json does not replace a newer one,
\* unless Codex refreshed the file after it was read or the SecretStore refused
\* the newer one (runtime.go:52, docs/reference.md:305).
ProjectionKeepsNewest ==
  \A s \in Slots : At(s, {"project", "session"}, "auth") /\ ~op[s].excused /\ Acc(s) \notin unlocked
     => home[Acc(s)].auth = None \/ home[Acc(s)].auth <= op[s].token

\* While accounts are stored one of them is current, except for rows whose writer has
\* not looked, or was cut off, after its upsert (importer.go:81, store.go:231).
CurrentWhenStored ==
  current = None => \A a \in Accounts : row[a] # None => a \in unset
=============================================================================
