----------------------------- MODULE Readiness -----------------------------
(***************************************************************************)
(* Readiness: the checks that tell whether Codex accounts can be used, and   *)
(* the repair plans that say what to do if not.  There are three checks, of  *)
(* the same accounts through different eyes: accounts/check of the daemon,   *)
(* capd doctor and capd accounts codex smoke of the shell, each with the     *)
(* SecretStore backend of its process.  A repair plan is followed by hand,   *)
(* or by capd repair run, which leaves the manual steps out; meanwhile the   *)
(* world may change under it.                                                *)
(***************************************************************************)
EXTENDS Routing

CONSTANTS Accounts,     \* that there are to import; numbers, as their ids are compared
          Reports,      \* usage that a refresh may bring
          Starts,       \* what may be found at first: the shell and the store, and the
                        \* options that doctor is used with
          LiveBackend,  \* LIVE_SECRET_BACKEND of the Makefile
          MaxFaults     \* bound: changes from outside

Backends == {"file", "native"}

ASSUME AccountsOK == /\ Accounts \subseteq Nat \ {0} /\ IsFiniteSet(Accounts)
                     /\ LiveBackend \in Backends /\ MaxFaults \in Nat

VARIABLES
  up,       \* the daemon runs
  daemon,   \* its backend
  shell,    \* CAPD_SECRET_BACKEND of the shell
  codex,    \* the Codex CLI is installed
  online,   \* the quota service answers
  backend,  \* backend[a]: that of the row of a, or "none" without a row
  held,     \* <<b, a>>: store b holds the credential of a
  locked,   \* backends that refuse access
  wedged,   \* accounts whose runtime directory cannot be projected
  quota,    \* cached quota
  current,  \* the current account, or 0
  options,  \* of doctor
  plan,     \* the steps of the plan that are left
  mode,     \* how it is followed
  ran,      \* what the runner has reported: whether all succeeded, whether it left any out
  calm,     \* nothing changed from outside since the plan was made (history)
  rounds,   \* plans of doctor in a row followed to the end since then, up to four (history)
  faults    \* changes from outside

processes == <<up, daemon, shell, codex, online>>
store == <<backend, held, locked, wedged, quota, current>>
world == <<processes, store>>
progress == <<mode, ran, calm, rounds, faults>>
vars == <<world, options, plan, progress>>

\* Time stands still: a snapshot is of now, or too old.
Now == FreshTTL + 2
Past == 1
Brought == {FromUsage(r, Now) : r \in Reports}
Quotas == {NoQuota} \cup Brought \cup {FromUsage(r, Past) : r \in Reports}

\* What is required or is a step's: a backend, or "any" when none is named.
Named == Backends \cup {"any"}

Gates == [refresh : BOOLEAN, multiple : BOOLEAN, fresh : BOOLEAN, all : BOOLEAN,
          require : Named]
Options == [require : Named, verify : BOOLEAN, promptFree : BOOLEAN]

\* A store that was used before, or is empty.
ASSUME StartsOK ==
  \A s \in Starts :
    /\ s.shell \in Backends /\ s.options \in Options
    /\ s.backend \in [Accounts -> Backends \cup {"none"}]
    /\ s.held \subseteq Backends \X Accounts /\ s.locked \subseteq Backends
    /\ s.quota \in [Accounts -> Quotas]
    /\ s.current \in {a \in Accounts : s.backend[a] # "none"} \cup {0}

Init == /\ up = FALSE /\ codex = TRUE /\ online = TRUE
        /\ \E s \in Starts :
             /\ shell = s.shell /\ daemon = s.shell /\ options = s.options
             /\ backend = s.backend /\ held = s.held /\ locked = s.locked
             /\ quota = s.quota /\ current = s.current
        /\ wedged = {}
        /\ plan = <<>> /\ mode = "none" /\ ran = [ok |-> TRUE, skipped |-> FALSE]
        /\ calm = TRUE /\ rounds = 0 /\ faults = 0
-----------------------------------------------------------------------------
(* What the checks look at.                                                   *)

Stored == {a \in Accounts : backend[a] # "none"}
Several == Cardinality(Stored) >= 2

\* EnsureRefBackend and Get through the store b.
Opens(b, a) == backend[a] = b /\ b \notin locked /\ <<b, a>> \in held

IsFresh(a, q) == QuotaState(q[a], Now) = "fresh"

\* SelectQuotaRouteAccount.
AutoRoute(q) ==
  LET value == [a \in Stored |-> Score([quota |-> q[a], failures |-> 0, failedAt |-> 0], a = current, "", Now)]
  IN CHOOSE a \in Stored : \A b \in Stored \ {a} : Beats(a, value[a], b, value[b], current, FALSE)
AutoFresh(q) == Stored # {} /\ IsFresh(AutoRoute(q), q)

\* A quota refresh of all, account by account in the order of their ids, until one fails.
Unrefreshable(b) == {a \in Stored : ~Opens(b, a) \/ ~online}
Refreshed(b) ==
  LET reached == {a \in Stored : \A x \in Unrefreshable(b) : a < x}
  IN {[a \in Accounts |-> IF a \in reached THEN q[a] ELSE quota[a]] : q \in [reached -> Brought]}
-----------------------------------------------------------------------------
(* accounts/check, with the quotas q it leaves behind.                        *)

\* checkAccount: of the accounts in the order of their ids, up to one that fails.
Unusable(b) == {a \in Stored : ~Opens(b, a) \/ a \in wedged}
Rows == LET failing == Unusable(daemon)
        IN [a \in {x \in Stored : \A y \in failing : x <= y} |->
              [opens |-> Opens(daemon, a), ready |-> a \notin failing]]

\* Mutant of CachedRows: what was not looked at passes for readable.
CachedRowsReadable == [a \in Stored |-> [opens |-> TRUE, ready |-> FALSE]]

\* baseAccountCheckEvidence: no credential was looked at.
CachedRows == [a \in Stored |-> [opens |-> FALSE, ready |-> FALSE]]

\* The preflight, the refresh: up to there the rows are the cached ones.
FailsEarly(p) == \/ p.require \notin {"any", daemon}
                 \/ p.refresh /\ (Stored = {} \/ Unrefreshable(daemon) # {})

\* validateAccountsCheckResult.
ResultRefused(p, q) == \/ p.multiple /\ ~Several
                       \/ (p.fresh \/ p.all) /\ Stored = {}
                       \/ p.fresh /\ ~AutoFresh(q)
                       \/ p.all /\ \E a \in Stored : ~IsFresh(a, q)

CheckFails(p, q) == FailsEarly(p) \/ Unusable(daemon) # {} \/ ResultRefused(p, q)

Evidence(p) == IF FailsEarly(p) THEN CachedRows ELSE Rows
FreshRows(p, q) == {a \in DOMAIN Evidence(p) : IsFresh(a, q)}

\* accountsCheckSummary.
Ready(p, q) ==
  LET rows == Evidence(p) IN
  /\ Stored # {} /\ DOMAIN rows = Stored
  /\ p.require \in {"any", daemon}
  /\ \A a \in DOMAIN rows : rows[a].opens /\ rows[a].ready
  /\ p.multiple => Several
  /\ p.fresh => AutoFresh(q)
  /\ p.all => FreshRows(p, q) = Stored
-----------------------------------------------------------------------------
(* Repair plans: of the steps that may be worth it, those that are.           *)

May(id, b, wanted) == IF wanted THEN <<[id |-> id, backend |-> b]>> ELSE <<>>

\* Any plan ends with the live preflight.
Worth(steps) == IF steps = <<>> THEN <<>>
                ELSE Append(steps, [id |-> "final", backend |-> LiveBackend])

\* accountsCheckRepairPlan.
CheckPlan(p, q) ==
  LET b == IF p.require = "any" THEN daemon ELSE p.require
      rows == Evidence(p)
  IN IF Ready(p, q) THEN <<>> ELSE Worth(
          May("restart", p.require, p.require \notin {"any", daemon})
       \o May("import", "any", ~Several)
       \o May("secretstore", b, \E a \in DOMAIN rows : ~rows[a].opens)
       \o May("refresh", b, Stored # {} /\ (FreshRows(p, q) # Stored \/ ~AutoFresh(q) \/ p.fresh \/ p.all))
       \o May("preview", "any", p.fresh /\ ~AutoFresh(q)))

\* doctor asks the daemon for this check only.
Plain(require) == [refresh |-> FALSE, multiple |-> FALSE, fresh |-> FALSE, all |-> FALSE,
                   require |-> require]

\* Mutant of DaemonRefuses: doctor does not ask the daemon.
DaemonUnasked(o) == FALSE

DaemonRefuses(o) == up /\ CheckFails(Plain(o.require), quota)

\* buildDoctorReport: each of these is an issue.  A prompt-free doctor opens no credential.
DoctorOK(o) ==
  /\ up /\ codex
  /\ o.require \in {"any", shell}
  /\ o.verify => ~o.promptFree /\ shell \notin locked
  /\ Several
  /\ o.promptFree \/ \A a \in Stored : Opens(shell, a)
  /\ \A a \in Stored : IsFresh(a, quota)
  /\ AutoFresh(quota)
  /\ ~DaemonRefuses(o)

Target(o) == IF o.require = "any" THEN shell ELSE o.require

\* Mutant of DoctorPlan: one account is enough.
DoctorPlanOfOne(o) ==
  IF DoctorOK(o) THEN <<>> ELSE Worth(
       May("start", o.require, ~up)
    \o May("align", o.require, o.require \notin {"any", shell})
    \o May("import", "any", Stored = {})
    \o May("secretstore", Target(o), ~o.promptFree /\ \E a \in Stored : ~Opens(shell, a))
    \o May("refresh", Target(o), Stored # {} /\ ((\E a \in Stored : ~IsFresh(a, quota)) \/ ~AutoFresh(quota))))

\* Mutant of DoctorPlan: quota is refreshed when the route is stale only.
DoctorPlanByRoute(o) ==
  IF DoctorOK(o) THEN <<>> ELSE Worth(
       May("start", o.require, ~up)
    \o May("align", o.require, o.require \notin {"any", shell})
    \o May("import", "any", ~Several)
    \o May("secretstore", Target(o), ~o.promptFree /\ \E a \in Stored : ~Opens(shell, a))
    \o May("refresh", Target(o), Stored # {} /\ ~AutoFresh(quota)))

\* doctorRepairPlan.
DoctorPlan(o) ==
  IF DoctorOK(o) THEN <<>> ELSE Worth(
       May("start", o.require, ~up)
    \o May("align", o.require, o.require \notin {"any", shell})
    \o May("import", "any", ~Several)
    \o May("secretstore", Target(o), ~o.promptFree /\ \E a \in Stored : ~Opens(shell, a))
    \o May("refresh", Target(o), Stored # {} /\ ((\E a \in Stored : ~IsFresh(a, quota)) \/ ~AutoFresh(quota))))

\* Classify: commands with a placeholder, of a daemon in the foreground or of the shell
\* itself are for the user, and so is the live preflight unless it is included.
Runnable(id, final) == id \in {"secretstore", "refresh", "preview"} \/ (id = "final" /\ final)
-----------------------------------------------------------------------------
(* The smoke check, of a shell with backend b; refreshed: its --quota has been done.    *)

SmokePasses(b, p, q) ==
  /\ Stored # {}
  /\ p.multiple => Several
  /\ p.require \in {"any", b}
  /\ Unusable(b) = {}
  /\ p.refresh => Unrefreshable(b) = {}
  /\ p.all => \A a \in Stored : IsFresh(a, q)
  /\ p.fresh => AutoFresh(q)

Full(require) == [refresh |-> TRUE, multiple |-> TRUE, fresh |-> TRUE, all |-> TRUE, require |-> require]
Strict(require) == [Full(require) EXCEPT !.refresh = FALSE]
-----------------------------------------------------------------------------
(* Making a plan.                                                             *)

Another == IF rounds < 4 THEN rounds + 1 ELSE 4

\* capd doctor, whose plan is followed by hand; capd repair run, which runs it, with or
\* without the live preflight, or by default only shows it.
Diagnose(m) ==
  /\ plan = <<>>
  /\ plan' = IF m = "show" THEN <<>> ELSE DoctorPlan(options)
  /\ mode' = m
  /\ ran' = [ok |-> TRUE, skipped |-> FALSE]
  /\ calm' = TRUE
  /\ rounds' = IF m = "hand" /\ plan' = <<>> THEN Another ELSE rounds
  /\ UNCHANGED <<world, options, faults>>

\* capd accounts check, with all its gates or none.
Inspect(p) ==
  /\ plan = <<>> /\ up
  /\ quota' \in (IF p.refresh /\ p.require \in {"any", daemon} THEN Refreshed(daemon) ELSE {quota})
  /\ plan' = CheckPlan(p, quota')
  /\ mode' = "check"
  /\ calm' = FALSE
  /\ rounds' = 0
  /\ UNCHANGED <<processes, backend, held, locked, wedged, current, options, ran, faults>>
-----------------------------------------------------------------------------
(* Following it.                                                              *)

ByHand == mode \in {"hand", "check"}

\* The next step is done, with its outcome, or left out.
Advance(id, ok, skipped) ==
  /\ plan # <<>> /\ Head(plan).id = id
  /\ plan' = Tail(plan)
  /\ ran' = [ok |-> ran.ok /\ ok, skipped |-> ran.skipped \/ skipped]
  /\ rounds' = IF mode = "hand" /\ calm /\ Tail(plan) = <<>> THEN Another ELSE rounds
  /\ UNCHANGED <<options, mode, calm, faults>>

Runs(id) == ByHand \/ Runnable(id, mode = "run all")

\* repairrunner.Run passes over what is not runnable.
Skip == \E id \in {"start", "restart", "align", "import", "final"} :
  /\ ~Runs(id)
  /\ Advance(id, TRUE, id # "final")
  /\ UNCHANGED world

\* capd start, in its own terminal; to restart the daemon it is stopped first.
StartDaemon == \E id \in {"start", "restart"} :
  /\ Runs(id)
  /\ Advance(id, TRUE, FALSE)
  /\ up' = TRUE
  /\ daemon' = IF id = "start" /\ up THEN daemon
               ELSE IF Head(plan).backend = "any" THEN shell ELSE Head(plan).backend
  /\ UNCHANGED <<shell, codex, online, store>>

\* export CAPD_SECRET_BACKEND.
AlignShell == /\ Runs("align")
              /\ Advance("align", TRUE, FALSE)
              /\ shell' = Head(plan).backend
              /\ UNCHANGED <<up, daemon, codex, online, store>>

ImportInto(b, accounts) ==
  /\ backend' = [a \in Accounts |-> IF a \in accounts THEN b ELSE backend[a]]
  /\ held' = held \cup ({b} \X accounts)
  /\ current' = IF current = 0 THEN Min(accounts) ELSE current

\* capd accounts import, of enough accounts; the daemon stores them.
ImportAccounts == \E accounts \in SUBSET Accounts :
  LET works == up /\ daemon \notin locked IN
  /\ Runs("import")
  /\ Accounts \ Stored \subseteq accounts /\ accounts # {}
  /\ Advance("import", works, FALSE)
  /\ IF works THEN ImportInto(daemon, accounts) ELSE UNCHANGED <<backend, held, current>>
  /\ UNCHANGED <<processes, locked, wedged, quota>>

\* capd secretstore check --roundtrip tells whether the store works, not more; when it
\* does not, a user grants the access that the report asks for.
CheckStore ==
  LET b == Head(plan).backend IN
  /\ plan # <<>>
  /\ Advance("secretstore", b \notin locked, FALSE)
  /\ locked' = IF ByHand THEN locked \ {b} ELSE locked
  /\ UNCHANGED <<processes, backend, held, wedged, quota, current>>

\* capd accounts check --readiness.
RefreshQuota ==
  LET gate == Full(Head(plan).backend) IN
  /\ plan # <<>>
  /\ quota' \in (IF up /\ gate.require = daemon THEN Refreshed(daemon) ELSE {quota})
  /\ Advance("refresh", up /\ ~CheckFails(gate, quota'), FALSE)
  /\ UNCHANGED <<processes, backend, held, locked, wedged, current>>

\* capd agents route --require-fresh-quota.
PreviewRoute == /\ Advance("preview", AutoFresh(quota), FALSE)
                /\ UNCHANGED world

\* make live-codex-preflight: up to its quota refresh, then its gates.
FinalPreflight ==
  LET b == Head(plan).backend
      begins == /\ SmokePasses(b, [Plain(b) EXCEPT !.multiple = TRUE], quota)
                /\ b \notin locked /\ up /\ daemon = b
  IN /\ plan # <<>> /\ Runs("final")
     /\ quota' \in (IF begins THEN Refreshed(b) ELSE {quota})
     /\ Advance("final", begins /\ codex /\ ~CheckFails(Full(b), quota'), FALSE)
     /\ UNCHANGED <<processes, backend, held, locked, wedged, current>>
-----------------------------------------------------------------------------
(* What changes from outside.                                                 *)

Fault == /\ faults < MaxFaults
         /\ faults' = faults + 1
         /\ rounds' = 0
         /\ calm' = FALSE
         /\ UNCHANGED <<options, plan, mode, ran>>

Stop == Fault /\ up' = FALSE /\ UNCHANGED <<daemon, shell, codex, online, store>>
StartOther == Fault /\ up' = TRUE /\ daemon' \in Backends /\ UNCHANGED <<shell, codex, online, store>>
OtherShell == Fault /\ shell' \in Backends /\ UNCHANGED <<up, daemon, codex, online, store>>
CodexComesOrGoes == Fault /\ codex' = ~codex /\ UNCHANGED <<up, daemon, shell, online, store>>
ServiceComesOrGoes == Fault /\ online' = ~online /\ UNCHANGED <<up, daemon, shell, codex, store>>
LockOrUnlock(b) == /\ Fault
                   /\ locked' \in {locked \cup {b}, locked \ {b}}
                   /\ UNCHANGED <<processes, backend, held, wedged, quota, current>>
Wedge(a) == /\ Fault
            /\ wedged' \in {wedged \cup {a}, wedged \ {a}}
            /\ UNCHANGED <<processes, backend, held, locked, quota, current>>
LoseCredential(b, a) == /\ Fault
                        /\ held' = held \ {<<b, a>>}
                        /\ UNCHANGED <<processes, backend, locked, wedged, quota, current>>
Age(a) == \E r \in Reports : /\ Fault
                             /\ quota[a] = FromUsage(r, Now)
                             /\ quota' = [quota EXCEPT ![a] = FromUsage(r, Past)]
                             /\ UNCHANGED <<processes, backend, held, locked, wedged, current>>

\* capd accounts codex import, into the store of the shell.
ImportLocally(a) == /\ Fault
                    /\ shell \notin locked
                    /\ ImportInto(shell, {a})
                    /\ UNCHANGED <<processes, locked, wedged, quota>>

\* Mutant of Remove: the current account is not looked at.
RemoveOnly(a) == /\ Fault
                 /\ a \in Stored
                 /\ backend' = [backend EXCEPT ![a] = "none"]
                 /\ held' = held \ {<<backend[a], a>>}
                 /\ quota' = [quota EXCEPT ![a] = NoQuota]
                 /\ UNCHANGED <<processes, locked, wedged, current>>

\* capd accounts codex remove.
Remove(a) == /\ Fault
             /\ a \in Stored
             /\ backend' = [backend EXCEPT ![a] = "none"]
             /\ held' = held \ {<<backend[a], a>>}
             /\ quota' = [quota EXCEPT ![a] = NoQuota]
             /\ current' \in (IF current # a THEN {current}
                              ELSE IF Stored = {a} THEN {0} ELSE Stored \ {a})
             /\ UNCHANGED <<processes, locked, wedged>>
-----------------------------------------------------------------------------
Modes == {"hand", "run", "run all", "show"}
Making == \/ \E m \in Modes : Diagnose(m)
          \/ \E p \in {Plain(options.require), Full(Target(options))} : Inspect(p)
Following == \/ Skip \/ StartDaemon \/ AlignShell \/ ImportAccounts \/ CheckStore
             \/ RefreshQuota \/ PreviewRoute \/ FinalPreflight
Faults == \/ Stop \/ StartOther \/ OtherShell \/ CodexComesOrGoes \/ ServiceComesOrGoes
          \/ \E b \in Backends : LockOrUnlock(b)
          \/ \E a \in Accounts : \/ Wedge(a) \/ Age(a) \/ ImportLocally(a) \/ Remove(a)
                                 \/ \E b \in Backends : LoseCredential(b, a)

Next == Making \/ Following \/ Faults

Spec == Init /\ [][Next]_vars
-----------------------------------------------------------------------------
Ids == {"start", "restart", "align", "import", "secretstore", "refresh", "preview", "final"}
Steps == [id : Ids, backend : Named]

\* Types; the current account, if any, is one of those stored, and a plan ends with the
\* live preflight.
TypeOK == /\ {up, codex, online, calm} \subseteq BOOLEAN
          /\ daemon \in Backends /\ shell \in Backends
          /\ backend \in [Accounts -> Backends \cup {"none"}]
          /\ held \subseteq Backends \X Accounts
          /\ locked \subseteq Backends /\ wedged \subseteq Accounts
          /\ quota \in [Accounts -> Quotas]
          /\ current \in Stored \cup {0}
          /\ options \in Options
          /\ plan \in Seq(Steps)
          /\ plan # <<>> => plan[Len(plan)].id = "final"
          /\ mode \in Modes \cup {"none", "check"}
          /\ ran \in [ok : BOOLEAN, skipped : BOOLEAN]
          /\ rounds \in 0 .. 4 /\ faults \in 0 .. MaxFaults

\* The checks agree.  What doctor calls ok the daemon finds ready by its strictest gate,
\* prompt-free or not; when shell and daemon use one backend, a daemon that is up and
\* ready for that gate is also ok for doctor, and the smoke check passes exactly when
\* accounts/check does (server/accounts.go:447, doctor.go:226, accounts.go:984).
Passes(p) == ~CheckFails(p, quota) /\ Ready(p, quota)
VerdictsAgree ==
  /\ \A o \in Options :
       /\ DoctorOK(o) => up /\ codex /\ Passes(Strict(o.require))
       /\ shell = daemon /\ up /\ codex /\ Passes(Strict(o.require)) =>
            (DoctorOK(o) \/ (o.verify /\ o.promptFree))
  /\ shell = daemon /\ Stored # {} =>
       \A p \in Gates : ~p.refresh => (SmokePasses(shell, p, quota) <=> ~CheckFails(p, quota))

Has(steps, id) == \E n \in DOMAIN steps : steps[n].id = id

\* A credential that cannot be opened is what a check stops at; a refresh needs them all.
Shut(p) == \E a \in Stored : /\ ~Opens(daemon, a)
                             /\ p.refresh \/ \A x \in Unusable(daemon) : a <= x

\* For every trouble that a check p met there is the step that is against it, and unless
\* it failed before it looked at the credentials, secretstore is advised for a reason.
Explains(steps, p, q) ==
  /\ steps # <<>> \/ wedged \cap Stored # {}
  /\ p.require \notin {"any", daemon} => Has(steps, "restart")
  /\ ~Several => Has(steps, "import")
  /\ Shut(p) => Has(steps, "secretstore")
  /\ p.fresh /\ ~AutoFresh(q) => Has(steps, "preview") /\ (Stored # {} => Has(steps, "refresh"))
  /\ p.all /\ (\E a \in Stored : ~IsFresh(a, q)) => Has(steps, "refresh")
  /\ Has(steps, "secretstore") /\ ~FailsEarly(p) => \E a \in Stored : ~Opens(daemon, a)

\* accounts/check explains itself.  A failure comes with a plan against all that is known
\* to be wrong, be it by rows that are only cached, but for a runtime directory that cannot
\* be projected; what passes, over any account at all, is ready and so has no plan
\* (server/accounts.go:500, :600).
FailureIsExplained ==
  LET refreshed == Refreshed(daemon) IN
  \A p \in Gates : \A q \in (IF p.refresh /\ p.require \in {"any", daemon} THEN refreshed ELSE {quota}) :
    IF CheckFails(p, q) THEN Explains(CheckPlan(p, q), p, q)
                        ELSE Stored = {} \/ Ready(p, q)

\* What no step of a plan of doctor mends: a missing CLI, a service that is down, a
\* runtime directory, options at odds, a running daemon with another backend, a
\* credential that is lost or in another store; a locked store, if doctor does not try
\* the credentials or there are none.
BeyondPlans ==
  \/ ~codex \/ ~online \/ wedged \cap Stored # {}
  \/ options.verify /\ options.promptFree
  \/ up /\ daemon # Target(options)
  \/ \E a \in Stored : backend[a] # Target(options) \/ <<Target(options), a>> \notin held
  \/ Target(options) \in locked /\ (options.promptFree \/ Stored = {})

\* Plans of doctor followed by hand to their end lead to readiness in at most four rounds,
\* with at least two accounts to import: the daemon is up and the shell aligned after the
\* first, the store opened after the second, the accounts imported after the third and
\* their quota fresh after the fourth.  What is still amiss is beyond plans (doctor.go:531).
FourRoundsSuffice == rounds = 4 /\ plan = <<>> /\ ~BeyondPlans => DoctorOK(options)

\* A repair run that reports success and left out nothing but the live preflight leaves a
\* system that is ready, or that no plan mends (repairrunner/runner.go:26).
RunMeansReady ==
  mode \in {"run", "run all"} /\ plan = <<>> /\ calm /\ ran.ok /\ ~ran.skipped /\ ~BeyondPlans
    => DoctorOK(options)
=============================================================================
