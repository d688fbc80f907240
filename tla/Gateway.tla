------------------------------ MODULE Gateway ------------------------------
(***************************************************************************)
(* The requests that start sessions, from the connection to the session and  *)
(* back: session/create with its account, session/fork, task/reviewMulti,    *)
(* task/send and session/close.  A connection handles one request after      *)
(* another, connections side by side; a handler is a row of calls on stores  *)
(* and agents, each a step that may fail.  Its answer goes into the outgoing *)
(* queue of the connection, which the events of its sessions share.          *)
(*                                                                           *)
(* The session manager is that of SessionRegistry, seen from its callers: a  *)
(* request about a session resolves it first, which starts its agent again   *)
(* when only its row is left, in the environment of the row.  The projection *)
(* of an account is one step here and several in Accounts.                   *)
(***************************************************************************)
EXTENDS Routing

CONSTANTS Clients,
          Accounts,     \* numbers, as their ids are compared
          Members,      \* of the profile
          Agents,       \* what discovery may find, in its order
          Scopes,       \* scopes of the tokens in use
          TaskClasses,  \* names that requests give their class
          Capacity,     \* room of a connection's queue (512)
          CurrentAtStart, \* accounts one of which is current at first
          FactsAtStart, \* what is known of the accounts at first
          Earlier,      \* sessions of the daemon before, as the accounts they are bound to
          Reports,      \* usage that a refresh may bring
          MaxNow,       \* bound: time
          MaxSessions,  \* bound: sessions
          MaxRequests,  \* bound: requests
          MaxWrites,    \* bound: writes by others
          Changing,     \* bound: accounts that others change
          MaxReviewers  \* bound: agents of one review

ASSUME BoundsOK == /\ Accounts \subseteq Nat \ {0} /\ Members \subseteq Accounts
                   /\ CurrentAtStart \subseteq Accounts /\ Changing \subseteq Accounts
                   /\ IsFiniteSet(Accounts)
                   /\ {Capacity, MaxNow, MaxReviewers} \subseteq Nat \ {0}
                   /\ {MaxSessions, MaxRequests, MaxWrites} \subseteq Nat

Sessions == 1 .. MaxSessions
Methods == {"create", "attach", "fork", "review", "send", "touch", "close"}

ASSUME EarlierOK == \A e \in Earlier : /\ e \in Seq(Accounts \cup {0})
                                      /\ Len(e) <= MaxSessions

VARIABLES
  scope,     \* client.auth
  up,        \* the context of the connection is not cancelled
  out,       \* client.out
  subs,      \* sessions whose events are forwarded to the connection
  owed,      \* owed[c]: requests read less answers written, while it is up (history)
  requests,  \* requests read by all
  h,         \* the handler of the connection
  made,      \* sessions made
  open,      \* sessions with a row that is not marked ended
  env,       \* env[s]: the account whose environment is in the row of s, or 0
  bound,     \* session_accounts: the account of s, or 0
  live,      \* sessions that run
  adrift,    \* those that run on without the registry: MarkEnded failed
  runsAs,    \* runsAs[s]: the account whose environment s runs in, or 0; like the
             \* following history, of the sessions that run
  seen,      \* <<c, s>>: c subscribed to s since it was last started
  hired,     \* sessions made for a review
  reviewing, \* sessions whose review was started
  fate,      \* fate[s]: what a request that subscribes nobody, or failed, made of s
  apart,     \* sessions whose row and whose binding may name different accounts (history)
  stored,    \* accounts with a row
  current,   \* the current account, or 0
  facts,     \* facts[a]: account_quota and account_health
  now,       \* the clock
  writes     \* writes by others

connections == <<scope, up, out, subs, owed, requests>>
rows == <<made, open, env>>
history == <<seen, hired, reviewing, fate>>
runs == <<live, adrift, runsAs, history>>
sessions == <<rows, runs, bound, apart>>
accounts == <<stored, current, facts, now, writes>>
vars == <<connections, h, sessions, accounts>>

\* account, session: what the request is about; gone: the Session in its hands is over;
\* profile: the account is "auto" within it; the rest belongs to the selection and to the
\* review, todo to the fork, too.
Idle == [at |-> "idle", method |-> "none", account |-> 0, session |-> 0, gone |-> FALSE, ok |-> TRUE,
         fresh |-> FALSE, profile |-> FALSE, class |-> "", calm |-> TRUE,
         left |-> {}, best |-> 0, score |-> 0, cur |-> 0, time |-> 0, todo |-> 0]

Init == /\ scope \in [Clients -> Scopes]
        /\ up = [c \in Clients |-> TRUE]
        /\ out = [c \in Clients |-> <<>>]
        /\ subs = [c \in Clients |-> {}]
        /\ owed = [c \in Clients |-> 0] /\ requests = 0
        /\ h = [c \in Clients |-> Idle]
        /\ \E e \in Earlier : /\ made = Len(e) /\ open = 1 .. Len(e)
                              /\ env = [s \in Sessions |-> IF s <= Len(e) THEN e[s] ELSE 0]
        /\ bound = env
        /\ live = {} /\ adrift = {} /\ runsAs = [s \in Sessions |-> 0]
        /\ seen = {} /\ hired = {} /\ reviewing = {} /\ apart = {}
        /\ fate = [s \in Sessions |-> "none"]
        /\ stored = Accounts
        /\ current \in CurrentAtStart
        /\ facts \in FactsAtStart
        /\ now = 1
        /\ writes = 0

At(c, step) == h[c].at = step

\* Its answer is all that is left of a request.
Answer == [Idle EXCEPT !.at = "reply"]

Goto(c, step) == h' = [h EXCEPT ![c] = IF step = "reply" THEN Answer ELSE [@ EXCEPT !.at = step]]
-----------------------------------------------------------------------------
(* A request is read.                                                         *)

\* clientScopeAllows, of these methods: a token for reading may attach.
Allowed(s, method) == s \in {"full", "console"} \/ (s = "console:read" /\ method = "attach")

\* validateSessionCreate: a profile or fresh quota goes with "auto" only.
ValidCreate(account, profile, fresh) == (profile \/ fresh) => account = "auto"

Begin(c, record) ==
  /\ At(c, "idle") /\ up[c]
  /\ requests < MaxRequests
  /\ requests' = requests + 1
  /\ owed' = [owed EXCEPT ![c] = @ + 1]
  /\ h' = [h EXCEPT ![c] = record]
  /\ UNCHANGED <<scope, up, out, subs, sessions, accounts>>

\* A method out of the token's scope, parameters that do not decode or are refused.
Refused(c) == Begin(c, Answer)

\* session/create: with agentId "auto" or a given one, without account, with a given one, or "auto".
Create(c) == \E account \in {"none", "given", "auto"}, agent \in {"codex", "auto"},
                profile, fresh \in BOOLEAN, class \in TaskClasses, a \in Accounts :
  /\ Allowed(scope[c], "create")
  /\ ValidCreate(account, profile, fresh)
  /\ account = "given" /\ agent = "auto" => a \in stored
  /\ LET request == [Idle EXCEPT !.method = "create"] IN
     Begin(c, CASE account = "auto" ->
                     [request EXCEPT !.at = "list", !.profile = profile, !.fresh = fresh,
                                     !.class = TaskClass(class, {}, FALSE, {})]
                [] account = "given" ->
                     [request EXCEPT !.at = IF agent = "auto" THEN "agent" ELSE "project",
                                     !.account = a]
                [] account = "none" -> [request EXCEPT !.at = IF agent = "auto" THEN "agent" ELSE "start"])

\* A request about a session, of any that List has ever shown.
Ask(c, method, step) == \E s \in 1 .. made :
  /\ Allowed(scope[c], method)
  /\ Begin(c, [Idle EXCEPT !.at = step, !.method = method, !.session = s])

Attach(c) == Ask(c, "attach", "resolve")
Fork(c) == Ask(c, "fork", "resolve")
Send(c) == Ask(c, "send", "resolve")

\* session/rollback, task/review, task/steer, approval/reply, task/cancel.
Touch(c) == Ask(c, "touch", "resolve")

Close(c) == Ask(c, "close", "close")

ReviewMulti(c) == \E n \in 1 .. MaxReviewers :
  /\ Allowed(scope[c], "review")
  /\ Begin(c, [Idle EXCEPT !.at = "hire", !.method = "review", !.todo = n])
-----------------------------------------------------------------------------
(* routeAgent.                                                                *)

Candidates(profile) == IF profile THEN stored \cap Members ELSE stored

\* ListAccounts or ProfileAccounts, CurrentAccount, the clock.
List(c) ==
  /\ At(c, "list")
  /\ h' = [h EXCEPT ![c] = [@ EXCEPT !.at = "select", !.left = Candidates(h[c].profile),
                                     !.cur = current, !.time = now]]
  /\ UNCHANGED <<connections, sessions, accounts>>

\* One account of the list, which is in any order: its quota and its health are read.
Weigh(c) == \E a \in h[c].left :
  LET s == Score(facts[a], a = h[c].cur, h[c].class, h[c].time)
      better == h[c].best = 0 \/ Beats(a, s, h[c].best, h[c].score, h[c].cur, h[c].profile)
  IN /\ At(c, "select")
     /\ h' = [h EXCEPT ![c].left = @ \ {a},
                       ![c].best = IF better THEN a ELSE @,
                       ![c].score = IF better THEN s ELSE @]
     /\ UNCHANGED <<connections, sessions, accounts>>

Choose(c) ==
  /\ At(c, "select") /\ h[c].left = {}
  /\ IF h[c].best = 0 THEN Goto(c, "reply")
     ELSE h' = [h EXCEPT ![c] = [@ EXCEPT !.at = "chosen", !.account = h[c].best, !.best = 0, !.score = 0]]
  /\ UNCHANGED <<connections, sessions, accounts>>

\* requireFreshQuota looks at the quota again.
CheckFresh(c) ==
  /\ At(c, "chosen")
  /\ h' = [h EXCEPT ![c] =
             IF h[c].fresh /\ QuotaState(facts[h[c].account].quota, now) # "fresh" THEN Answer
             ELSE [Idle EXCEPT !.at = "agent", !.method = "create", !.account = h[c].account]]
  /\ UNCHANGED <<connections, sessions, accounts>>

\* Discovery: which of the agents answer.  Only an account that was given was looked up
\* before; it may be gone since, as the chosen one may.
Discover(c) == \E found \in SUBSET DOMAIN Agents :
  LET agents == [i \in DOMAIN Agents |-> [Agents[i] EXCEPT !.available = i \in found]]
      account == h[c].account # 0
      agent == RouteAgent(agents, Requirements({}, FALSE, FALSE, FALSE, account),
                          [i \in DOMAIN Agents |-> Agents[i].id], account)
  IN /\ At(c, "agent")
     /\ Goto(c, IF agent = 0 THEN "reply" ELSE IF account THEN "project" ELSE "start")
     /\ UNCHANGED <<connections, sessions, accounts>>
-----------------------------------------------------------------------------
(* session/create after its routing.                                          *)

\* Others who are selecting meanwhile read a changed store.
Disturb(handlers) == [c \in Clients |-> IF handlers[c].at \in {"select", "chosen"}
                                          THEN [handlers[c] EXCEPT !.calm = FALSE] ELSE handlers[c]]

\* runtimeEnvForAccount.
Project(c) == \E ok \in BOOLEAN :
  /\ At(c, "project")
  /\ ok => h[c].account \in stored
  /\ h' = [h EXCEPT ![c].at = IF ok THEN "start" ELSE "health", ![c].ok = ok]
  /\ UNCHANGED <<connections, sessions, accounts>>

\* SaveSession of a new session.
Enter(account) == /\ made < MaxSessions
                  /\ made' = made + 1
                  /\ open' = open \cup {made + 1}
                  /\ env' = [env EXCEPT ![made + 1] = account]

Run(s, account) == /\ live' = live \cup {s}
                   /\ runsAs' = [runsAs EXCEPT ![s] = account]

\* The agent does not start, or SaveSession fails, perhaps after its INSERT.
NotMade(account) == \/ UNCHANGED <<rows, live, runsAs, apart>>
                    \/ /\ Enter(account)
                       /\ apart' = IF account = 0 THEN apart ELSE apart \cup {made + 1}
                       /\ UNCHANGED <<live, runsAs>>

\* Sessions.Create.
Start(c) ==
  /\ At(c, "start")
  /\ \/ /\ Enter(h[c].account) /\ Run(made + 1, h[c].account)
        /\ h' = [h EXCEPT ![c].at = IF h[c].account = 0 THEN "watch" ELSE "health",
                          ![c].session = made + 1, ![c].ok = TRUE]
        /\ UNCHANGED apart
     \/ /\ NotMade(h[c].account)
        /\ h' = [h EXCEPT ![c] = IF h[c].account = 0 THEN Answer
                                 ELSE [@ EXCEPT !.at = "health", !.ok = FALSE]]
  /\ UNCHANGED <<connections, adrift, history, bound, accounts>>

\* recordAccountRouteFailure, clearAccountRouteFailures; an error is only logged.
Health(c) ==
  LET f == facts[h[c].account]
      known == IF h[c].ok THEN [f EXCEPT !.failures = 0, !.failedAt = 0]
                          ELSE [f EXCEPT !.failures = @ + 1, !.failedAt = now]
      after == [h EXCEPT ![c] = IF h[c].ok /\ h[c].method = "create" THEN [@ EXCEPT !.at = "bind"]
                                                                    ELSE Answer]
  IN /\ At(c, "health")
     /\ \/ facts' = [facts EXCEPT ![h[c].account] = known] /\ h' = Disturb(after)
        \/ h' = after /\ UNCHANGED facts
     /\ UNCHANGED <<connections, sessions, stored, current, now, writes>>

\* The request fails, and leaves the session it made without a subscriber.
Dropped(c) == fate' = IF h[c].session \in live /\ ~h[c].gone
                      THEN [fate EXCEPT ![h[c].session] = "dropped"] ELSE fate

\* BindSessionAccount refuses an account that is gone; its failure, perhaps after the
\* row is in, is the request's.
Bind(c) ==
  /\ At(c, "bind")
  /\ \/ /\ h[c].account \in stored
        /\ bound' = [bound EXCEPT ![h[c].session] = h[c].account]
        /\ \/ Goto(c, "watch") /\ UNCHANGED fate
           \/ Goto(c, "reply") /\ Dropped(c)
        /\ UNCHANGED apart
     \/ /\ apart' = apart \cup {h[c].session}
        /\ Goto(c, "reply") /\ Dropped(c)
        /\ UNCHANGED bound
  /\ UNCHANGED <<connections, rows, live, adrift, runsAs, seen, hired, reviewing, accounts>>

\* subscribe: to the Session in hand, which may be over.
Watch(c) ==
  LET s == h[c].session
      lives == s \in live /\ ~h[c].gone
  IN /\ At(c, "watch")
     /\ subs' = IF up[c] /\ lives THEN [subs EXCEPT ![c] = @ \cup {s}] ELSE subs
     /\ seen' = IF lives THEN seen \cup {<<c, s>>} ELSE seen
     /\ Goto(c, IF h[c].method = "review" THEN "review" ELSE "reply")
     /\ UNCHANGED <<scope, up, out, owed, requests, rows, live, adrift, runsAs, hired, reviewing,
                    fate, bound, apart, accounts>>
-----------------------------------------------------------------------------
(* Resolve, and what the requests do with the session.                        *)

\* The Session of s that a handler has in hand is over.
Orphaned(handlers, s) ==
  [c \in Clients |-> IF /\ handlers[c].session = s /\ handlers[c].method # "send"
                        /\ handlers[c].at \in {"health", "bind", "parent", "watch", "review"}
                     THEN [handlers[c] EXCEPT !.gone = TRUE] ELSE handlers[c]]

\* A request goes on with its session, which runs in the environment of account.
Resolved(request, account) ==
  CASE request.method = "attach" -> [request EXCEPT !.at = "watch"]
    [] request.method = "fork" -> [request EXCEPT !.at = "fork", !.account = account]
    [] request.method = "send" -> [request EXCEPT !.at = "send"]
    [] request.method = "touch" -> Answer

\* A live session; or its agent is started again, as its row says; or it does not start, or
\* has ended.  A run that is adrift is no longer the session.
Resolve(c) ==
  LET s == h[c].session IN
  /\ At(c, "resolve")
  /\ \/ /\ s \in live \ adrift
        /\ h' = [h EXCEPT ![c] = Resolved(h[c], runsAs[s])]
        /\ UNCHANGED runs
     \/ /\ s \in open /\ s \notin live \ adrift
        /\ Run(s, env[s])
        /\ adrift' = adrift \ {s}
        /\ seen' = {w \in seen : w[2] # s}
        /\ hired' = hired \ {s} /\ reviewing' = reviewing \ {s}
        /\ fate' = [fate EXCEPT ![s] = IF h[c].method = "attach" THEN "none" ELSE "woken"]
        /\ h' = [Orphaned(h, s) EXCEPT ![c] = Resolved(h[c], env[s])]
     \/ /\ s \notin live \ adrift
        /\ Goto(c, "reply")
        /\ UNCHANGED runs
  /\ UNCHANGED <<connections, rows, bound, apart, accounts>>

\* The agent forks the conversation, in the environment it runs in; the row takes over that
\* of its parent's row, or none when that cannot be read.
ForkNative(c) ==
  LET parent == h[c].session IN
  /\ At(c, "fork")
  /\ \E kept \in {env[parent], 0} :
       \/ /\ Enter(kept) /\ Run(made + 1, h[c].account)
          /\ apart' = IF kept = h[c].account THEN apart ELSE apart \cup {made + 1}
          /\ h' = [h EXCEPT ![c].at = "parent", ![c].session = made + 1, ![c].todo = parent]
       \/ NotMade(kept) /\ Goto(c, "reply")
  /\ UNCHANGED <<connections, adrift, history, bound, accounts>>

\* The fork is bound to the account of its parent, if that is bound, or bound already.
Parent(c) ==
  LET parent == h[c].todo
      fork == h[c].session
  IN /\ At(c, "parent")
     /\ \/ /\ h' = [h EXCEPT ![c].todo = 0, ![c].account = bound[parent],
                             ![c].at = IF bound[parent] = 0 THEN "watch" ELSE "bind"]
           /\ apart' = IF bound[parent] # env[fork] THEN apart \cup {fork} ELSE apart
           /\ UNCHANGED fate
        \/ /\ Goto(c, "reply") /\ Dropped(c)
           /\ apart' = apart \cup {fork}
     /\ UNCHANGED <<connections, rows, live, adrift, runsAs, seen, hired, reviewing, bound, accounts>>

\* The outcome of a Send is charged to the account the session is bound to.
SendPrompt(c) == \E ok \in BOOLEAN :
  /\ At(c, "send")
  /\ h' = [h EXCEPT ![c].at = "whose", ![c].ok = ok]
  /\ UNCHANGED <<connections, sessions, accounts>>

Whose(c) ==
  /\ At(c, "whose")
  /\ \/ /\ bound[h[c].session] # 0
        /\ h' = [h EXCEPT ![c].at = "health", ![c].account = bound[h[c].session]]
     \/ Goto(c, "reply")
  /\ UNCHANGED <<connections, sessions, accounts>>

End(s) == /\ live' = live \ {s} /\ adrift' = adrift \ {s}
          /\ subs' = [c \in Clients |-> subs[c] \ {s}]
          /\ runsAs' = [runsAs EXCEPT ![s] = 0]
          /\ seen' = {w \in seen : w[2] # s}
          /\ hired' = hired \ {s} /\ reviewing' = reviewing \ {s}
          /\ fate' = [fate EXCEPT ![s] = "none"]

\* Close: the registry lets go of s, its row is marked ended, and the agent is closed;
\* without a live session the row is all.
Dissolve(s) == s \in live \ adrift /\ End(s) /\ open' = open \ {s}

\* There is none, or MarkEnded fails, perhaps after the row is written.
Leave(s) == /\ adrift' = adrift \cup ({s} \cap live)
            /\ open' \in {open, open \ {s}}
            /\ UNCHANGED <<live, subs, runsAs, seen, hired, reviewing>>

CloseSession(c) ==
  LET s == h[c].session
  IN /\ At(c, "close")
     /\ \/ Dissolve(s) /\ h' = [Orphaned(h, s) EXCEPT ![c] = Answer]
        \/ Leave(s) /\ Goto(c, "reply") /\ UNCHANGED fate
     /\ UNCHANGED <<scope, up, out, owed, requests, made, env, bound, apart, accounts>>

\* The agent ends; the row stays as it is.
Ends(s) == /\ s \in live
           /\ End(s)
           /\ h' = Orphaned(h, s)
           /\ UNCHANGED <<scope, up, out, owed, requests, rows, bound, apart, accounts>>
-----------------------------------------------------------------------------
(* task/reviewMulti: session after session; an error ends it.                 *)

Hire(c) ==
  /\ At(c, "hire")
  /\ \/ /\ Enter(0) /\ Run(made + 1, 0)
        /\ hired' = hired \cup {made + 1}
        /\ h' = [h EXCEPT ![c].at = "watch", ![c].session = made + 1]
        /\ UNCHANGED apart
     \/ NotMade(0) /\ Goto(c, "reply") /\ UNCHANGED hired
  /\ UNCHANGED <<connections, adrift, seen, reviewing, fate, bound, accounts>>

\* Review of the Session in hand, and on to the next one.
Reviewed(c) ==
  /\ reviewing' = IF h[c].gone THEN reviewing ELSE reviewing \cup ({h[c].session} \cap live)
  /\ h' = [h EXCEPT ![c] = IF h[c].todo = 1 THEN Answer
                           ELSE [Idle EXCEPT !.at = "hire", !.method = "review", !.todo = h[c].todo - 1]]

\* Mutant of Review: a session that cannot review is left alone.
ReviewLeaves(c) ==
  /\ At(c, "review")
  /\ Reviewed(c) \/ (Goto(c, "reply") /\ UNCHANGED reviewing)
  /\ UNCHANGED <<connections, rows, live, adrift, runsAs, seen, hired, fate, bound, apart, accounts>>

Review(c) ==
  /\ At(c, "review")
  /\ Reviewed(c) \/ (Goto(c, "fire") /\ UNCHANGED reviewing)
  /\ UNCHANGED <<connections, rows, live, adrift, runsAs, seen, hired, fate, bound, apart, accounts>>

\* Close, by its id; its error is ignored.
Fire(c) ==
  LET s == h[c].session
  IN /\ At(c, "fire")
     /\ \/ Dissolve(s) /\ h' = [Orphaned(h, s) EXCEPT ![c] = Answer]
        \/ /\ Leave(s) /\ Goto(c, "reply")
           /\ fate' = IF s \in hired THEN [fate EXCEPT ![s] = "kept"] ELSE fate
     /\ UNCHANGED <<scope, up, out, owed, requests, made, env, bound, apart, accounts>>
-----------------------------------------------------------------------------
(* The connection.                                                            *)

\* The connection is given up, and with it its queue and its subscriptions.
GiveUp(c) == /\ up' = [up EXCEPT ![c] = FALSE]
             /\ out' = [out EXCEPT ![c] = <<>>]
             /\ subs' = [subs EXCEPT ![c] = {}]
             /\ owed' = [owed EXCEPT ![c] = 0]

Queue(c, m) == out' = [out EXCEPT ![c] = Append(@, m)] /\ UNCHANGED <<up, subs, owed>>

\* Mutant of Enqueue: a message that finds no room is lost, and that is all.
EnqueueDrops(c, m) == IF up[c] /\ Len(out[c]) < Capacity THEN Queue(c, m)
                                                        ELSE UNCHANGED <<out, up, subs, owed>>

\* Mutant of Enqueue: no bound.
EnqueueAll(c, m) == IF up[c] THEN Queue(c, m) ELSE UNCHANGED <<out, up, subs, owed>>

\* enqueue never blocks: a message without room is lost.
Enqueue(c, m) == CASE ~up[c] -> UNCHANGED <<out, up, subs, owed>>
                   [] up[c] /\ Len(out[c]) < Capacity -> Queue(c, m)
                   [] OTHER -> GiveUp(c)

Reply(c) ==
  /\ At(c, "reply")
  /\ Enqueue(c, "reply")
  /\ h' = [h EXCEPT ![c] = Idle]
  /\ UNCHANGED <<scope, requests, sessions, accounts>>

\* An event of a session on its way to a subscriber.
Notify(c) ==
  /\ subs[c] # {}
  /\ Enqueue(c, "event")
  /\ UNCHANGED <<scope, requests, h, sessions, accounts>>

\* The writer loop.
Write(c) ==
  /\ up[c] /\ out[c] # <<>>
  /\ out' = [out EXCEPT ![c] = Tail(@)]
  /\ owed' = IF Head(out[c]) = "reply" THEN [owed EXCEPT ![c] = @ - 1] ELSE owed
  /\ UNCHANGED <<scope, up, subs, requests, h, sessions, accounts>>

\* The peer is gone, a write fails, the heartbeat is not answered.
Drop(c) == up[c] /\ GiveUp(c) /\ UNCHANGED <<scope, requests, h, sessions, accounts>>
-----------------------------------------------------------------------------
(* What else changes the accounts meanwhile.                                  *)

Others == /\ writes < MaxWrites
          /\ writes' = writes + 1
          /\ h' = Disturb(h)
          /\ UNCHANGED <<connections, rows, runs, apart>>

\* SaveQuota of a refresh.
SaveQuota(a) == \E reported \in Reports :
  /\ Others
  /\ a \in stored
  /\ facts' = [facts EXCEPT ![a].quota = FromUsage(reported, now)]
  /\ UNCHANGED <<bound, stored, current, now>>

\* SetCurrentAccount.
SetCurrent(a) == /\ Others
                 /\ a \in stored
                 /\ current' = a
                 /\ UNCHANGED <<bound, stored, facts, now>>

\* DeleteAccount, with the bindings, the quota and the health of the account.
Remove(a) ==
  /\ Others
  /\ a \in stored
  /\ stored' = stored \ {a}
  /\ bound' = [s \in Sessions |-> IF bound[s] = a THEN 0 ELSE bound[s]]
  /\ facts' = [facts EXCEPT ![a] = [quota |-> NoQuota, failures |-> 0, failedAt |-> 0]]
  /\ IF current # a THEN UNCHANGED current
     ELSE current' \in (IF stored = {a} THEN {0} ELSE stored \ {a})
  /\ UNCHANGED now

Tick == /\ Others
        /\ now < MaxNow
        /\ now' = now + 1
        /\ UNCHANGED <<bound, stored, current, facts>>
-----------------------------------------------------------------------------
Read(c) == \/ Refused(c) \/ Create(c) \/ Attach(c) \/ Fork(c) \/ Send(c) \/ Touch(c)
           \/ Close(c) \/ ReviewMulti(c)
Route(c) == List(c) \/ Weigh(c) \/ Choose(c) \/ CheckFresh(c) \/ Discover(c)
Handle(c) == \/ Project(c) \/ Start(c) \/ Health(c) \/ Bind(c) \/ Watch(c)
             \/ Resolve(c) \/ ForkNative(c) \/ Parent(c) \/ SendPrompt(c) \/ Whose(c) \/ CloseSession(c)
             \/ Hire(c) \/ Review(c) \/ Fire(c)

Next == \/ \E c \in Clients : \/ Read(c) \/ Route(c) \/ Handle(c)
                              \/ Reply(c) \/ Notify(c) \/ Write(c) \/ Drop(c)
        \/ \E s \in Sessions : Ends(s)
        \/ \E a \in Changing : SaveQuota(a) \/ SetCurrent(a) \/ Remove(a)
        \/ Tick

Spec == Init /\ [][Next]_vars
-----------------------------------------------------------------------------
Steps == {"idle", "list", "select", "chosen", "agent", "project", "start", "health", "bind",
          "watch", "resolve", "fork", "parent", "send", "whose", "close", "hire", "review", "fire", "reply"}
Fates == {"none", "woken", "dropped", "kept"}
Used == 0 .. 10000
Facts == [quota : [used : [Windows -> Used], checked : 0 .. MaxNow],
          failures : Nat, failedAt : 0 .. MaxNow]
Handlers == [at : Steps, method : Methods \cup {"none"}, account : Accounts \cup {0},
             session : Sessions \cup {0}, gone : BOOLEAN, ok : BOOLEAN, fresh : BOOLEAN, profile : BOOLEAN,
             class : Classes, calm : BOOLEAN, left : SUBSET Accounts, best : Accounts \cup {0},
             score : Int, cur : Accounts \cup {0}, time : 0 .. MaxNow, todo : Nat]

\* What a refresh and the routes before have left in the database.
ASSUME FactsOK == FactsAtStart \subseteq [Accounts -> Facts]

\* Types, and the room of the queues: a session's pump is never held up by a client.
TypeOK == /\ scope \in [Clients -> Scopes]
          /\ up \in [Clients -> BOOLEAN]
          /\ out \in [Clients -> Seq({"reply", "event"})]
          /\ \A c \in Clients : Len(out[c]) <= Capacity
          /\ subs \in [Clients -> SUBSET live]
          /\ owed \in [Clients -> Int]
          /\ requests \in 0 .. MaxRequests
          /\ h \in [Clients -> Handlers]
          /\ made \in 0 .. MaxSessions
          /\ open \subseteq 1 .. made /\ live \subseteq 1 .. made
          /\ adrift \subseteq live
          /\ {env, runsAs} \subseteq [Sessions -> Accounts \cup {0}]
          /\ bound \in [Sessions -> stored \cup {0}]
          /\ seen \subseteq Clients \X live
          /\ hired \subseteq live /\ reviewing \subseteq live
          /\ fate \in [Sessions -> Fates]
          /\ apart \subseteq 1 .. made
          /\ stored \subseteq Accounts
          /\ current \in stored \cup {0}
          /\ facts \in [Accounts -> Facts]
          /\ now \in 1 .. MaxNow
          /\ writes \in 0 .. MaxWrites

\* The account that "auto" settles on, whatever the order of the list: when nothing was
\* written during the selection, no other has a lower score, and among those with the
\* same score it is the current account, or the one with the smallest id; in a profile
\* the id alone decides (routing.go:142, :349, agent_router.go:243).
ChoiceIsBest ==
  \A c \in Clients : At(c, "chosen") /\ h[c].calm =>
    LET value(a) == Score(facts[a], a = current, h[c].class, now)
        chosen == h[c].account
    IN /\ chosen \in Candidates(h[c].profile)
       /\ \A a \in Candidates(h[c].profile) \ {chosen} :
            \/ value(chosen) < value(a)
            \/ value(chosen) = value(a) /\ chosen = current /\ ~h[c].profile
            \/ value(chosen) = value(a) /\ chosen < a /\ (a # current \/ h[c].profile)

\* The handler that made or attached to the run of s is not yet done with it, or still
\* has to bind s.
InHand(s, steps) == \E c \in Clients : h[c].session = s /\ ~h[c].gone /\ h[c].method # "send"
                                      /\ h[c].at \in steps
Binding(s) == \E c \in Clients : h[c].session = s /\ h[c].method \in {"create", "fork"}
                                 /\ h[c].at \in {"health", "bind", "parent"}

\* No session runs unseen, without its review or under another account than its own, but in
\* these ways.  Who subscribed to it since it was started gets its events while connected;
\* nobody did when a request other than session/attach started it again, or when the
\* request that made it failed after that.  One made for a review reviews, or is closed,
\* unless that Close failed.  It runs in the environment of the account that it is bound
\* to, or that was removed; unless its binding failed, or its row or parent was not bound
\* when it was written or forked.  A run that is adrift and overtaken by another of its
\* session is none of the session's any more (router.go:265, :281, :311, :392, review_multi.go:36,
\* manager.go:168, :335).
StraysAreNamed ==
  \A s \in live :
    /\ \/ \E c \in Clients : <<c, s>> \in seen
       \/ fate[s] \in {"woken", "dropped"}
       \/ InHand(s, {"health", "bind", "parent", "watch"})
    /\ \A c \in Clients : <<c, s>> \in seen /\ up[c] => s \in subs[c]
    /\ s \in hired => s \in reviewing \/ fate[s] = "kept" \/ InHand(s, {"watch", "review", "fire"})
    /\ bound[s] = runsAs[s] \/ (bound[s] = 0 /\ runsAs[s] \notin stored) \/ s \in apart \/ Binding(s)

\* A client whose connection is up is owed no answer but those in its queue and the one
\* its handler is working on: an answer that is lost takes the connection with it (ws.go:27).
Replies(c) == Cardinality({i \in DOMAIN out[c] : out[c][i] = "reply"})
AnswersArrive ==
  \A c \in Clients : up[c] =>
    owed[c] = Replies(c) + (IF At(c, "idle") THEN 0 ELSE 1)
=============================================================================
