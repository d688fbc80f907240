------------------------------ MODULE Routing ------------------------------
(***************************************************************************)
(* How a request is routed: the agent by its capabilities and the order of   *)
(* preference, the Codex account by the lowest score of its cached quota and *)
(* its recent failures.  Pure functions of what the store holds.             *)
(*                                                                           *)
(* Scores and percentages are in hundredths, so that the tie-break of the    *)
(* current account, 0.01, is 1.  Accounts are numbers: their ids are         *)
(* compared.                                                                 *)
(***************************************************************************)
EXTENDS Integers, Sequences, FiniteSetsExt

CONSTANTS FreshTTL,    \* how long a snapshot is trusted (30 minutes)
          FailureTTL   \* how long a failure counts (24 hours)

ASSUME TTLsOK == FreshTTL \in Nat /\ FailureTTL \in Nat

UnknownScore == 7500
CurrentTieBreak == 1
FailurePenalty == 1000

-----------------------------------------------------------------------------
(* Quota.                                                                     *)

\* conservativePercent: what is not a percentage counts as used up.
Conservative(percent) == IF percent \in 0 .. 10000 THEN percent ELSE 10000

\* QuotaFromUsage: a window that the backend does not report is unused.
Windows == {"primary", "secondary", "code_review"}
FromUsage(reported, now) ==
  [used |-> [w \in Windows |-> IF w \in DOMAIN reported THEN Conservative(reported[w]) ELSE 0],
   checked |-> now]

\* A missing row reads like one that was never checked.
NoQuota == FromUsage(<<>>, 0)

Pressure(q) == Max({q.used[w] : w \in Windows})

\* QuotaSnapshotFresh: neither too old nor from the future.
Fresh(q, now) == q.checked > 0 /\ now - q.checked \in 0 .. FreshTTL

QuotaState(q, now) == IF q.checked = 0 THEN "missing" ELSE IF Fresh(q, now) THEN "fresh" ELSE "stale"
-----------------------------------------------------------------------------
(* The class of a task.                                                       *)

Classes == {"", "review", "long-running", "interactive", "vision"}

\* NormalizeRouteTaskClass.
Normalize(class) ==
  CASE class \in {"code-review", "pr-review", "review"} -> "review"
    [] class \in {"long", "long-running", "long_task", "long-task"} -> "long-running"
    [] class \in {"interactive", "chat", "quick"} -> "interactive"
    [] class \in {"image", "images", "vision"} -> "vision"
    [] OTHER -> ""

\* InferRouteTaskClass.  hints: the classes whose words are in the prompt.
Infer(required, attachments, hints) ==
  CASE "review" \in required -> "review"
    [] "review" \notin required /\ ("images" \in required \/ attachments) -> "vision"
    [] OTHER -> IF "review" \in hints THEN "review"
                ELSE IF "long-running" \in hints THEN "long-running"
                ELSE IF "interactive" \in hints THEN "interactive" ELSE ""

TaskClass(class, required, attachments, hints) ==
  IF Normalize(class) # "" THEN Normalize(class) ELSE Infer(required, attachments, hints)
-----------------------------------------------------------------------------
(* The account.  f: its facts [quota, failures, failedAt].                    *)

\* healthPenalty.
HealthPenalty(f, class, now) ==
  IF f.failures > 0 /\ f.failedAt > 0 /\ now - f.failedAt \in 0 .. FailureTTL
    THEN f.failures * FailurePenalty * (IF class = "interactive" THEN 2 ELSE 1)
    ELSE 0

\* routeTaskClassUnknownPenalty.
UnknownPenalty(class) == IF class \in {"review", "long-running"} THEN 500 ELSE 0

QuotaScore(q, class, now) ==
  IF Fresh(q, now)
    THEN IF class = "review" THEN Max({Pressure(q), q.used["code_review"] + 500}) ELSE Pressure(q)
    ELSE UnknownScore + UnknownPenalty(class)

\* quotaRouteScoreAt.
Score(f, isCurrent, class, now) ==
  QuotaScore(f.quota, class, now) + HealthPenalty(f, class, now)
    - (IF isCurrent THEN CurrentTieBreak ELSE 0)

\* Mutant of TieBeats: the id alone decides.
TieBeatsById(candidate, incumbent, current) == candidate < incumbent

\* routeTieBeats.
TieBeats(candidate, incumbent, current) ==
  IF candidate = current \/ incumbent = current THEN candidate = current /\ incumbent # current
                                                ELSE candidate < incumbent

\* Among the members of a profile the id alone decides.
ProfileTieBeats(candidate, incumbent) == candidate < incumbent

\* Whether a candidate with its score replaces the best so far.
Beats(candidate, score, incumbent, best, current, profile) ==
  \/ score < best
  \/ score = best /\ (IF profile THEN ProfileTieBeats(candidate, incumbent)
                                 ELSE TieBeats(candidate, incumbent, current))
-----------------------------------------------------------------------------
(* The agent.                                                                 *)

Capabilities == {"model", "effort", "streaming", "approvals", "steer", "fork", "rollback",
                 "review", "images", "usage", "resume"}

\* routeRequirements, and what an account requires.
Requirements(given, model, effort, attachments, account) ==
  given \cup (IF model THEN {"model"} ELSE {}) \cup (IF effort THEN {"effort"} ELSE {})
        \cup (IF attachments THEN {"images"} ELSE {})
        \cup (IF account THEN {"usage", "resume"} ELSE {})

\* hasCapabilities, of an agent that is available.
Eligible(agent, required) == agent.available /\ required \subseteq agent.capabilities

\* routeScore.
AgentScore(agent, prefer) ==
  Cardinality(agent.capabilities)
    + (IF \E i \in DOMAIN prefer : prefer[i] = agent.id
         THEN 1001 - Min({i \in DOMAIN prefer : prefer[i] = agent.id}) ELSE 0)

\* The first of the agents with the highest score, or 0.  With an account it is Codex.
RouteAgent(agents, required, prefer, account) ==
  LET eligible == {i \in DOMAIN agents : /\ Eligible(agents[i], required)
                                         /\ account => agents[i].id = "codex"}
      best == {i \in eligible : \A j \in eligible :
                 AgentScore(agents[i], prefer) >= AgentScore(agents[j], prefer)}
  IN IF eligible = {} THEN 0 ELSE Min(best)
=============================================================================
