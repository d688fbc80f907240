------------------------------ MODULE MCGateway ------------------------------
(* Two connections with two requests and two sessions, two accounts, both in the profile; *)
(* a write by others, and one event or answer that fits a queue.                          *)
EXTENDS Gateway, TLC

Symmetry == Permutations(Clients)

Known(p, s, r) == FromUsage([w \in Windows |-> CASE w = "primary" -> p [] w = "secondary" -> s [] OTHER -> r], 1)
\* One with little quota used and a failure, one without: a tie for a
\* review, as the latter is current.
MCFactsAtStart == {<<[quota |-> Known(1000, 0, 0), failures |-> 1, failedAt |-> 1],
                     [quota |-> Known(0, 1000, 1501), failures |-> 0, failedAt |-> 0]>>}
\* The daemon before left one session of the first account.
MCEarlier == {<<1>>}
MCReports == {[w \in {"primary"} |-> 9000]}
MCAgents == <<[id |-> "codex", available |-> TRUE, capabilities |-> {"usage", "resume", "review"}],
              [id |-> "gemini", available |-> TRUE, capabilities |-> {"review"}]>>
=============================================================================
