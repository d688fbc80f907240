----------------------------- MODULE MCReadiness -----------------------------
(* Two accounts; a refresh finds their quota almost unused or used up, below and above *)
(* the score of an account whose quota is not known.  The store is empty at first, or  *)
(* holds one account whose quota is fresh, in the store of the shell, while doctor is   *)
(* to have the other, which is locked: that takes the most rounds.                      *)
EXTENDS Readiness, TLC

MCReports == {[w \in {"primary"} |-> 1000], [w \in {"primary"} |-> 9000]}

Empty == [shell : {"native"}, options : Options, backend : {[a \in Accounts |-> "none"]},
          held : {{}}, locked : {{}}, quota : {[a \in Accounts |-> NoQuota]}, current : {0}]

Astray == [shell |-> "native", options |-> [require |-> "file", verify |-> FALSE, promptFree |-> FALSE],
           backend |-> [a \in Accounts |-> IF a = 1 THEN "native" ELSE "none"],
           held |-> {<<"native", 1>>}, locked |-> {"file"},
           quota |-> [a \in Accounts |-> IF a = 1 THEN FromUsage([w \in {"primary"} |-> 1000], Now) ELSE NoQuota],
           current |-> 1]

MCStarts == Empty \cup {Astray}
=============================================================================
