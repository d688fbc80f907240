--------------------------- MODULE GatewayProofs ---------------------------
(***************************************************************************)
(* What holds of Gateway for every number of connections, accounts and       *)
(* sessions and every room of the queues, checked by TLAPS.                  *)
(*                                                                           *)
(*   Types, Shapes     TypeOK, with what a handler holds at each step        *)
(*   AnswersArrive     is inductive relative to them                         *)
(*   Good              StraysAreNamed, with who is at work on a session      *)
(*   Selections        ChoiceIsBest, with what a selection has seen so far   *)
(***************************************************************************)
EXTENDS Gateway, FiniteSetTheorems, FunctionTheorems, SequenceTheorems, TLAPS

\* The parts of TypeOK.
ConnectionTypes == /\ scope \in [Clients -> Scopes]
                   /\ up \in [Clients -> BOOLEAN]
                   /\ out \in [Clients -> Seq({"reply", "event"})]
                   /\ \A c \in Clients : Len(out[c]) <= Capacity
                   /\ subs \in [Clients -> SUBSET live]
                   /\ owed \in [Clients -> Int]
                   /\ requests \in 0 .. MaxRequests
HandlerTypes == h \in [Clients -> Handlers]
SessionTypes == /\ made \in 0 .. MaxSessions
                /\ open \subseteq 1 .. made /\ live \subseteq 1 .. made
                /\ adrift \subseteq live
                /\ {env, runsAs} \subseteq [Sessions -> Accounts \cup {0}]
                /\ bound \in [Sessions -> stored \cup {0}]
                /\ seen \subseteq Clients \X live
                /\ hired \subseteq live /\ reviewing \subseteq live
                /\ fate \in [Sessions -> Fates]
                /\ apart \subseteq 1 .. made
AccountTypes == /\ stored \subseteq Accounts
                /\ current \in stored \cup {0}
                /\ facts \in [Accounts -> Facts]
                /\ now \in 1 .. MaxNow
                /\ writes \in 0 .. MaxWrites
Types == ConnectionTypes /\ HandlerTypes /\ SessionTypes /\ AccountTypes

\* TypeOK is their conjunction.
LEMMA TypeParts == TypeOK <=> Types
  BY DEF TypeOK, Types, ConnectionTypes, HandlerTypes, SessionTypes, AccountTypes

\* What the step of a handler says of what it holds.
Shape(r) == /\ r.session <= made
            /\ r.at \in {"resolve", "fork", "parent", "send", "whose", "close", "bind", "watch", "review", "fire"}
                 => r.session > 0
            /\ r.at = "health" /\ r.method = "create" => (r.ok <=> r.session > 0)
            /\ r.at = "health" => r.method \in {"create", "send"}
            /\ r.at = "bind" => r.method \in {"create", "fork"}
            /\ r.at = "parent" => r.todo \in 1 .. made
            /\ r.at \in {"agent", "project", "start"} => r.method = "create" /\ r.session = 0
            /\ r.at = "resolve" => r.method \in {"attach", "fork", "send", "touch"}
            /\ r.at \in {"fork", "parent"} => r.method = "fork"
            /\ r.at = "watch" => r.method # "send"
            /\ r.at \in {"send", "whose"} => r.method = "send"
            /\ r.at \in {"hire", "review", "fire"} => r.method = "review"
            /\ r.method = "review" => r.todo > 0
            /\ r.at = "list" => r.best = 0
            /\ r.gone => r.at \in {"health", "bind", "parent", "watch", "review", "fire"}
Shapes == \A c \in Clients : Shape(h[c])
-----------------------------------------------------------------------------
(* Scores.                                                                    *)

\* The largest of three numbers is one of them.
LEMMA MaxOfThree ==
  ASSUME NEW x \in Int, NEW y \in Int, NEW z \in Int
  PROVE  Max({x, y, z}) \in Int /\ Max({x, y, z}) \in {x, y, z}
<1>1. \E m \in {x, y, z} : \A n \in {x, y, z} : m >= n
  <2>1. CASE x >= y /\ x >= z
    BY <2>1
  <2>2. CASE y >= x /\ y >= z
    BY <2>2
  <2>3. CASE z >= x /\ z >= y
    BY <2>3
  <2> QED
    BY <2>1, <2>2, <2>3
<1>2. Max({x, y, z}) \in {x, y, z}
  BY <1>1 DEF Max
<1> QED
  BY <1>2

\* Scores can be compared.
LEMMA ScoreType ==
  ASSUME NEW f \in Facts, NEW isCurrent \in BOOLEAN, NEW class \in Classes, NEW time \in 0 .. MaxNow
  PROVE  Score(f, isCurrent, class, time) \in Int
<1>1. /\ f.quota.used["primary"] \in Int /\ f.quota.used["secondary"] \in Int
      /\ f.quota.used["code_review"] \in Int
      /\ f.failures \in Int
  <2>1. f.quota \in [used : [Windows -> Used], checked : 0 .. MaxNow] /\ f.failures \in Int
    BY DEF Facts
  <2>2. f.quota.used \in [Windows -> Used]
    BY <2>1
  <2>3. f.quota.used["primary"] \in Used /\ f.quota.used["secondary"] \in Used /\ f.quota.used["code_review"] \in Used
    BY <2>2 DEF Windows
  <2>4. Used \subseteq Int
    BY DEF Used
  <2> QED
    BY <2>1, <2>3, <2>4
<1>2. Pressure(f.quota) \in Int
  <2>1. {f.quota.used[w] : w \in Windows}
          = {f.quota.used["primary"], f.quota.used["secondary"], f.quota.used["code_review"]}
    BY DEF Windows
  <2> QED
    BY <1>1, <2>1, MaxOfThree DEF Pressure
<1>3. QuotaScore(f.quota, class, time) \in Int
  <2>1. Max({Pressure(f.quota), f.quota.used["code_review"] + 500}) \in Int
    <3>1. {Pressure(f.quota), f.quota.used["code_review"] + 500}
            = {Pressure(f.quota), f.quota.used["code_review"] + 500, f.quota.used["code_review"] + 500}
      OBVIOUS
    <3>2. f.quota.used["code_review"] + 500 \in Int
      BY <1>1
    <3> QED
      BY <1>2, <3>1, <3>2, MaxOfThree
  <2> QED
    BY <1>2, <2>1 DEF QuotaScore, UnknownScore, UnknownPenalty
<1>4. HealthPenalty(f, class, time) \in Int
  BY <1>1 DEF HealthPenalty, FailurePenalty
<1> QED
  BY <1>3, <1>4 DEF Score, CurrentTieBreak
-----------------------------------------------------------------------------
(* Handlers.                                                                  *)

\* The class of a request is one of those that scores know.
LEMMA ClassType ==
  ASSUME NEW class
  PROVE  TaskClass(class, {}, FALSE, {}) \in Classes
<1>1. Normalize(class) \in Classes
  BY DEF Normalize, Classes
<1>2. Infer({}, FALSE, {}) = ""
  BY DEF Infer
<1> QED
  BY <1>1, <1>2 DEF TaskClass, Classes

\* A handler at rest, and one that only answers.
LEMMA RestTypes ==
  /\ Idle \in Handlers /\ Answer \in Handlers /\ Answer.at = "reply"
  /\ Answer.method = "none" /\ Answer.session = 0 /\ Answer.account = 0
  /\ Idle.at = "idle" /\ Idle.method = "none" /\ Idle.session = 0 /\ Idle.best = 0 /\ Idle.todo = 0
  /\ Idle.account = 0 /\ Idle.gone = FALSE /\ Answer.gone = FALSE
<1>1. Idle \in Handlers
  BY BoundsOK DEF Idle, Handlers, Steps, Methods, Classes
<1> QED
  BY <1>1 DEF Idle, Answer, Handlers, Steps

\* The handler of one connection becomes r.
Sets(c, r) == h' = [h EXCEPT ![c] = r]

\* The types stay when it does.
LEMMA SetsKeeps ==
  ASSUME HandlerTypes, Shapes, made \in Nat, made' \in Nat, made' >= made, NEW c \in Clients,
         NEW r \in Handlers, Sets(c, r), Shape(r)'
  PROVE  HandlerTypes' /\ Shapes' /\ h'[c] = r /\ \A d \in Clients \ {c} : h'[d] = h[d]
<1>1. HandlerTypes' /\ h'[c] = r /\ \A d \in Clients \ {c} : h'[d] = h[d]
  BY DEF HandlerTypes, Sets
<1>2. ASSUME NEW d \in Clients
      PROVE  \E q \in Handlers : h'[d] = q /\ Shape(q)'
  <2>1. CASE d = c
    BY <1>1, <2>1
  <2>2. CASE d # c
    <3>1. PICK q \in Handlers : q = h[d] /\ Shape(q) /\ h'[d] = q
      BY <1>1, <2>2 DEF HandlerTypes, Shapes
    <3>2. q.session \in Int /\ q.todo \in Int
      BY DEF Handlers, Sessions
    <3> QED
      BY <3>1, <3>2 DEF Shape
  <2> QED
    BY <2>1, <2>2
<1> QED
  BY <1>1, <1>2 DEF Shapes, Shape

\* Going on to another step keeps what is at hand; an answer drops it.
LEMMA GotoSets ==
  ASSUME HandlerTypes, NEW c \in Clients, NEW step \in Steps, Goto(c, step)
  PROVE  \E r \in Handlers :
           /\ Sets(c, r) /\ r.at = step
           /\ IF step = "reply" THEN r = Answer
              ELSE /\ r.method = h[c].method /\ r.account = h[c].account /\ r.session = h[c].session
                   /\ r.ok = h[c].ok /\ r.todo = h[c].todo /\ r.best = h[c].best /\ r.gone = h[c].gone
<1>1. CASE step = "reply"
  BY <1>1, RestTypes DEF Goto, Sets
<1>2. CASE step # "reply"
  <2> DEFINE r == [h[c] EXCEPT !.at = step]
  <2>1. h[c] \in Handlers
    BY DEF HandlerTypes
  <2>2. r \in Handlers /\ r.at = step /\ r.method = h[c].method /\ r.account = h[c].account
        /\ r.session = h[c].session /\ r.ok = h[c].ok /\ r.todo = h[c].todo /\ r.best = h[c].best
        /\ r.gone = h[c].gone
    BY <2>1 DEF Handlers
  <2>3. Sets(c, r)
    BY <1>2 DEF Goto, Sets, HandlerTypes
  <2> QED
    BY <1>2, <2>2, <2>3
<1> QED
  BY <1>1, <1>2

\* Where a request that is read begins.
Firsts == {"reply", "list", "agent", "project", "start", "resolve", "close", "hire"}

\* A request that is read begins with what its step needs.
LEMMA ReadBegins ==
  ASSUME Types, NEW c \in Clients, Read(c)
  PROVE  \E r \in Handlers : Begin(c, r) /\ Shape(r) /\ r.at \in Firsts /\ (r.method = "review" => r.at = "hire")
<1> USE RestTypes
<1>0. made \in Nat /\ Accounts \subseteq Nat /\ 1 .. made \subseteq Sessions
  BY BoundsOK DEF Types, SessionTypes, Sessions
<1>1. ASSUME Refused(c)
      PROVE  \E r \in Handlers : Begin(c, r) /\ Shape(r) /\ r.at \in Firsts /\ (r.method = "review" => r.at = "hire")
  BY <1>0, <1>1 DEF Refused, Shape, Firsts
<1>2. ASSUME NEW method \in {"attach", "fork", "send", "touch", "close"}, NEW step,
             step = (IF method = "close" THEN "close" ELSE "resolve"), Ask(c, method, step)
      PROVE  \E r \in Handlers : Begin(c, r) /\ Shape(r) /\ r.at \in Firsts /\ (r.method = "review" => r.at = "hire")
  <2>0. PICK s \in 1 .. made : Begin(c, [Idle EXCEPT !.at = step, !.method = method, !.session = s])
    BY <1>2 DEF Ask
  <2> DEFINE r == [Idle EXCEPT !.at = step, !.method = method, !.session = s]
  <2>1. r \in Handlers /\ r.at = step /\ r.method = method /\ r.session = s /\ r.best = 0 /\ r.gone = FALSE
    <3>1. step \in Steps /\ method \in Methods /\ s \in Sessions
      BY <1>0, <1>2 DEF Steps, Methods
    <3> QED
      BY <3>1 DEF Handlers
  <2> HIDE DEF r
  <2>3. Shape(r) /\ r.at \in Firsts /\ r.method # "review"
    BY <1>0, <1>2, <2>1 DEF Shape, Firsts
  <2> QED
    BY <2>0, <2>1, <2>3 DEF r
<1>3. ASSUME ReviewMulti(c)
      PROVE  \E r \in Handlers : Begin(c, r) /\ Shape(r) /\ r.at \in Firsts /\ (r.method = "review" => r.at = "hire")
  <2>1. PICK n \in 1 .. MaxReviewers : Begin(c, [Idle EXCEPT !.at = "hire", !.method = "review", !.todo = n])
    BY <1>3 DEF ReviewMulti
  <2> DEFINE r == [Idle EXCEPT !.at = "hire", !.method = "review", !.todo = n]
  <2>2. n \in Nat /\ n > 0
    BY BoundsOK
  <2>3. r \in Handlers /\ r.at = "hire" /\ r.method = "review" /\ r.session = 0 /\ r.best = 0 /\ r.todo = n /\ r.gone = FALSE
    BY <2>2 DEF Handlers, Steps, Methods
  <2> HIDE DEF r
  <2>4. Shape(r) /\ r.at \in Firsts
    BY <1>0, <2>2, <2>3 DEF Shape, Firsts
  <2> QED
    BY <2>1, <2>3, <2>4 DEF r
<1>4. ASSUME NEW step \in {"agent", "project", "start"}, NEW a \in Accounts \cup {0},
             Begin(c, [Idle EXCEPT !.at = step, !.method = "create", !.account = a])
      PROVE  \E r \in Handlers : Begin(c, r) /\ Shape(r) /\ r.at \in Firsts /\ (r.method = "review" => r.at = "hire")
  <2> DEFINE r == [Idle EXCEPT !.at = step, !.method = "create", !.account = a]
  <2>1. r \in Handlers /\ r.at = step /\ r.method = "create" /\ r.session = 0 /\ r.best = 0 /\ r.gone = FALSE
    BY DEF Handlers, Steps, Methods
  <2> HIDE DEF r
  <2>2. Shape(r) /\ r.at \in Firsts
    BY <1>0, <2>1 DEF Shape, Firsts
  <2> QED
    BY <1>4, <2>1, <2>2 DEF r
<1>5. ASSUME NEW profile \in BOOLEAN, NEW fresh \in BOOLEAN, NEW class \in Classes,
             Begin(c, [Idle EXCEPT !.at = "list", !.method = "create", !.profile = profile, !.fresh = fresh,
                                   !.class = class])
      PROVE  \E r \in Handlers : Begin(c, r) /\ Shape(r) /\ r.at \in Firsts /\ (r.method = "review" => r.at = "hire")
  <2> DEFINE r == [Idle EXCEPT !.at = "list", !.method = "create", !.profile = profile, !.fresh = fresh,
                               !.class = class]
  <2>1. r \in Handlers /\ r.at = "list" /\ r.method = "create" /\ r.session = 0 /\ r.best = 0 /\ r.gone = FALSE
    BY ZenonT(60) DEF Handlers, Steps, Methods
  <2> HIDE DEF r
  <2>2. Shape(r) /\ r.at \in Firsts
    BY <1>0, <2>1 DEF Shape, Firsts
  <2> QED
    BY <1>5, <2>1, <2>2 DEF r
<1>6. CASE Create(c)
  <2>1. PICK account \in {"none", "given", "auto"}, agent \in {"codex", "auto"},
             profile, fresh \in BOOLEAN, class \in TaskClasses, a \in Accounts :
    /\ Allowed(scope[c], "create")
    /\ ValidCreate(account, profile, fresh)
    /\ account = "given" /\ agent = "auto" => a \in stored
    /\ LET request == [Idle EXCEPT !.method = "create"] IN
       Begin(c, CASE account = "auto" ->
                     [request EXCEPT !.at = "list", !.profile = profile, !.fresh = fresh,
                                     !.class = TaskClass(class, {}, FALSE, {})]
                [] account = "given" ->
                     [request EXCEPT !.at = IF agent = "auto" THEN "agent" ELSE "project",
                                     !.account = a]
                [] account = "none" -> [request EXCEPT !.at = IF agent = "auto" THEN "agent" ELSE "start"])
    BY <1>6, Zenon DEF Create
  <2> DEFINE request == [Idle EXCEPT !.method = "create"]
  <2>2. CASE account = "auto"
    <3>1. Begin(c, [request EXCEPT !.at = "list", !.profile = profile, !.fresh = fresh,
                                   !.class = TaskClass(class, {}, FALSE, {})])
      BY <2>1, <2>2
    <3>2. \A k : [request EXCEPT !.at = "list", !.profile = profile, !.fresh = fresh, !.class = k]
            = [Idle EXCEPT !.at = "list", !.method = "create", !.profile = profile, !.fresh = fresh, !.class = k]
      BY ZenonT(60) DEF Idle
    <3> HIDE DEF request
    <3> QED
      BY <1>5, <3>1, <3>2, ClassType
  <2>3. CASE account = "given"
    <3>1. PICK step \in {"agent", "project"} : Begin(c, [request EXCEPT !.at = step, !.account = a])
      BY <2>1, <2>3
    <3>2. [request EXCEPT !.at = step, !.account = a] = [Idle EXCEPT !.at = step, !.method = "create", !.account = a]
      BY DEF Idle
    <3> HIDE DEF request
    <3> QED
      BY <1>4, <3>1, <3>2
  <2>4. CASE account = "none"
    <3>1. PICK step \in {"agent", "start"} : Begin(c, [request EXCEPT !.at = step])
      BY <2>1, <2>4
    <3>2. [request EXCEPT !.at = step] = [Idle EXCEPT !.at = step, !.method = "create", !.account = 0]
      BY ZenonT(60) DEF Idle
    <3> HIDE DEF request
    <3> QED
      BY <1>4, <3>1, <3>2
  <2> QED
    BY <2>2, <2>3, <2>4
<1> QED
  <2>1. CASE Attach(c)
    BY <1>2, <2>1 DEF Attach
  <2>2. CASE Fork(c)
    BY <1>2, <2>2 DEF Fork
  <2>3. CASE Send(c)
    BY <1>2, <2>3 DEF Send
  <2>4. CASE Close(c)
    BY <1>2, <2>4 DEF Close
  <2>5. CASE Touch(c)
    BY <1>2, <2>5 DEF Touch
  <2> QED
    BY <1>1, <1>3, <1>6, <2>1, <2>2, <2>3, <2>4, <2>5 DEF Read
-----------------------------------------------------------------------------
(* Steps that change nothing but a handler.                                   *)

\* A list is read into a selection, which has seen none of it.
LEMMA ListSets ==
  ASSUME Types, Shapes, NEW c \in Clients, List(c)
  PROVE  \E r \in Handlers : /\ Sets(c, r) /\ Shape(r)' /\ r.at = "select" /\ r.best = 0 /\ r.cur = current
                             /\ r.time = now /\ r.left = Candidates(r.profile)
<1>1. h[c] \in Handlers /\ Shape(h[c]) /\ h[c].at = "list" /\ made' = made
  BY DEF Types, HandlerTypes, Shapes, List, At, sessions, rows
<1> DEFINE r == [h[c] EXCEPT !.at = "select", !.left = Candidates(h[c].profile), !.cur = current, !.time = now]
<1>2. Candidates(h[c].profile) \in SUBSET Accounts /\ current \in Accounts \cup {0} /\ now \in 0 .. MaxNow
  BY BoundsOK DEF Types, AccountTypes, Candidates
<1>3. /\ r \in Handlers /\ r.at = "select" /\ r.best = h[c].best /\ r.cur = current /\ r.time = now
      /\ r.left = Candidates(r.profile) /\ r.session = h[c].session /\ r.method = h[c].method /\ r.todo = h[c].todo
      /\ r.gone = h[c].gone
  BY <1>1, <1>2, ZenonT(60) DEF Handlers, Steps
<1>4. Sets(c, r)
  BY DEF List, Sets
<1> HIDE DEF r
<1> QED
  BY <1>1, <1>3, <1>4 DEF Shape

\* One account more is weighed.
LEMMA WeighSets ==
  ASSUME Types, Shapes, NEW c \in Clients, Weigh(c)
  PROVE  \E r \in Handlers, a \in h[c].left :
           LET s == Score(facts[a], a = h[c].cur, h[c].class, h[c].time)
               better == h[c].best = 0 \/ Beats(a, s, h[c].best, h[c].score, h[c].cur, h[c].profile)
           IN /\ Sets(c, r) /\ Shape(r)' /\ h[c].at = "select" /\ r.at = "select" /\ r.left = h[c].left \ {a}
              /\ r.best = (IF better THEN a ELSE h[c].best) /\ r.score = (IF better THEN s ELSE h[c].score)
              /\ r.cur = h[c].cur /\ r.time = h[c].time /\ r.class = h[c].class /\ r.profile = h[c].profile
              /\ r.calm = h[c].calm /\ r.gone = h[c].gone
<1>1. h[c] \in Handlers /\ Shape(h[c]) /\ h[c].at = "select" /\ made' = made
  BY DEF Types, HandlerTypes, Shapes, Weigh, At, sessions, rows
<1>2. PICK a \in h[c].left :
        LET s == Score(facts[a], a = h[c].cur, h[c].class, h[c].time)
            better == h[c].best = 0 \/ Beats(a, s, h[c].best, h[c].score, h[c].cur, h[c].profile)
        IN h' = [h EXCEPT ![c].left = @ \ {a}, ![c].best = IF better THEN a ELSE @,
                          ![c].score = IF better THEN s ELSE @]
  BY Zenon DEF Weigh
<1> DEFINE s == Score(facts[a], a = h[c].cur, h[c].class, h[c].time)
           better == h[c].best = 0 \/ Beats(a, s, h[c].best, h[c].score, h[c].cur, h[c].profile)
<1>3. a \in Accounts /\ s \in Int
  <2>1. h[c].left \subseteq Accounts /\ h[c].class \in Classes /\ h[c].time \in 0 .. MaxNow
    BY <1>1 DEF Handlers
  <2>2. a \in Accounts /\ facts[a] \in Facts
    BY <2>1 DEF Types, AccountTypes
  <2>3. (a = h[c].cur) \in BOOLEAN
    OBVIOUS
  <2> QED
    BY <2>1, <2>2, <2>3, ScoreType
<1>4. h' = [h EXCEPT ![c].left = @ \ {a}, ![c].best = IF better THEN a ELSE @,
                     ![c].score = IF better THEN s ELSE @]
  BY <1>2
<1> HIDE DEF s
<1> HIDE DEF better
<1> DEFINE r == [h[c] EXCEPT !.left = h[c].left \ {a}, !.best = IF better THEN a ELSE h[c].best,
                             !.score = IF better THEN s ELSE h[c].score]
<1>5. /\ r \in Handlers /\ r.at = "select" /\ r.session = h[c].session /\ r.method = h[c].method /\ r.todo = h[c].todo
      /\ r.left = h[c].left \ {a} /\ r.best = (IF better THEN a ELSE h[c].best)
      /\ r.score = (IF better THEN s ELSE h[c].score)
      /\ r.cur = h[c].cur /\ r.time = h[c].time /\ r.class = h[c].class /\ r.profile = h[c].profile
      /\ r.calm = h[c].calm /\ r.gone = h[c].gone
  <2> DEFINE b == IF better THEN a ELSE h[c].best
             v == IF better THEN s ELSE h[c].score
  <2>1. b \in Accounts \cup {0} /\ v \in Int
    BY <1>1, <1>3 DEF Handlers
  <2>2. h[c].left \ {a} \in SUBSET Accounts
    BY <1>1 DEF Handlers
  <2>3. r = [h[c] EXCEPT !.left = h[c].left \ {a}, !.best = b, !.score = v]
    OBVIOUS
  <2> HIDE DEF b, v, r
  <2>4. /\ r \in Handlers /\ r.at = "select" /\ r.session = h[c].session /\ r.method = h[c].method /\ r.todo = h[c].todo
        /\ r.left = h[c].left \ {a} /\ r.best = b /\ r.score = v
        /\ r.cur = h[c].cur /\ r.time = h[c].time /\ r.class = h[c].class /\ r.profile = h[c].profile
        /\ r.calm = h[c].calm /\ r.gone = h[c].gone
    BY <1>1, <2>1, <2>2, <2>3 DEF Handlers
  <2> QED
    BY <2>4 DEF b, v
<1>6. h' = [h EXCEPT ![c] = r]
  BY <1>1, <1>4 DEF Types, HandlerTypes
<1> HIDE DEF r
<1>8. PICK q \in Handlers :
        /\ h' = [h EXCEPT ![c] = q] /\ q.at = "select"
        /\ q.session = h[c].session /\ q.method = h[c].method /\ q.todo = h[c].todo
        /\ q.left = h[c].left \ {a} /\ q.best = (IF better THEN a ELSE h[c].best)
        /\ q.score = (IF better THEN s ELSE h[c].score)
        /\ q.cur = h[c].cur /\ q.time = h[c].time /\ q.class = h[c].class /\ q.profile = h[c].profile
        /\ q.calm = h[c].calm /\ q.gone = h[c].gone
  BY <1>5, <1>6
<1>9. Sets(c, q) /\ Shape(q)'
  BY <1>1, <1>8 DEF Sets, Shape
<1> QED
  BY <1>1, <1>8, <1>9 DEF s, better

\* The selection is over: its best is chosen, or the request is refused.
LEMMA ChooseSets ==
  ASSUME Types, Shapes, NEW c \in Clients, Choose(c)
  PROVE  /\ h[c].at = "select" /\ h[c].left = {}
         /\ \E r \in Handlers :
              /\ Sets(c, r) /\ Shape(r)'
              /\ IF h[c].best = 0 THEN r.at = "reply"
                 ELSE /\ r.at = "chosen" /\ r.account = h[c].best /\ r.calm = h[c].calm /\ r.gone = h[c].gone
                      /\ r.class = h[c].class /\ r.profile = h[c].profile
<1>1. h[c] \in Handlers /\ Shape(h[c]) /\ h[c].at = "select" /\ h[c].left = {} /\ made' = made /\ made \in Nat
  BY BoundsOK DEF Types, HandlerTypes, SessionTypes, Shapes, Choose, At, sessions, rows
<1>2. CASE h[c].best = 0
  <2>1. Goto(c, "reply")
    BY <1>2 DEF Choose
  <2>2. Sets(c, Answer)
    BY <2>1 DEF Goto, Sets
  <2> QED
    BY <1>1, <1>2, <2>2, RestTypes DEF Shape
<1>3. CASE h[c].best # 0
  <2> DEFINE r == [h[c] EXCEPT !.at = "chosen", !.account = h[c].best, !.best = 0, !.score = 0]
  <2>1. Sets(c, r)
    BY <1>3 DEF Choose, Sets, Types, HandlerTypes
  <2>2. /\ r \in Handlers /\ r.at = "chosen" /\ r.account = h[c].best /\ r.calm = h[c].calm /\ r.gone = h[c].gone
        /\ r.class = h[c].class /\ r.profile = h[c].profile
        /\ r.session = h[c].session /\ r.method = h[c].method /\ r.todo = h[c].todo /\ r.gone = h[c].gone
    <3>1. h[c].best \in Accounts \cup {0} /\ "chosen" \in Steps /\ 0 \in Int
      BY <1>1 DEF Handlers, Steps
    <3> QED
      BY <1>1, <3>1 DEF Handlers
  <2> HIDE DEF r
  <2> QED
    BY <1>1, <1>3, <2>1, <2>2 DEF Shape
<1> QED
  BY <1>2, <1>3

\* The steps of a handler that will bind a session, that will subscribe to one, or that has
\* one review.
BindStep(r) == \/ r.at \in {"parent", "bind"}
               \/ r.at = "health" /\ r.method = "create" /\ r.ok
MakeStep(r) == BindStep(r) \/ r.at = "watch"
ReviewStep(r) == r.at \in {"review", "fire"}
Quiet(r) == ~MakeStep(r) /\ ~ReviewStep(r)

\* The steps of a handler that has no session at hand that it made, and what such a step leads to.
Free == {"list", "select", "chosen", "agent", "project", "send", "whose"}
Leads(r) == r.at \in {"agent", "project", "start", "health", "whose", "reply"} /\ Quiet(r)

\* The steps of a free handler that end a selection or follow it.
LEMMA FreeSets ==
  ASSUME Types, Shapes, NEW c \in Clients,
         CheckFresh(c) \/ Discover(c) \/ Project(c) \/ SendPrompt(c) \/ Whose(c)
  PROVE  h[c].at \in Free /\ \E r \in Handlers : Sets(c, r) /\ Shape(r)' /\ Leads(r)
<1> USE RestTypes
<1>1. h[c] \in Handlers /\ Shape(h[c]) /\ made \in Nat
  BY BoundsOK DEF Types, HandlerTypes, SessionTypes, Shapes
<1>2. made' = made
  BY DEF CheckFresh, Discover, Project, SendPrompt, Whose, sessions, rows
<1>3. Shape(Answer)' /\ Leads(Answer)
  <2>1. PICK r \in Handlers : r = Answer
    OBVIOUS
  <2>2. r.at = "reply" /\ r.method = "none" /\ r.session = 0 /\ r.gone = FALSE
    BY <2>1
  <2>3. Shape(r)' /\ Leads(r)
    BY <1>1, <1>2, <2>2 DEF Shape, Leads, Quiet, MakeStep, ReviewStep, BindStep
  <2> QED
    BY <2>1, <2>3 DEF Shape
<1>4. CASE CheckFresh(c)
  <2>1. h[c].at = "chosen"
    BY <1>4 DEF CheckFresh, At
  <2>2. CASE h[c].fresh /\ QuotaState(facts[h[c].account].quota, now) # "fresh"
    <3>1. Sets(c, Answer)
      BY <1>4, <2>2 DEF CheckFresh, Sets
    <3> QED
      BY <1>3, <2>1, <3>1 DEF Free
  <2>3. CASE ~(h[c].fresh /\ QuotaState(facts[h[c].account].quota, now) # "fresh")
    <3> DEFINE r == [Idle EXCEPT !.at = "agent", !.method = "create", !.account = h[c].account]
    <3>1. Sets(c, r)
      BY <1>4, <2>3 DEF CheckFresh, Sets
    <3>2. r \in Handlers /\ r.at = "agent" /\ r.method = "create" /\ r.session = 0 /\ r.gone = FALSE
      BY <1>1 DEF Handlers, Steps, Methods
    <3> HIDE DEF r
    <3> QED
      BY <1>1, <1>2, <2>1, <3>1, <3>2 DEF Shape, Leads, Quiet, MakeStep, ReviewStep, BindStep, Free
  <2> QED
    BY <2>2, <2>3
<1>5. CASE Discover(c)
  <2>1. h[c].at = "agent" /\ \E step \in {"reply", "project", "start"} : Goto(c, step)
    BY <1>5 DEF Discover, At
  <2>2. PICK step \in {"reply", "project", "start"} : Goto(c, step)
    BY <2>1
  <2>3. step \in Steps
    BY DEF Steps
  <2>4. PICK r \in Handlers : /\ Sets(c, r) /\ r.at = step
                              /\ IF step = "reply" THEN r = Answer
                                 ELSE r.method = h[c].method /\ r.session = h[c].session /\ r.gone = h[c].gone
    BY <2>2, <2>3, GotoSets DEF Types
  <2>5. CASE step = "reply"
    BY <1>3, <2>1, <2>4, <2>5 DEF Free
  <2>6. CASE step # "reply"
    BY <1>1, <1>2, <2>1, <2>4, <2>6 DEF Shape, Leads, Quiet, MakeStep, ReviewStep, BindStep, Free
  <2> QED
    BY <2>5, <2>6
<1>6. CASE Project(c)
  <2>1. PICK ok \in BOOLEAN : h' = [h EXCEPT ![c].at = IF ok THEN "start" ELSE "health", ![c].ok = ok]
    BY <1>6 DEF Project
  <2> DEFINE step == IF ok THEN "start" ELSE "health"
             r == [h[c] EXCEPT !.at = step, !.ok = ok]
  <2>2. step \in Steps /\ h[c].at = "project" /\ ((step = "start" /\ ok) \/ (step = "health" /\ ~ok))
    <3>1. (step = "start" /\ ok) \/ (step = "health" /\ ~ok)
      OBVIOUS
    <3>2. "start" \in Steps /\ "health" \in Steps
      BY DEF Steps
    <3> QED
      BY <1>6, <3>1, <3>2 DEF Project, At
  <2>3. h' = [h EXCEPT ![c].at = step, ![c].ok = ok]
    BY <2>1
  <2> HIDE DEF step
  <2>4. r \in Handlers /\ r.at = step /\ r.ok = ok /\ r.method = h[c].method /\ r.session = h[c].session
        /\ r.todo = h[c].todo /\ r.gone = h[c].gone
    BY <1>1, <2>2, ZenonT(60) DEF Handlers
  <2>5. Sets(c, r)
    BY <1>1, <2>3 DEF Sets, Types, HandlerTypes
  <2> HIDE DEF r
  <2> QED
    BY <1>1, <1>2, <2>2, <2>4, <2>5 DEF Shape, Leads, Quiet, MakeStep, ReviewStep, BindStep, Free
<1>7. CASE SendPrompt(c)
  <2>1. PICK ok \in BOOLEAN : h' = [h EXCEPT ![c].at = "whose", ![c].ok = ok]
    BY <1>7 DEF SendPrompt
  <2> DEFINE r == [h[c] EXCEPT !.at = "whose", !.ok = ok]
  <2>2. h[c].at = "send"
    BY <1>7 DEF SendPrompt, At
  <2>3. r \in Handlers /\ r.at = "whose" /\ r.method = h[c].method /\ r.session = h[c].session /\ r.gone = h[c].gone
    <3>1. "whose" \in Steps
      BY DEF Steps
    <3> QED
      BY <1>1, <3>1, ZenonT(60) DEF Handlers
  <2>4. Sets(c, r)
    BY <1>1, <2>1 DEF Sets, Types, HandlerTypes
  <2> HIDE DEF r
  <2> QED
    BY <1>1, <1>2, <2>2, <2>3, <2>4 DEF Shape, Leads, Quiet, MakeStep, ReviewStep, BindStep, Free
<1>8. CASE Whose(c)
  <2>1. h[c].at = "whose"
    BY <1>8 DEF Whose, At
  <2>2. CASE bound[h[c].session] # 0 /\ h' = [h EXCEPT ![c].at = "health", ![c].account = bound[h[c].session]]
    <3> DEFINE a == bound[h[c].session]
               r == [h[c] EXCEPT !.at = "health", !.account = a]
    <3>1. a \in Accounts \cup {0}
      <4>1. h[c].session \in Sessions
        BY <1>1, <2>1 DEF Shape, Handlers
      <4> QED
        BY <4>1 DEF Types, SessionTypes, AccountTypes
    <3>2. Sets(c, r)
      BY <1>1, <2>2 DEF Sets, Types, HandlerTypes
    <3> HIDE DEF a
    <3>3. r \in Handlers /\ r.at = "health" /\ r.method = h[c].method /\ r.session = h[c].session /\ r.gone = h[c].gone
      <4>1. "health" \in Steps
        BY DEF Steps
      <4> QED
        BY <1>1, <3>1, <4>1, ZenonT(60) DEF Handlers
    <3> HIDE DEF r
    <3> QED
      BY <1>1, <1>2, <2>1, <3>2, <3>3 DEF Shape, Leads, Quiet, MakeStep, ReviewStep, BindStep, Free
  <2>3. CASE Goto(c, "reply")
    <3>1. Sets(c, Answer)
      BY <2>3 DEF Goto, Sets
    <3> QED
      BY <1>3, <2>1, <3>1 DEF Free
  <2> QED
    BY <1>8, <2>2, <2>3 DEF Whose
<1> QED
  BY <1>4, <1>5, <1>6, <1>7, <1>8
-----------------------------------------------------------------------------
(* Steps that change the sessions too.                                        *)

\* An answer has no shape to keep.
LEMMA AnswerShape ==
  ASSUME made' \in Nat
  PROVE  Shape(Answer)' /\ Quiet(Answer)
<1>1. PICK r \in Handlers : r = Answer
  BY RestTypes
<1>2. r.at = "reply" /\ r.method = "none" /\ r.session = 0 /\ r.gone = FALSE
  BY <1>1, RestTypes
<1>3. Shape(r)' /\ Quiet(r)
  BY <1>2 DEF Shape, Quiet, MakeStep, BindStep, ReviewStep
<1> QED
  BY <1>1, <1>3 DEF Shape

\* A step that leads to an answer.
LEMMA ReplySets ==
  ASSUME NEW c \in Clients, Goto(c, "reply"), made' \in Nat
  PROVE  \E r \in Handlers : Sets(c, r) /\ Shape(r)' /\ r.at = "reply" /\ Quiet(r)
<1>1. Sets(c, Answer)
  BY DEF Goto, Sets
<1>2. Shape(Answer)' /\ Quiet(Answer)
  BY AnswerShape
<1>3. PICK r \in Handlers : r = Answer
  BY RestTypes
<1>4. Sets(c, r) /\ r.at = "reply" /\ Quiet(r)
  BY <1>1, <1>2, <1>3, RestTypes
<1>5. Shape(r)'
  BY <1>2, <1>3 DEF Shape
<1> QED
  BY <1>4, <1>5

\* A session that is entered is one more.
LEMMA EnterTypes ==
  ASSUME Types, NEW a \in Accounts \cup {0}, Enter(a)
  PROVE  /\ made \in Nat /\ made' = made + 1 /\ made' \in 0 .. MaxSessions /\ made + 1 \in Sessions
         /\ open' \subseteq 1 .. made'
         /\ env' \in [Sessions -> Accounts \cup {0}]
         /\ env'[made + 1] = a /\ \A s \in Sessions \ {made + 1} : env'[s] = env[s]
<1>1. made \in Nat /\ made + 1 \in Sessions /\ made' = made + 1 /\ MaxSessions \in Nat /\ open \subseteq 1 .. made
  BY BoundsOK DEF Types, SessionTypes, Enter, Sessions
<1>2. env \in [Sessions -> Accounts \cup {0}]
  BY DEF Types, SessionTypes
<1> QED
  BY <1>1, <1>2 DEF Enter, Sessions

\* A session that is run is live, in its environment.
LEMMA RunTypes ==
  ASSUME Types, NEW s \in Sessions, NEW a \in Accounts \cup {0}, Run(s, a)
  PROVE  /\ live' = live \cup {s} /\ runsAs' \in [Sessions -> Accounts \cup {0}]
         /\ runsAs'[s] = a /\ \A x \in Sessions \ {s} : runsAs'[x] = runsAs[x]
<1>1. runsAs \in [Sessions -> Accounts \cup {0}]
  BY DEF Types, SessionTypes
<1> QED
  BY <1>1 DEF Run

\* What a step that makes no session may do: nothing, or to leave a row of one.
LEMMA NotMadeTypes ==
  ASSUME Types, NEW a \in Accounts \cup {0}, NotMade(a)
  PROVE  /\ live' = live /\ runsAs' = runsAs /\ made' \in Nat /\ made' >= made
         /\ \/ UNCHANGED <<rows, apart>>
            \/ Enter(a) /\ apart' = IF a = 0 THEN apart ELSE apart \cup {made + 1}
<1>1. made \in Nat
  BY BoundsOK DEF Types, SessionTypes
<1>2. CASE UNCHANGED <<rows, live, runsAs, apart>>
  BY <1>1, <1>2 DEF rows
<1>3. CASE Enter(a) /\ (apart' = IF a = 0 THEN apart ELSE apart \cup {made + 1}) /\ UNCHANGED <<live, runsAs>>
  BY <1>1, <1>3, EnterTypes
<1> QED
  BY <1>2, <1>3 DEF NotMade

\* A new session and the handler that has it in hand.
LEMMA StartSets ==
  ASSUME Types, Shapes, NEW c \in Clients, Start(c)
  PROVE  /\ h[c].at = "start" /\ h[c].account \in Accounts \cup {0}
         /\ \E r \in Handlers :
              /\ Sets(c, r) /\ Shape(r)' /\ r.at \in {"watch", "health", "reply"}
              /\ \/ /\ Enter(h[c].account) /\ Run(made + 1, h[c].account) /\ UNCHANGED apart
                    /\ r.session = made + 1 /\ r.account = h[c].account /\ r.method = "create" /\ ~r.gone
                    /\ (r.account = 0 /\ r.at = "watch") \/ (r.account # 0 /\ r.at = "health" /\ r.ok)
                 \/ NotMade(h[c].account) /\ Quiet(r)
<1>1. /\ h[c] \in Handlers /\ Shape(h[c]) /\ made \in Nat /\ h[c].at = "start" /\ h[c].method = "create"
      /\ h[c].session = 0 /\ ~h[c].gone /\ h[c].account \in Accounts \cup {0}
  BY BoundsOK DEF Types, HandlerTypes, SessionTypes, Shapes, Start, At, Shape, Handlers
<1>2. "watch" \in Steps /\ "health" \in Steps
  BY DEF Steps
<1>3. CASE /\ Enter(h[c].account) /\ Run(made + 1, h[c].account) /\ UNCHANGED apart
           /\ h' = [h EXCEPT ![c].at = IF h[c].account = 0 THEN "watch" ELSE "health",
                             ![c].session = made + 1, ![c].ok = TRUE]
  <2> DEFINE step == IF h[c].account = 0 THEN "watch" ELSE "health"
             new == made + 1
             r == [h[c] EXCEPT !.at = step, !.session = new, !.ok = TRUE]
  <2>1. made' = made + 1 /\ new \in Sessions
    BY <1>1, <1>3, EnterTypes
  <2>2. step \in Steps /\ (h[c].account = 0 => step = "watch") /\ (h[c].account # 0 => step = "health")
    BY <1>2
  <2>3. h' = [h EXCEPT ![c].at = step, ![c].session = new, ![c].ok = TRUE]
    BY <1>3
  <2>4. new = made + 1
    OBVIOUS
  <2> HIDE DEF step, new
  <2>5. /\ r \in Handlers /\ r.at = step /\ r.session = new /\ r.account = h[c].account /\ r.method = h[c].method
        /\ r.ok = TRUE /\ r.gone = h[c].gone
    BY <1>1, <2>1, <2>2 DEF Handlers
  <2>6. Sets(c, r)
    BY <1>1, <2>3 DEF Sets, Types, HandlerTypes
  <2> HIDE DEF r
  <2>7. PICK q \in Handlers : q = r
    BY <2>5
  <2>8. Shape(q)'
    BY <1>1, <2>1, <2>2, <2>4, <2>5, <2>7 DEF Shape
  <2> QED
    BY <1>1, <1>3, <2>2, <2>4, <2>5, <2>6, <2>7, <2>8
<1>4. CASE NotMade(h[c].account) /\ h[c].account = 0 /\ Goto(c, "reply")
  BY <1>1, <1>4, NotMadeTypes, ReplySets
<1>5. CASE NotMade(h[c].account) /\ h[c].account # 0 /\ h' = [h EXCEPT ![c] = [h[c] EXCEPT !.at = "health", !.ok = FALSE]]
  <2> DEFINE r == [h[c] EXCEPT !.at = "health", !.ok = FALSE]
  <2>1. Sets(c, r)
    BY <1>5 DEF Sets
  <2>2. /\ r \in Handlers /\ r.at = "health" /\ r.ok = FALSE /\ r.method = h[c].method /\ r.session = h[c].session
        /\ r.gone = h[c].gone
    BY <1>1, <1>2 DEF Handlers
  <2> HIDE DEF r
  <2>3. PICK q \in Handlers : q = r
    BY <2>2
  <2>4. made' \in Nat /\ made' >= made
    BY <1>1, <1>5, NotMadeTypes
  <2>5. Shape(q)' /\ Quiet(q)
    BY <1>1, <2>2, <2>3, <2>4 DEF Shape, Quiet, MakeStep, BindStep, ReviewStep
  <2> QED
    BY <1>1, <1>5, <2>1, <2>2, <2>3, <2>5
<1>6. \/ /\ Enter(h[c].account) /\ Run(made + 1, h[c].account) /\ UNCHANGED apart
         /\ h' = [h EXCEPT ![c].at = IF h[c].account = 0 THEN "watch" ELSE "health",
                           ![c].session = made + 1, ![c].ok = TRUE]
      \/ NotMade(h[c].account) /\ h[c].account = 0 /\ h' = [h EXCEPT ![c] = Answer]
      \/ NotMade(h[c].account) /\ h[c].account # 0
           /\ h' = [h EXCEPT ![c] = [h[c] EXCEPT !.at = "health", !.ok = FALSE]]
  BY DEF Start
<1> QED
  BY <1>3, <1>4, <1>5, <1>6 DEF Goto

\* A fork, and the handler that has it and its parent in hand.
LEMMA ForkSets ==
  ASSUME Types, Shapes, NEW c \in Clients, ForkNative(c)
  PROVE  /\ h[c].at = "fork" /\ h[c].account \in Accounts \cup {0}
         /\ \E r \in Handlers, kept \in Accounts \cup {0} :
              /\ Sets(c, r) /\ Shape(r)' /\ r.at \in {"parent", "reply"}
              /\ \/ /\ Enter(kept) /\ Run(made + 1, h[c].account)
                    /\ apart' = IF kept = h[c].account THEN apart ELSE apart \cup {made + 1}
                    /\ r.session = made + 1 /\ r.at = "parent" /\ r.method = "fork" /\ ~r.gone
                 \/ NotMade(kept) /\ Quiet(r)
<1>1. /\ h[c] \in Handlers /\ Shape(h[c]) /\ made \in Nat /\ h[c].at = "fork" /\ h[c].method = "fork"
      /\ h[c].account \in Accounts \cup {0} /\ ~h[c].gone
  BY BoundsOK DEF Types, HandlerTypes, SessionTypes, Shapes, ForkNative, At, Shape, Handlers
<1>2. h[c].session \in 1 .. made /\ h[c].session \in Sessions
  BY <1>1 DEF Shape, Handlers, Sessions
<1>3. PICK kept \in {env[h[c].session], 0} :
        \/ /\ Enter(kept) /\ Run(made + 1, h[c].account)
           /\ apart' = IF kept = h[c].account THEN apart ELSE apart \cup {made + 1}
           /\ h' = [h EXCEPT ![c].at = "parent", ![c].session = made + 1, ![c].todo = h[c].session]
        \/ NotMade(kept) /\ Goto(c, "reply")
  BY DEF ForkNative
<1>4. kept \in Accounts \cup {0}
  BY <1>2, <1>3 DEF Types, SessionTypes
<1>5. CASE /\ Enter(kept) /\ Run(made + 1, h[c].account)
           /\ apart' = IF kept = h[c].account THEN apart ELSE apart \cup {made + 1}
           /\ h' = [h EXCEPT ![c].at = "parent", ![c].session = made + 1, ![c].todo = h[c].session]
  <2> DEFINE new == made + 1
             of == h[c].session
             r == [h[c] EXCEPT !.at = "parent", !.session = new, !.todo = of]
  <2>1. made' = made + 1 /\ new \in Sessions
    BY <1>4, <1>5, EnterTypes
  <2>2. "parent" \in Steps /\ of \in Nat
    BY <1>2 DEF Steps
  <2>3. new = made + 1 /\ of \in 1 .. made
    BY <1>2
  <2>4. Sets(c, r)
    BY <1>1, <1>5 DEF Sets, Types, HandlerTypes
  <2> HIDE DEF new, of
  <2>5. /\ r \in Handlers /\ r.at = "parent" /\ r.session = new /\ r.todo = of /\ r.method = h[c].method
        /\ r.gone = h[c].gone
    BY <1>1, <2>1, <2>2 DEF Handlers
  <2> HIDE DEF r
  <2>6. PICK q \in Handlers : q = r
    BY <2>5
  <2>7. Shape(q)'
    BY <1>1, <2>1, <2>3, <2>5, <2>6 DEF Shape
  <2> QED
    BY <1>1, <1>4, <1>5, <2>3, <2>4, <2>5, <2>6, <2>7
<1>6. CASE NotMade(kept) /\ Goto(c, "reply")
  BY <1>1, <1>4, <1>6, NotMadeTypes, ReplySets
<1> QED
  BY <1>3, <1>5, <1>6

\* A session for a review, which its handler will subscribe to.
LEMMA HireSets ==
  ASSUME Types, Shapes, NEW c \in Clients, Hire(c)
  PROVE  /\ h[c].at = "hire"
         /\ \E r \in Handlers :
              /\ Sets(c, r) /\ Shape(r)' /\ r.at \in {"watch", "reply"}
              /\ \/ /\ Enter(0) /\ Run(made + 1, 0) /\ hired' = hired \cup {made + 1} /\ UNCHANGED apart
                    /\ r.session = made + 1 /\ r.at = "watch" /\ r.method = "review" /\ ~r.gone
                 \/ NotMade(0) /\ UNCHANGED hired /\ Quiet(r)
<1>1. /\ h[c] \in Handlers /\ Shape(h[c]) /\ made \in Nat /\ h[c].at = "hire" /\ h[c].method = "review"
      /\ ~h[c].gone /\ h[c].todo > 0
  BY BoundsOK DEF Types, HandlerTypes, SessionTypes, Shapes, Hire, At, Shape
<1>2. CASE /\ Enter(0) /\ Run(made + 1, 0) /\ hired' = hired \cup {made + 1} /\ UNCHANGED apart
           /\ h' = [h EXCEPT ![c].at = "watch", ![c].session = made + 1]
  <2> DEFINE new == made + 1
             r == [h[c] EXCEPT !.at = "watch", !.session = new]
  <2>1. made' = made + 1 /\ new \in Sessions
    BY <1>2, EnterTypes
  <2>2. "watch" \in Steps
    BY DEF Steps
  <2>3. new = made + 1
    OBVIOUS
  <2>4. Sets(c, r)
    BY <1>1, <1>2 DEF Sets, Types, HandlerTypes
  <2> HIDE DEF new
  <2>5. /\ r \in Handlers /\ r.at = "watch" /\ r.session = new /\ r.todo = h[c].todo /\ r.method = h[c].method
        /\ r.gone = h[c].gone
    BY <1>1, <2>1, <2>2 DEF Handlers
  <2> HIDE DEF r
  <2>6. PICK q \in Handlers : q = r
    BY <2>5
  <2>7. Shape(q)'
    BY <1>1, <2>1, <2>3, <2>5, <2>6 DEF Shape
  <2> QED
    BY <1>1, <1>2, <2>3, <2>4, <2>5, <2>6, <2>7
<1>3. CASE NotMade(0) /\ UNCHANGED hired /\ Goto(c, "reply")
  BY <1>1, <1>3, NotMadeTypes, ReplySets
<1> QED
  BY <1>2, <1>3 DEF Hire

\* A binding, or its failure.
LEMMA BindSets ==
  ASSUME Types, Shapes, NEW c \in Clients, Bind(c)
  PROVE  /\ h[c].at = "bind" /\ h[c].session \in 1 .. made /\ h[c].session \in Sessions
         /\ \E r \in Handlers :
              /\ Sets(c, r) /\ Shape(r)' /\ r.at \in {"watch", "reply"}
              /\ \/ /\ h[c].account \in stored /\ bound' = [bound EXCEPT ![h[c].session] = h[c].account]
                    /\ UNCHANGED apart
                    /\ \/ /\ r.at = "watch" /\ r.session = h[c].session /\ r.gone = h[c].gone
                          /\ r.method = h[c].method /\ UNCHANGED fate
                       \/ Quiet(r) /\ Dropped(c)
                 \/ bound' = bound /\ apart' = apart \cup {h[c].session} /\ Quiet(r) /\ Dropped(c)
<1>1. h[c] \in Handlers /\ Shape(h[c]) /\ made \in Nat /\ made' = made /\ h[c].at = "bind"
  BY BoundsOK DEF Types, HandlerTypes, SessionTypes, Shapes, Bind, At, rows
<1>2. h[c].session \in 1 .. made /\ h[c].session \in Sessions /\ h[c].method \in {"create", "fork"}
  BY <1>1 DEF Shape, Handlers, Sessions
<1>3. CASE h[c].account \in stored /\ bound' = [bound EXCEPT ![h[c].session] = h[c].account]
             /\ UNCHANGED apart /\ Goto(c, "watch") /\ UNCHANGED fate
  <2>1. "watch" \in Steps
    BY DEF Steps
  <2>2. PICK r \in Handlers : /\ Sets(c, r) /\ r.at = "watch" /\ r.method = h[c].method
                              /\ r.session = h[c].session /\ r.todo = h[c].todo /\ r.gone = h[c].gone
    BY <1>3, <2>1, GotoSets DEF Types
  <2>3. Shape(r)'
    BY <1>1, <1>2, <2>2 DEF Shape
  <2> QED
    BY <1>1, <1>2, <1>3, <2>2, <2>3
<1>4. CASE h[c].account \in stored /\ bound' = [bound EXCEPT ![h[c].session] = h[c].account]
             /\ UNCHANGED apart /\ Goto(c, "reply") /\ Dropped(c)
  BY <1>1, <1>2, <1>4, ReplySets
<1>5. CASE bound' = bound /\ apart' = apart \cup {h[c].session} /\ Goto(c, "reply") /\ Dropped(c)
  BY <1>1, <1>2, <1>5, ReplySets
<1> QED
  BY <1>3, <1>4, <1>5 DEF Bind

\* A subscription.
LEMMA WatchSets ==
  ASSUME Types, Shapes, NEW c \in Clients, Watch(c)
  PROVE  /\ h[c].at = "watch" /\ h[c].session \in 1 .. made
         /\ \E r \in Handlers :
              /\ Sets(c, r) /\ Shape(r)' /\ r.at \in {"review", "reply"}
              /\ IF h[c].method = "review"
                 THEN r.at = "review" /\ r.session = h[c].session /\ r.method = "review" /\ r.gone = h[c].gone
                 ELSE Quiet(r)
<1>1. h[c] \in Handlers /\ Shape(h[c]) /\ made \in Nat /\ made' = made /\ h[c].at = "watch" /\ h[c].session \in 1 .. made
  BY BoundsOK DEF Types, HandlerTypes, SessionTypes, Shapes, Watch, At, rows, Shape, Handlers, Sessions
<1>2. CASE h[c].method = "review"
  <2>1. "review" \in Steps /\ Goto(c, "review")
    BY <1>2 DEF Steps, Watch
  <2>2. PICK r \in Handlers : /\ Sets(c, r) /\ r.at = "review" /\ r.method = h[c].method
                              /\ r.session = h[c].session /\ r.todo = h[c].todo /\ r.gone = h[c].gone
    BY <2>1, GotoSets DEF Types
  <2>3. Shape(r)'
    BY <1>1, <1>2, <2>2 DEF Shape
  <2> QED
    BY <1>1, <1>2, <2>2, <2>3
<1>3. CASE h[c].method # "review"
  <2>1. Goto(c, "reply")
    BY <1>3 DEF Watch
  <2> QED
    BY <1>1, <1>3, <2>1, ReplySets
<1> QED
  BY <1>2, <1>3

\* The account of the parent is looked up.
LEMMA ParentSets ==
  ASSUME Types, Shapes, NEW c \in Clients, Parent(c)
  PROVE  /\ h[c].at = "parent" /\ h[c].session \in 1 .. made /\ h[c].session \in Sessions /\ h[c].method = "fork"
         /\ \E r \in Handlers :
              /\ Sets(c, r) /\ Shape(r)' /\ r.at \in {"watch", "bind", "reply"}
              /\ \/ /\ r.session = h[c].session /\ r.method = "fork" /\ r.gone = h[c].gone
                    /\ r.account = bound[h[c].todo] /\ h[c].todo \in 1 .. made
                    /\ IF r.account = 0 THEN r.at = "watch" ELSE r.at = "bind"
                    /\ apart' = IF r.account # env[h[c].session] THEN apart \cup {h[c].session} ELSE apart
                    /\ UNCHANGED fate
                 \/ Quiet(r) /\ apart' = apart \cup {h[c].session} /\ Dropped(c)
<1>1. h[c] \in Handlers /\ Shape(h[c]) /\ made \in Nat /\ made' = made /\ h[c].at = "parent"
  BY BoundsOK DEF Types, HandlerTypes, SessionTypes, Shapes, Parent, At, rows
<1>2. /\ h[c].session \in 1 .. made /\ h[c].session \in Sessions /\ h[c].todo \in Sessions /\ h[c].method = "fork"
      /\ h[c].todo \in 1 .. made
  <2>1. h[c].session \in Sessions \cup {0} /\ made \in 0 .. MaxSessions /\ MaxSessions \in Nat
    BY <1>1, BoundsOK DEF Handlers, Types, SessionTypes
  <2>2. h[c].session <= made /\ h[c].session > 0 /\ h[c].todo \in 1 .. made /\ h[c].method = "fork"
    BY <1>1 DEF Shape
  <2> QED
    BY <2>1, <2>2 DEF Sessions
<1> DEFINE a == bound[h[c].todo]
           step == IF a = 0 THEN "watch" ELSE "bind"
           r == [h[c] EXCEPT !.at = step, !.todo = 0, !.account = a]
<1>3. CASE /\ h' = [h EXCEPT ![c].todo = 0, ![c].account = a, ![c].at = step]
           /\ apart' = IF a # env[h[c].session] THEN apart \cup {h[c].session} ELSE apart
           /\ UNCHANGED fate
  <2>1. a \in Accounts \cup {0} /\ a = bound[h[c].todo]
    BY <1>2 DEF Types, SessionTypes, AccountTypes
  <2>2. step \in Steps /\ (a = 0 => step = "watch") /\ (a # 0 => step = "bind")
    BY DEF Steps
  <2>3. apart' = IF a # env[h[c].session] THEN apart \cup {h[c].session} ELSE apart
    BY <1>3
  <2>4. h' = [h EXCEPT ![c].todo = 0, ![c].account = a, ![c].at = step]
    BY <1>3
  <2> HIDE DEF a, step
  <2>5. /\ r \in Handlers /\ r.at = step /\ r.session = h[c].session /\ r.todo = 0 /\ r.account = a
        /\ r.method = h[c].method /\ r.gone = h[c].gone
    BY <1>1, <2>1, <2>2 DEF Handlers
  <2>6. Sets(c, r)
    BY <1>1, <2>4 DEF Sets, Types, HandlerTypes
  <2> HIDE DEF r
  <2>7. PICK q \in Handlers : q = r
    BY <2>5
  <2>8. Shape(q)'
    BY <1>1, <1>2, <2>2, <2>5, <2>7 DEF Shape
  <2> QED
    BY <1>1, <1>2, <1>3, <2>1, <2>2, <2>3, <2>5, <2>6, <2>7, <2>8
<1>4. CASE Goto(c, "reply") /\ Dropped(c) /\ apart' = apart \cup {h[c].session}
  BY <1>1, <1>2, <1>4, ReplySets
<1> QED
  BY <1>3, <1>4 DEF Parent

\* A review is started, or the session that cannot is about to be closed.
LEMMA ReviewSets ==
  ASSUME Types, Shapes, NEW c \in Clients, Review(c)
  PROVE  /\ h[c].at = "review" /\ h[c].session \in 1 .. made /\ h[c].method = "review"
         /\ \E r \in Handlers :
              /\ Sets(c, r) /\ Shape(r)' /\ r.at \in {"hire", "fire", "reply"}
              /\ \/ /\ reviewing' = IF h[c].gone THEN reviewing ELSE reviewing \cup ({h[c].session} \cap live)
                    /\ Quiet(r)
                 \/ /\ reviewing' = reviewing
                    /\ r.at = "fire" /\ r.session = h[c].session /\ r.method = "review" /\ r.gone = h[c].gone
<1>1. h[c] \in Handlers /\ Shape(h[c]) /\ made \in Nat /\ made' = made /\ h[c].at = "review"
  BY BoundsOK DEF Types, HandlerTypes, SessionTypes, Shapes, Review, At, rows
<1>2. h[c].method = "review" /\ h[c].todo > 0 /\ h[c].todo \in Nat /\ h[c].session \in 1 .. made
  BY <1>1 DEF Shape, Handlers, Sessions
<1>3. CASE /\ reviewing' = IF h[c].gone THEN reviewing ELSE reviewing \cup ({h[c].session} \cap live)
           /\ h[c].todo = 1 /\ Goto(c, "reply")
  BY <1>1, <1>2, <1>3, ReplySets
<1>4. CASE /\ reviewing' = IF h[c].gone THEN reviewing ELSE reviewing \cup ({h[c].session} \cap live)
           /\ h[c].todo # 1
           /\ h' = [h EXCEPT ![c] = [Idle EXCEPT !.at = "hire", !.method = "review", !.todo = h[c].todo - 1]]
  <2> DEFINE rest == h[c].todo - 1
             r == [Idle EXCEPT !.at = "hire", !.method = "review", !.todo = rest]
  <2>1. rest \in Nat /\ rest > 0 /\ "hire" \in Steps /\ "review" \in Methods
    BY <1>2, <1>4 DEF Steps, Methods
  <2>2. Sets(c, r)
    BY <1>4 DEF Sets
  <2> HIDE DEF rest
  <2>3. r \in Handlers /\ r.at = "hire" /\ r.session = 0 /\ r.todo = rest /\ r.method = "review" /\ r.gone = FALSE
    BY <2>1, RestTypes DEF Handlers
  <2> HIDE DEF r
  <2>4. PICK q \in Handlers : q = r
    BY <2>3
  <2>5. Shape(q)' /\ Quiet(q)
    BY <1>1, <1>2, <2>1, <2>3, <2>4 DEF Shape, Quiet, MakeStep, BindStep, ReviewStep
  <2> QED
    BY <1>1, <1>2, <1>4, <2>2, <2>3, <2>4, <2>5
<1>5. CASE Goto(c, "fire") /\ UNCHANGED reviewing
  <2>1. "fire" \in Steps
    BY DEF Steps
  <2>2. PICK r \in Handlers : /\ Sets(c, r) /\ r.at = "fire" /\ r.method = h[c].method
                              /\ r.session = h[c].session /\ r.todo = h[c].todo /\ r.gone = h[c].gone
    BY <1>5, <2>1, GotoSets DEF Types
  <2>3. Shape(r)'
    BY <1>1, <1>2, <2>2 DEF Shape
  <2> QED
    BY <1>1, <1>2, <1>5, <2>2, <2>3
<1>6. Reviewed(c) \/ (Goto(c, "fire") /\ UNCHANGED reviewing)
  BY DEF Review
<1>7. CASE Reviewed(c)
  <2>1. CASE h[c].todo = 1
    BY <1>3, <1>7, <2>1 DEF Reviewed, Goto
  <2>2. CASE h[c].todo # 1
    BY <1>4, <1>7, <2>2 DEF Reviewed
  <2> QED
    BY <2>1, <2>2
<1> QED
  BY <1>5, <1>6, <1>7

\* A session is closed, or not.
LEMMA CloseSets ==
  ASSUME Types, Shapes, NEW c \in Clients, CloseSession(c) \/ Fire(c)
  PROVE  /\ h[c].at \in {"close", "fire"} /\ h[c].session \in 1 .. made /\ h[c].session \in Sessions
         /\ \E r \in Handlers :
              /\ Shape(r)' /\ r.at = "reply" /\ Quiet(r)
              /\ \/ h' = [Orphaned(h, h[c].session) EXCEPT ![c] = r] /\ Dissolve(h[c].session)
                 \/ /\ Sets(c, r) /\ Leave(h[c].session)
                    /\ fate' = IF h[c].at = "fire" /\ h[c].session \in hired
                               THEN [fate EXCEPT ![h[c].session] = "kept"] ELSE fate
<1> DEFINE s == h[c].session
<1>1. h[c] \in Handlers /\ Shape(h[c]) /\ made \in Nat /\ made' = made /\ h[c].at \in {"close", "fire"}
  BY BoundsOK DEF Types, HandlerTypes, SessionTypes, Shapes, CloseSession, Fire, At
<1>2. s \in 1 .. made /\ s \in Sessions
  BY <1>1 DEF Shape, Handlers, Sessions
<1>3. PICK r \in Handlers : r = Answer
  BY RestTypes
<1>4. Shape(r)' /\ Quiet(r) /\ r.at = "reply"
  BY <1>1, <1>3, AnswerShape, RestTypes DEF Shape
<1>5. \/ Dissolve(s) /\ h' = [Orphaned(h, s) EXCEPT ![c] = r]
      \/ /\ Leave(s) /\ Goto(c, "reply")
         /\ fate' = IF h[c].at = "fire" /\ s \in hired THEN [fate EXCEPT ![s] = "kept"] ELSE fate
  <2>1. CASE CloseSession(c)
    BY <1>3, <2>1 DEF CloseSession, At
  <2>2. CASE Fire(c)
    BY <1>3, <2>2 DEF Fire, At
  <2> QED
    BY <2>1, <2>2
<1>6. Goto(c, "reply") => Sets(c, r)
  BY <1>3 DEF Goto, Sets
<1> QED
  BY <1>1, <1>2, <1>4, <1>5, <1>6

\* A request finds its session, or starts it again, or fails.
LEMMA ResolveSets ==
  ASSUME Types, Shapes, NEW c \in Clients, Resolve(c)
  PROVE  /\ h[c].at = "resolve" /\ h[c].session \in 1 .. made /\ h[c].session \in Sessions
         /\ \E r \in Handlers :
              /\ Shape(r)' /\ r.at \in {"watch", "fork", "send", "reply"}
              /\ Quiet(r) \/ (h[c].method = "attach" /\ r.at = "watch" /\ r.session = h[c].session
                              /\ r.method = "attach" /\ ~r.gone)
              /\ \/ Sets(c, r) /\ UNCHANGED runs
                 \/ /\ h' = [Orphaned(h, h[c].session) EXCEPT ![c] = r]
                    /\ h[c].session \in open /\ Run(h[c].session, env[h[c].session])
                    /\ adrift' = adrift \ {h[c].session}
                    /\ seen' = {w \in seen : w[2] # h[c].session}
                    /\ hired' = hired \ {h[c].session} /\ reviewing' = reviewing \ {h[c].session}
                    /\ fate' = [fate EXCEPT ![h[c].session] = IF h[c].method = "attach" THEN "none" ELSE "woken"]
                    /\ h[c].method = "attach" => ~Quiet(r)
<1> DEFINE s == h[c].session
<1>1. h[c] \in Handlers /\ Shape(h[c]) /\ made \in Nat /\ made' = made /\ h[c].at = "resolve"
  BY BoundsOK DEF Types, HandlerTypes, SessionTypes, Shapes, Resolve, At, rows
<1>2. /\ s \in 1 .. made /\ s \in Sessions /\ ~h[c].gone
      /\ h[c].method \in {"attach", "fork", "send", "touch"}
  BY <1>1 DEF Shape, Handlers, Sessions
<1>3. env[s] \in Accounts \cup {0} /\ runsAs[s] \in Accounts \cup {0}
  BY <1>2 DEF Types, SessionTypes
<1>4. ASSUME NEW a \in Accounts \cup {0}
      PROVE  \E r \in Handlers : /\ r = Resolved(h[c], a) /\ Shape(r)' /\ r.at \in {"watch", "fork", "send", "reply"}
                                 /\ IF h[c].method = "attach"
                                    THEN ~Quiet(r) /\ r.at = "watch" /\ r.session = s /\ r.method = "attach" /\ ~r.gone
                                    ELSE Quiet(r)
  <2>1. CASE h[c].method = "attach"
    <3> DEFINE r == [h[c] EXCEPT !.at = "watch"]
    <3>1. Resolved(h[c], a) = r
      BY <2>1 DEF Resolved
    <3>2. /\ r \in Handlers /\ r.at = "watch" /\ r.session = s /\ r.method = "attach" /\ r.gone = h[c].gone
      <4>1. "watch" \in Steps
        BY DEF Steps
      <4> QED
        BY <1>1, <2>1, <4>1 DEF Handlers
    <3> HIDE DEF r
    <3>3. PICK q \in Handlers : q = r
      BY <3>2
    <3>4. Shape(q)' /\ ~Quiet(q)
      BY <1>1, <1>2, <3>2, <3>3 DEF Shape, Quiet, MakeStep
    <3> QED
      BY <1>2, <2>1, <3>1, <3>2, <3>3, <3>4
  <2>2. CASE h[c].method = "fork"
    <3> DEFINE r == [h[c] EXCEPT !.at = "fork", !.account = a]
    <3>1. Resolved(h[c], a) = r
      BY <2>2 DEF Resolved
    <3>2. /\ r \in Handlers /\ r.at = "fork" /\ r.session = s /\ r.method = "fork" /\ r.gone = h[c].gone
      <4>1. "fork" \in Steps
        BY DEF Steps
      <4> QED
        BY <1>1, <2>2, <4>1 DEF Handlers
    <3> HIDE DEF r
    <3>3. PICK q \in Handlers : q = r
      BY <3>2
    <3>4. Shape(q)' /\ Quiet(q)
      BY <1>1, <1>2, <3>2, <3>3 DEF Shape, Quiet, MakeStep, BindStep, ReviewStep
    <3> QED
      BY <1>2, <2>2, <3>1, <3>2, <3>3, <3>4
  <2>3. CASE h[c].method = "send"
    <3> DEFINE r == [h[c] EXCEPT !.at = "send"]
    <3>1. Resolved(h[c], a) = r
      BY <2>3 DEF Resolved
    <3>2. /\ r \in Handlers /\ r.at = "send" /\ r.session = s /\ r.method = "send" /\ r.gone = h[c].gone
      <4>1. "send" \in Steps
        BY DEF Steps
      <4> QED
        BY <1>1, <2>3, <4>1 DEF Handlers
    <3> HIDE DEF r
    <3>3. PICK q \in Handlers : q = r
      BY <3>2
    <3>4. Shape(q)' /\ Quiet(q)
      BY <1>1, <1>2, <3>2, <3>3 DEF Shape, Quiet, MakeStep, BindStep, ReviewStep
    <3> QED
      BY <1>2, <2>3, <3>1, <3>2, <3>3, <3>4
  <2>4. CASE h[c].method = "touch"
    <3>1. Resolved(h[c], a) = Answer
      BY <2>4 DEF Resolved
    <3>2. PICK q \in Handlers : q = Answer
      BY RestTypes
    <3>3. Shape(q)' /\ Quiet(q) /\ q.at = "reply"
      BY <1>1, <3>2, AnswerShape, RestTypes DEF Shape
    <3> QED
      BY <2>4, <3>1, <3>2, <3>3
  <2> QED
    BY <1>2, <2>1, <2>2, <2>3, <2>4
<1>5. CASE h' = [h EXCEPT ![c] = Resolved(h[c], runsAs[s])] /\ UNCHANGED runs
  <2>1. PICK r \in Handlers : /\ r = Resolved(h[c], runsAs[s]) /\ Shape(r)' /\ r.at \in {"watch", "fork", "send", "reply"}
                              /\ IF h[c].method = "attach"
                                 THEN ~Quiet(r) /\ r.at = "watch" /\ r.session = s /\ r.method = "attach" /\ ~r.gone
                                 ELSE Quiet(r)
    BY <1>3, <1>4
  <2>2. Sets(c, r)
    BY <1>5, <2>1 DEF Sets
  <2> QED
    BY <1>1, <1>2, <1>5, <2>1, <2>2
<1>6. CASE /\ s \in open /\ Run(s, env[s])
           /\ adrift' = adrift \ {s}
           /\ seen' = {w \in seen : w[2] # s}
           /\ hired' = hired \ {s} /\ reviewing' = reviewing \ {s}
           /\ fate' = [fate EXCEPT ![s] = IF h[c].method = "attach" THEN "none" ELSE "woken"]
           /\ h' = [Orphaned(h, s) EXCEPT ![c] = Resolved(h[c], env[s])]
  <2>1. PICK r \in Handlers : /\ r = Resolved(h[c], env[s]) /\ Shape(r)' /\ r.at \in {"watch", "fork", "send", "reply"}
                              /\ IF h[c].method = "attach"
                                 THEN ~Quiet(r) /\ r.at = "watch" /\ r.session = s /\ r.method = "attach" /\ ~r.gone
                                 ELSE Quiet(r)
    BY <1>3, <1>4
  <2> QED
    BY <1>1, <1>2, <1>6, <2>1
<1>7. CASE Goto(c, "reply") /\ UNCHANGED runs
  <2>1. PICK r \in Handlers : Sets(c, r) /\ Shape(r)' /\ r.at = "reply" /\ Quiet(r)
    BY <1>1, <1>7, ReplySets
  <2> QED
    BY <1>1, <1>2, <1>7, <2>1
<1> QED
  BY <1>5, <1>6, <1>7 DEF Resolve

\* What a step makes of the health of an account that is known.
LEMMA HealthSets ==
  ASSUME Types, Shapes, NEW c \in Clients, Health(c)
  PROVE  /\ h[c].at = "health"
         /\ \E r \in Handlers :
              /\ Shape(r)' /\ r.at \in {"bind", "reply"}
              /\ IF BindStep(h[c])
                 THEN /\ r.at = "bind" /\ r.session = h[c].session /\ r.account = h[c].account /\ r.gone = h[c].gone
                      /\ r.method = h[c].method /\ h[c].method = "create"
                 ELSE Quiet(r)
              /\ \/ facts' \in [Accounts -> Facts] /\ h' = Disturb([h EXCEPT ![c] = r])
                 \/ facts' = facts /\ Sets(c, r)
<1>1. h[c] \in Handlers /\ Shape(h[c]) /\ made \in Nat /\ made' = made /\ h[c].at = "health"
  BY BoundsOK DEF Types, HandlerTypes, SessionTypes, Shapes, Health, At, sessions, rows
<1> DEFINE f == facts[h[c].account]
           known == IF h[c].ok THEN [f EXCEPT !.failures = 0, !.failedAt = 0]
                               ELSE [f EXCEPT !.failures = @ + 1, !.failedAt = now]
           next == IF h[c].ok /\ h[c].method = "create" THEN [h[c] EXCEPT !.at = "bind"] ELSE Answer
<1>2. \/ facts' = [facts EXCEPT ![h[c].account] = known] /\ h' = Disturb([h EXCEPT ![c] = next])
      \/ facts' = facts /\ h' = [h EXCEPT ![c] = next]
  BY DEF Health
<1>3. facts' = [facts EXCEPT ![h[c].account] = known] => facts' \in [Accounts -> Facts]
  <2>1. facts \in [Accounts -> Facts] /\ now \in 0 .. MaxNow /\ 0 \in 0 .. MaxNow
    BY BoundsOK DEF Types, AccountTypes
  <2>2. CASE h[c].account \in Accounts
    <3>1. f \in Facts
      BY <2>1, <2>2
    <3> HIDE DEF f
    <3>2. [f EXCEPT !.failures = 0, !.failedAt = 0] \in Facts
      BY <2>1, <3>1 DEF Facts
    <3>3. [f EXCEPT !.failures = @ + 1, !.failedAt = now] \in Facts
      <4>1. f.failures + 1 \in Nat
        BY <3>1 DEF Facts
      <4> QED
        BY <2>1, <3>1, <4>1 DEF Facts
    <3>4. known \in Facts
      BY <3>2, <3>3
    <3> HIDE DEF known
    <3> QED
      BY <2>1, <3>4
  <2>3. CASE h[c].account \notin Accounts
    <3> HIDE DEF known
    <3> QED
      BY <2>1, <2>3
  <2> QED
    BY <2>2, <2>3
<1> HIDE DEF known
<1>4. \E r \in Handlers : /\ r = next /\ Shape(r)' /\ r.at \in {"bind", "reply"}
                          /\ IF BindStep(h[c])
                             THEN /\ r.at = "bind" /\ r.session = h[c].session /\ r.account = h[c].account
                                  /\ r.gone = h[c].gone /\ r.method = h[c].method /\ h[c].method = "create"
                             ELSE Quiet(r)
  <2>1. CASE BindStep(h[c])
    <3>1. h[c].ok /\ h[c].method = "create"
      BY <1>1, <2>1 DEF BindStep
    <3> DEFINE r == [h[c] EXCEPT !.at = "bind"]
    <3>2. next = r
      BY <3>1
    <3>3. "bind" \in Steps
      BY DEF Steps
    <3>4. /\ r \in Handlers /\ r.at = "bind" /\ r.session = h[c].session /\ r.account = h[c].account
          /\ r.method = h[c].method /\ r.gone = h[c].gone
      BY <1>1, <3>3 DEF Handlers
    <3> HIDE DEF r, next
    <3>5. PICK q \in Handlers : q = r
      BY <3>4
    <3>6. Shape(q)'
      BY <1>1, <3>1, <3>4, <3>5 DEF Shape
    <3> QED
      BY <2>1, <3>1, <3>2, <3>4, <3>5, <3>6
  <2>2. CASE ~BindStep(h[c])
    <3>1. ~(h[c].ok /\ h[c].method = "create")
      BY <1>1, <2>2 DEF BindStep
    <3>2. next = Answer
      BY <3>1
    <3> HIDE DEF next
    <3>3. PICK q \in Handlers : q = Answer
      BY RestTypes
    <3>4. Shape(q)' /\ Quiet(q) /\ q.at = "reply"
      BY <1>1, <3>3, RestTypes, AnswerShape DEF Shape
    <3> QED
      BY <2>2, <3>2, <3>3, <3>4
  <2> QED
    BY <2>1, <2>2
<1> HIDE DEF next
<1> QED
  BY <1>1, <1>2, <1>3, <1>4 DEF Sets
-----------------------------------------------------------------------------
(* The parts of the types, step by step.                                      *)

\* A session ends.
LEMMA EndTypes ==
  ASSUME Types, NEW s \in Sessions, End(s), UNCHANGED <<made, env, bound, apart, stored>>, open' \in {open, open \ {s}}
  PROVE  SessionTypes' /\ subs' \in [Clients -> SUBSET live']
<1>1. /\ live' \subseteq 1 .. made' /\ open' \subseteq 1 .. made' /\ adrift' \subseteq live' /\ hired' \subseteq live'
      /\ reviewing' \subseteq live' /\ made' \in 0 .. MaxSessions /\ apart' \subseteq 1 .. made'
  BY DEF Types, SessionTypes, End
<1>2. runsAs' \in [Sessions -> Accounts \cup {0}] /\ env' \in [Sessions -> Accounts \cup {0}]
      /\ bound' \in [Sessions -> stored' \cup {0}]
  BY DEF Types, SessionTypes, End
<1>3. subs' \in [Clients -> SUBSET live']
  BY DEF Types, ConnectionTypes, End
<1>4. seen' \subseteq Clients \X live'
  BY DEF Types, SessionTypes, End
<1>5. fate' \in [Sessions -> Fates]
  BY DEF Types, SessionTypes, End, Fates
<1> QED
  BY <1>1, <1>2, <1>3, <1>4, <1>5 DEF SessionTypes

\* A message for the queue.
LEMMA EnqueueTypes ==
  ASSUME Types, NEW c \in Clients, NEW m \in {"reply", "event"}, Enqueue(c, m), UNCHANGED <<scope, requests, live>>
  PROVE  ConnectionTypes'
<1>1. out[c] \in Seq({"reply", "event"}) /\ Len(out[c]) \in Nat /\ Len(out[c]) <= Capacity /\ Capacity \in Nat
  BY BoundsOK DEF Types, ConnectionTypes
<1>2. CASE UNCHANGED <<out, up, subs, owed>>
  BY <1>2 DEF Types, ConnectionTypes
<1>3. CASE Len(out[c]) < Capacity /\ Queue(c, m)
  <2> DEFINE longer == Append(out[c], m)
  <2>1. longer \in Seq({"reply", "event"}) /\ Len(longer) = Len(out[c]) + 1
    BY <1>1
  <2>2. out' = [out EXCEPT ![c] = longer]
    BY <1>3 DEF Queue
  <2> HIDE DEF longer
  <2>3. out' \in [Clients -> Seq({"reply", "event"})] /\ \A d \in Clients : Len(out'[d]) <= Capacity
    BY <1>1, <1>3, <2>1, <2>2 DEF Types, ConnectionTypes
  <2> QED
    BY <1>3, <2>3 DEF Types, ConnectionTypes, Queue
<1>4. CASE GiveUp(c)
  <2>1. << >> \in Seq({"reply", "event"}) /\ Len(<< >>) = 0
    OBVIOUS
  <2>2. out' \in [Clients -> Seq({"reply", "event"})] /\ \A d \in Clients : Len(out'[d]) <= Capacity
    BY <1>1, <1>4, <2>1 DEF Types, ConnectionTypes, GiveUp
  <2>3. up' \in [Clients -> BOOLEAN] /\ subs' \in [Clients -> SUBSET live'] /\ owed' \in [Clients -> Int]
    BY <1>4 DEF Types, ConnectionTypes, GiveUp
  <2> QED
    BY <2>2, <2>3 DEF Types, ConnectionTypes
<1> QED
  BY <1>2, <1>3, <1>4 DEF Enqueue

\* The connections keep their types.
LEMMA ConnectionsStep ==
  ASSUME Types, Shapes, Next
  PROVE  ConnectionTypes'
<1>1. ASSUME connections' = connections, live \subseteq live'
      PROVE  ConnectionTypes'
  <2>1. subs' \in [Clients -> SUBSET live']
    BY <1>1 DEF Types, ConnectionTypes, connections
  <2> QED
    BY <1>1, <2>1 DEF Types, ConnectionTypes, connections
<1>2. ASSUME NEW c \in Clients, Read(c)
      PROVE  ConnectionTypes'
  <2>1. PICK r \in Handlers : Begin(c, r)
    BY <1>2, ReadBegins
  <2>2. requests' \in 0 .. MaxRequests /\ owed' \in [Clients -> Int] /\ UNCHANGED <<scope, up, out, subs, live>>
    BY <2>1, BoundsOK DEF Begin, Types, ConnectionTypes, sessions, runs
  <2> QED
    BY <2>2 DEF Types, ConnectionTypes
<1>3. ASSUME NEW c \in Clients, Route(c) \/ Project(c) \/ SendPrompt(c) \/ Whose(c) \/ Health(c)
      PROVE  ConnectionTypes'
  <2>1. connections' = connections /\ live' = live
    BY <1>3, ZenonT(60) DEF Route, List, Weigh, Choose, CheckFresh, Discover, Project, SendPrompt, Whose,
         Health, sessions, runs, connections
  <2> QED
    BY <1>1, <2>1
<1>4. ASSUME NEW c \in Clients, Start(c) \/ Bind(c) \/ ForkNative(c) \/ Parent(c) \/ Hire(c) \/ Review(c) \/ Resolve(c)
      PROVE  ConnectionTypes'
  <2>1. connections' = connections /\ live \subseteq live'
    BY <1>4 DEF Start, Bind, ForkNative, Parent, Hire, Review, Resolve, Run, NotMade, runs, connections
  <2> QED
    BY <1>1, <2>1
<1>5. ASSUME NEW c \in Clients, Watch(c)
      PROVE  ConnectionTypes'
  <2>1. subs' \in [Clients -> SUBSET live']
    <3>1. live' = live
      BY <1>5 DEF Watch
    <3>2. CASE up[c] /\ h[c].session \in live /\ ~h[c].gone
      BY <1>5, <3>1, <3>2 DEF Watch, Types, ConnectionTypes
    <3>3. CASE ~(up[c] /\ h[c].session \in live /\ ~h[c].gone)
      BY <1>5, <3>1, <3>3 DEF Watch, Types, ConnectionTypes
    <3> QED
      BY <3>2, <3>3
  <2> QED
    BY <1>5, <2>1 DEF Watch, Types, ConnectionTypes
<1>6. ASSUME NEW s \in Sessions, End(s), UNCHANGED <<scope, up, out, owed, requests, made, env, bound, apart, stored>>,
             open' \in {open, open \ {s}}
      PROVE  ConnectionTypes'
  BY <1>6, EndTypes DEF Types, ConnectionTypes
<1>7. ASSUME NEW c \in Clients, CloseSession(c) \/ Fire(c)
      PROVE  ConnectionTypes'
  <2>1. /\ h[c].session \in Sessions
        /\ UNCHANGED <<scope, up, out, owed, requests, made, env, bound, apart, stored>>
    BY <1>7, CloseSets DEF CloseSession, Fire, accounts
  <2>2. CASE Dissolve(h[c].session)
    BY <1>6, <2>1, <2>2 DEF Dissolve
  <2>3. CASE Leave(h[c].session)
    BY <1>1, <2>1, <2>3 DEF connections, Leave
  <2> QED
    BY <1>7, <2>2, <2>3 DEF CloseSession, Fire
<1>8. ASSUME NEW c \in Clients, Reply(c) \/ Notify(c)
      PROVE  ConnectionTypes'
  BY <1>8, EnqueueTypes DEF Reply, Notify, sessions, runs
<1>9. ASSUME NEW c \in Clients, Write(c)
      PROVE  ConnectionTypes'
  <2>1. out[c] \in Seq({"reply", "event"}) /\ out[c] # << >> /\ Len(out[c]) <= Capacity /\ Capacity \in Nat
    BY <1>9, BoundsOK DEF Types, ConnectionTypes, Write
  <2> DEFINE rest == Tail(out[c])
  <2>2. rest \in Seq({"reply", "event"}) /\ Len(rest) <= Capacity
    BY <2>1
  <2>3. out' = [out EXCEPT ![c] = rest]
    BY <1>9 DEF Write
  <2> HIDE DEF rest
  <2>4. out' \in [Clients -> Seq({"reply", "event"})] /\ \A d \in Clients : Len(out'[d]) <= Capacity
    BY <2>2, <2>3 DEF Types, ConnectionTypes
  <2>5. owed' \in [Clients -> Int]
    BY <1>9 DEF Types, ConnectionTypes, Write
  <2> QED
    BY <1>9, <2>4, <2>5 DEF Types, ConnectionTypes, Write, sessions, runs
<1>10. ASSUME NEW c \in Clients, Drop(c)
       PROVE  ConnectionTypes'
  <2>1. << >> \in Seq({"reply", "event"}) /\ Len(<< >>) = 0 /\ Capacity \in Nat
    BY BoundsOK
  <2>2. out' \in [Clients -> Seq({"reply", "event"})] /\ \A d \in Clients : Len(out'[d]) <= Capacity
    BY <1>10, <2>1 DEF Types, ConnectionTypes, Drop, GiveUp
  <2>3. up' \in [Clients -> BOOLEAN] /\ subs' \in [Clients -> SUBSET live'] /\ owed' \in [Clients -> Int]
    BY <1>10 DEF Types, ConnectionTypes, Drop, GiveUp, sessions, runs
  <2> QED
    BY <1>10, <2>2, <2>3 DEF Types, ConnectionTypes, Drop
<1>11. ASSUME NEW s \in Sessions, Ends(s)
       PROVE  ConnectionTypes'
  BY <1>6, <1>11 DEF Ends, accounts, rows
<1>12. ASSUME Others
       PROVE  ConnectionTypes'
  BY <1>1, <1>12 DEF Others, connections, runs
<1> QED
  BY <1>2, <1>3, <1>4, <1>5, <1>7, <1>8, <1>9, <1>10, <1>11, <1>12
     DEF Next, Handle, SaveQuota, SetCurrent, Remove, Tick

\* A session that is made, or whose making fails, keeps the types.
LEMMA MakingTypes ==
  ASSUME Types, NEW a \in Accounts \cup {0}, NEW b \in Accounts \cup {0},
         UNCHANGED <<adrift, seen, reviewing, fate, bound, stored>>,
         \/ Enter(a) /\ Run(made + 1, b) /\ apart' \subseteq apart \cup {made + 1} /\ hired' \subseteq hired \cup {made + 1}
         \/ NotMade(a) /\ UNCHANGED hired
  PROVE  SessionTypes'
<1>1. made \in Nat
  BY BoundsOK DEF Types, SessionTypes
<1>2. CASE /\ Enter(a) /\ Run(made + 1, b) /\ apart' \subseteq apart \cup {made + 1}
           /\ hired' \subseteq hired \cup {made + 1}
  <2>1. /\ made' = made + 1 /\ made' \in 0 .. MaxSessions /\ made + 1 \in Sessions /\ open' \subseteq 1 .. made'
        /\ env' \in [Sessions -> Accounts \cup {0}]
    BY <1>2, EnterTypes
  <2>2. live' = live \cup {made + 1} /\ runsAs' \in [Sessions -> Accounts \cup {0}]
    BY <1>2, <2>1, RunTypes
  <2>3. /\ live' \subseteq 1 .. made' /\ adrift' \subseteq live' /\ seen' \subseteq Clients \X live'
        /\ hired' \subseteq live' /\ reviewing' \subseteq live' /\ apart' \subseteq 1 .. made'
    BY <1>1, <1>2, <2>1, <2>2 DEF Types, SessionTypes
  <2> QED
    BY <2>1, <2>2, <2>3 DEF Types, SessionTypes
<1>3. CASE NotMade(a) /\ UNCHANGED hired
  <2>1. live' = live /\ runsAs' = runsAs
    BY <1>3, NotMadeTypes
  <2>2. CASE UNCHANGED <<rows, apart>>
    BY <1>3, <2>1, <2>2 DEF Types, SessionTypes, rows
  <2>3. CASE Enter(a) /\ apart' = IF a = 0 THEN apart ELSE apart \cup {made + 1}
    <3>1. /\ made' = made + 1 /\ made' \in 0 .. MaxSessions /\ open' \subseteq 1 .. made'
          /\ env' \in [Sessions -> Accounts \cup {0}]
      BY <2>3, EnterTypes
    <3>2. live' \subseteq 1 .. made' /\ apart' \subseteq 1 .. made'
      BY <1>1, <2>1, <2>3, <3>1 DEF Types, SessionTypes
    <3> QED
      BY <1>3, <2>1, <3>1, <3>2 DEF Types, SessionTypes
  <2> QED
    BY <1>3, <2>2, <2>3, NotMadeTypes
<1> QED
  BY <1>2, <1>3

\* What is known of the sessions keeps its types.
LEMMA SessionsStep ==
  ASSUME Types, Shapes, Next
  PROVE  SessionTypes'
<1> USE DEF rows, history, runs, sessions, accounts
<1>1. ASSUME UNCHANGED <<sessions, stored>>
      PROVE  SessionTypes'
  BY <1>1 DEF Types, SessionTypes
<1>2. ASSUME NEW c \in Clients, Read(c)
      PROVE  SessionTypes'
  <2>1. PICK r \in Handlers : Begin(c, r)
    BY <1>2, ReadBegins
  <2> QED
    BY <1>1, <2>1 DEF Begin
<1>3. ASSUME NEW c \in Clients,
             \/ Route(c) \/ Project(c) \/ SendPrompt(c) \/ Whose(c) \/ Health(c)
             \/ Reply(c) \/ Notify(c) \/ Write(c) \/ Drop(c)
      PROVE  SessionTypes'
  <2>1. UNCHANGED <<sessions, stored>>
    BY <1>3, ZenonT(60) DEF Route, List, Weigh, Choose, CheckFresh, Discover, Project, SendPrompt, Whose, Health,
                Reply, Notify, Write, Drop
  <2> QED
    BY <1>1, <2>1
<1>4. ASSUME NEW c \in Clients, Start(c) \/ ForkNative(c) \/ Hire(c)
      PROVE  SessionTypes'
  <2>1. CASE Start(c)
    <3>1. UNCHANGED <<adrift, seen, reviewing, fate, hired, bound, stored>>
      BY <2>1 DEF Start
    <3>2. /\ h[c].account \in Accounts \cup {0}
          /\ \/ Enter(h[c].account) /\ Run(made + 1, h[c].account) /\ UNCHANGED apart
             \/ NotMade(h[c].account)
      BY <2>1, StartSets
    <3> QED
      BY <3>1, <3>2, MakingTypes
  <2>2. CASE ForkNative(c)
    <3>1. UNCHANGED <<adrift, seen, reviewing, fate, hired, bound, stored>>
      BY <2>2 DEF ForkNative
    <3>2. PICK kept \in Accounts \cup {0} :
             /\ h[c].account \in Accounts \cup {0}
             /\ \/ /\ Enter(kept) /\ Run(made + 1, h[c].account)
                   /\ apart' = IF kept = h[c].account THEN apart ELSE apart \cup {made + 1}
                \/ NotMade(kept)
      BY <2>2, ForkSets
    <3> QED
      BY <3>1, <3>2, MakingTypes
  <2>3. CASE Hire(c)
    <3>1. UNCHANGED <<adrift, seen, reviewing, fate, bound, stored>>
      BY <2>3 DEF Hire
    <3>2. \/ Enter(0) /\ Run(made + 1, 0) /\ hired' = hired \cup {made + 1} /\ UNCHANGED apart
          \/ NotMade(0) /\ UNCHANGED hired
      BY <2>3, HireSets
    <3> QED
      BY <3>1, <3>2, MakingTypes
  <2> QED
    BY <1>4, <2>1, <2>2, <2>3
<1>5. ASSUME NEW c \in Clients, h[c].session \in Sessions, Dropped(c)
      PROVE  fate' \in [Sessions -> Fates]
  BY <1>5 DEF Dropped, Types, SessionTypes, Fates
<1>6. ASSUME NEW c \in Clients, Bind(c) \/ Parent(c)
      PROVE  SessionTypes'
  <2>1. h[c].session \in Sessions /\ h[c].session \in 1 .. made
    BY <1>6, BindSets, ParentSets
  <2>2. UNCHANGED <<made, open, env, live, adrift, runsAs, seen, hired, reviewing, stored>>
    BY <1>6 DEF Bind, Parent
  <2>3. bound' \in [Sessions -> stored' \cup {0}] /\ apart' \subseteq 1 .. made'
    BY <1>6, <2>1, <2>2 DEF Bind, Parent, Types, SessionTypes
  <2>4. fate' = fate \/ Dropped(c)
    BY <1>6 DEF Bind, Parent
  <2>5. fate' \in [Sessions -> Fates]
    BY <1>5, <2>1, <2>4 DEF Types, SessionTypes
  <2> QED
    BY <2>2, <2>3, <2>5 DEF Types, SessionTypes
<1>7. ASSUME NEW c \in Clients, Watch(c) \/ Review(c)
      PROVE  SessionTypes'
  <2>1. UNCHANGED <<made, open, env, live, adrift, runsAs, hired, fate, bound, apart, stored>>
    BY <1>7 DEF Watch, Review
  <2>2. seen' \subseteq seen \cup (Clients \X live) /\ reviewing' \subseteq reviewing \cup live
    BY <1>7 DEF Watch, Review, Reviewed
  <2> QED
    BY <2>1, <2>2 DEF Types, SessionTypes
<1>8. ASSUME NEW c \in Clients, CloseSession(c) \/ Fire(c)
      PROVE  SessionTypes'
  <2>1. h[c].session \in Sessions /\ UNCHANGED <<made, env, bound, apart, stored>>
    BY <1>8, CloseSets DEF CloseSession, Fire
  <2>2. CASE Dissolve(h[c].session)
    BY <2>1, <2>2, EndTypes DEF Dissolve
  <2>3. CASE Leave(h[c].session) /\ fate' \in {fate, [fate EXCEPT ![h[c].session] = "kept"]}
    <3>1. fate' \in [Sessions -> Fates]
      BY <2>1, <2>3 DEF Types, SessionTypes, Fates
    <3> QED
      BY <2>1, <2>3, <3>1 DEF Types, SessionTypes, Leave
  <2> QED
    BY <1>8, <2>2, <2>3 DEF CloseSession, Fire
<1>9. ASSUME NEW s \in Sessions, Ends(s)
      PROVE  SessionTypes'
  BY <1>9, EndTypes DEF Ends
<1>10. ASSUME NEW a \in Accounts, Remove(a)
       PROVE  SessionTypes'
  <2>1. bound' \in [Sessions -> stored' \cup {0}]
    BY <1>10, ZenonT(60) DEF Remove, Others, Types, SessionTypes
  <2> QED
    BY <1>10, <2>1 DEF Remove, Others, Types, SessionTypes
<1>11. ASSUME NEW a \in Accounts, SaveQuota(a) \/ SetCurrent(a)
       PROVE  SessionTypes'
  BY <1>1, <1>11 DEF SaveQuota, SetCurrent, Others
<1>12. ASSUME Tick
       PROVE  SessionTypes'
  BY <1>1, <1>12 DEF Tick, Others
<1>13. ASSUME NEW c \in Clients, Resolve(c)
       PROVE  SessionTypes'
  <2> DEFINE s == h[c].session
  <2>1. s \in 1 .. made /\ s \in Sessions /\ UNCHANGED <<rows, bound, apart, accounts>>
    BY <1>13, ResolveSets DEF Resolve
  <2>2. CASE UNCHANGED runs
    BY <1>1, <2>1, <2>2
  <2>3. CASE /\ s \in open /\ Run(s, env[s])
             /\ adrift' = adrift \ {s}
             /\ seen' = {w \in seen : w[2] # s}
             /\ hired' = hired \ {s} /\ reviewing' = reviewing \ {s}
             /\ fate' = [fate EXCEPT ![s] = IF h[c].method = "attach" THEN "none" ELSE "woken"]
    <3>1. env[s] \in Accounts \cup {0}
      BY <2>1 DEF Types, SessionTypes
    <3>2. live' = live \cup {s} /\ runsAs' \in [Sessions -> Accounts \cup {0}]
      BY <2>1, <2>3, <3>1, RunTypes
    <3>3. fate' \in [Sessions -> Fates]
      BY <2>1, <2>3 DEF Types, SessionTypes, Fates
    <3>4. seen' \subseteq Clients \X live' /\ adrift' \subseteq live'
      BY <2>3, <3>2 DEF Types, SessionTypes
    <3> QED
      BY <2>1, <2>3, <3>2, <3>3, <3>4 DEF Types, SessionTypes
  <2> QED
    BY <1>13, <2>2, <2>3 DEF Resolve
<1> QED
  BY <1>2, <1>3, <1>4, <1>6, <1>7, <1>8, <1>9, <1>10, <1>11, <1>12, <1>13, BoundsOK DEF Next, Handle

\* Nothing but a write changes the accounts, or the health of one that a handler knows.
LEMMA AccountsUnchanged ==
  ASSUME Types, Shapes, NEW c \in Clients,
         \/ Read(c) \/ Route(c) \/ Project(c) \/ Start(c) \/ Bind(c) \/ Watch(c) \/ ForkNative(c) \/ Parent(c)
         \/ Resolve(c) \/ SendPrompt(c) \/ Whose(c) \/ CloseSession(c) \/ Hire(c) \/ Review(c) \/ Fire(c)
         \/ Reply(c) \/ Notify(c) \/ Write(c) \/ Drop(c)
  PROVE  UNCHANGED accounts
<1>1. ASSUME Read(c)
      PROVE  UNCHANGED accounts
  BY <1>1, ReadBegins DEF Begin
<1> QED
  BY <1>1, ZenonT(60) DEF Route, List, Weigh, Choose, CheckFresh, Discover, Project, Start, Bind, Watch, ForkNative,
              Parent, Resolve, SendPrompt, Whose, CloseSession, Hire, Review, Fire, Reply, Notify, Write, Drop

\* The accounts keep their types.
LEMMA AccountsStep ==
  ASSUME Types, Shapes, Next
  PROVE  AccountTypes'
<1> USE DEF accounts
<1>1. ASSUME UNCHANGED accounts
      PROVE  AccountTypes'
  BY <1>1 DEF Types, AccountTypes
<1>2. ASSUME NEW c \in Clients, Health(c)
      PROVE  AccountTypes'
  <2>1. facts' \in [Accounts -> Facts]
    <3>1. facts' \in [Accounts -> Facts] \/ facts' = facts
      BY <1>2, HealthSets
    <3> QED
      BY <3>1 DEF Types, AccountTypes
  <2> QED
    BY <1>2, <2>1 DEF Health, Types, AccountTypes
<1>3. ASSUME NEW s \in Sessions, Ends(s)
      PROVE  AccountTypes'
  BY <1>1, <1>3 DEF Ends
<1>4. ASSUME Others
      PROVE  writes' \in 0 .. MaxWrites
  BY <1>4, BoundsOK DEF Others, Types, AccountTypes
<1>5. ASSUME NEW q \in [used : [Windows -> Used], checked : 0 .. MaxNow], NEW a \in Accounts
      PROVE  /\ [facts EXCEPT ![a].quota = q] \in [Accounts -> Facts]
             /\ [facts EXCEPT ![a] = [quota |-> q, failures |-> 0, failedAt |-> 0]] \in [Accounts -> Facts]
  <2>1. facts \in [Accounts -> Facts] /\ facts[a] \in Facts /\ 0 \in 0 .. MaxNow
    BY BoundsOK DEF Types, AccountTypes
  <2>2. [facts[a] EXCEPT !.quota = q] \in Facts /\ [quota |-> q, failures |-> 0, failedAt |-> 0] \in Facts
    BY <2>1 DEF Facts
  <2> QED
    BY <2>1, <2>2
<1>6. ASSUME NEW reported, NEW time \in 0 .. MaxNow
      PROVE  FromUsage(reported, time) \in [used : [Windows -> Used], checked : 0 .. MaxNow]
  <2>1. \A x : Conservative(x) \in Used
    BY DEF Conservative, Used
  <2>2. 0 \in Used
    BY DEF Used
  <2> DEFINE used == [w \in Windows |-> IF w \in DOMAIN reported THEN Conservative(reported[w]) ELSE 0]
  <2>3. used \in [Windows -> Used]
    BY <2>1, <2>2
  <2>4. FromUsage(reported, time) = [used |-> used, checked |-> time]
    BY DEF FromUsage
  <2> HIDE DEF used
  <2> QED
    BY <2>3, <2>4
<1>7. now \in 0 .. MaxNow /\ 0 \in 0 .. MaxNow
  BY BoundsOK DEF Types, AccountTypes
<1>8. ASSUME NEW a \in Accounts, SaveQuota(a)
      PROVE  AccountTypes'
  <2>1. PICK reported \in Reports : facts' = [facts EXCEPT ![a].quota = FromUsage(reported, now)]
    BY <1>8 DEF SaveQuota
  <2>2. facts' \in [Accounts -> Facts]
    BY <1>5, <1>6, <1>7, <2>1
  <2> QED
    BY <1>4, <1>8, <2>2 DEF SaveQuota, Types, AccountTypes
<1>9. ASSUME NEW a \in Accounts, SetCurrent(a)
      PROVE  AccountTypes'
  BY <1>4, <1>9 DEF SetCurrent, Types, AccountTypes
<1>10. ASSUME NEW a \in Accounts, Remove(a)
       PROVE  AccountTypes'
  <2>1. facts' \in [Accounts -> Facts]
    BY <1>5, <1>6, <1>7, <1>10 DEF Remove, NoQuota
  <2>2. stored' \subseteq Accounts /\ current' \in stored' \cup {0}
    BY <1>10 DEF Remove, Types, AccountTypes
  <2> QED
    BY <1>4, <1>10, <2>1, <2>2 DEF Remove, Types, AccountTypes
<1>11. ASSUME Tick
       PROVE  AccountTypes'
  <2>1. now' \in 1 .. MaxNow
    BY <1>11, BoundsOK DEF Tick, Types, AccountTypes
  <2> QED
    BY <1>4, <1>11, <2>1 DEF Tick, Types, AccountTypes
<1> QED
  <2>1. Changing \subseteq Accounts
    BY BoundsOK
  <2> QED
    BY <1>1, <1>2, <1>3, <1>8, <1>9, <1>10, <1>11, <2>1, AccountsUnchanged DEF Next, Handle

\* Two handlers that are at the same, whatever they know of the store.
Alike(q, p) == /\ q.at = p.at /\ q.method = p.method /\ q.account = p.account /\ q.session = p.session
               /\ q.ok = p.ok /\ q.todo = p.todo /\ q.best = p.best

\* A handler marked as having lost its session is alike.
LEMMA Orphans ==
  ASSUME HandlerTypes, NEW s
  PROVE  /\ Orphaned(h, s) \in [Clients -> Handlers]
         /\ \A c \in Clients : LET q == Orphaned(h, s)[c] IN
              /\ Alike(q, h[c])
              /\ q.gone <=> \/ h[c].gone
                            \/ /\ h[c].session = s /\ h[c].method # "send"
                               /\ h[c].at \in {"health", "bind", "parent", "watch", "review"}
              /\ h[c].at \in {"list", "select", "chosen"} => q = h[c]
<1>1. ASSUME NEW c \in Clients
      PROVE  LET q == Orphaned(h, s)[c] IN
             /\ q \in Handlers /\ Alike(q, h[c])
             /\ q.gone <=> \/ h[c].gone
                           \/ /\ h[c].session = s /\ h[c].method # "send"
                              /\ h[c].at \in {"health", "bind", "parent", "watch", "review"}
             /\ h[c].at \in {"list", "select", "chosen"} => q = h[c]
  <2>0. h[c] \in Handlers
    BY DEF HandlerTypes
  <2>1. CASE /\ h[c].session = s /\ h[c].method # "send"
             /\ h[c].at \in {"health", "bind", "parent", "watch", "review"}
    <3> DEFINE r == [h[c] EXCEPT !.gone = TRUE]
    <3>1. r \in Handlers /\ Alike(r, h[c]) /\ r.gone = TRUE
      BY <2>0, ZenonT(60) DEF Handlers, Alike
    <3>2. Orphaned(h, s)[c] = r
      BY <2>1 DEF Orphaned
    <3> HIDE DEF r
    <3> QED
      BY <2>1, <3>1, <3>2
  <2>2. CASE ~(/\ h[c].session = s /\ h[c].method # "send"
               /\ h[c].at \in {"health", "bind", "parent", "watch", "review"})
    <3>1. Orphaned(h, s)[c] = h[c]
      BY <2>2 DEF Orphaned
    <3> QED
      BY <2>0, <2>2, <3>1 DEF Alike
  <2> QED
    BY <2>1, <2>2
<1> QED
  BY <1>1 DEF Orphaned

\* A write by others disturbs the selections, and that is all.
LEMMA Disturbs ==
  ASSUME NEW g \in [Clients -> Handlers]
  PROVE  /\ Disturb(g) \in [Clients -> Handlers]
         /\ \A c \in Clients : /\ Alike(Disturb(g)[c], g[c]) /\ Disturb(g)[c].gone = g[c].gone
                               /\ Disturb(g)[c].at \in {"select", "chosen"} => ~Disturb(g)[c].calm
<1>1. ASSUME NEW c \in Clients
      PROVE  /\ Disturb(g)[c] \in Handlers /\ Alike(Disturb(g)[c], g[c]) /\ Disturb(g)[c].gone = g[c].gone
             /\ Disturb(g)[c].at \in {"select", "chosen"} => ~Disturb(g)[c].calm
  <2>1. CASE g[c].at \in {"select", "chosen"}
    <3> DEFINE r == [g[c] EXCEPT !.calm = FALSE]
    <3>1. r \in Handlers /\ Alike(r, g[c]) /\ r.calm = FALSE /\ r.gone = g[c].gone
      BY ZenonT(60) DEF Handlers, Alike
    <3>2. Disturb(g)[c] = r
      BY <2>1 DEF Disturb
    <3> HIDE DEF r
    <3> QED
      BY <3>1, <3>2
  <2>2. CASE g[c].at \notin {"select", "chosen"}
    <3>1. Disturb(g)[c] = g[c]
      BY <2>2 DEF Disturb
    <3> QED
      BY <2>2, <3>1 DEF Alike
  <2> QED
    BY <2>1, <2>2
<1> QED
  BY <1>1 DEF Disturb

\* The steps at which a handler is not at rest, and not selecting.
LEMMA ReadSets ==
  ASSUME Types, NEW c \in Clients, Read(c)
  PROVE  /\ h[c].at = "idle" /\ UNCHANGED <<scope, up, out, subs, sessions, accounts>>
         /\ up[c] /\ owed' = [owed EXCEPT ![c] = @ + 1]
         /\ \E r \in Handlers : Sets(c, r) /\ Shape(r)' /\ r.at \in Firsts /\ (r.method = "review" => r.at = "hire")
<1>1. PICK r \in Handlers : Begin(c, r) /\ Shape(r) /\ r.at \in Firsts /\ (r.method = "review" => r.at = "hire")
  BY ReadBegins
<1>2. Sets(c, r) /\ made' = made /\ h[c].at = "idle" /\ UNCHANGED <<scope, up, out, subs, sessions, accounts>>
  BY <1>1 DEF Begin, Sets, sessions, rows, At
<1>3. up[c] /\ owed' = [owed EXCEPT ![c] = @ + 1]
  BY <1>1 DEF Begin
<1>4. Shape(r)'
  BY <1>1, <1>2 DEF Shape
<1> QED
  BY <1>1, <1>2, <1>3, <1>4

\* The handler of one connection, whatever it does, holds what its next step needs; the
\* others keep theirs, or lose their session.
LEMMA HandleSets ==
  ASSUME Types, Shapes, NEW c \in Clients, Read(c) \/ Route(c) \/ (Handle(c) /\ ~Health(c))
  PROVE  \E r \in Handlers : /\ Shape(r)' /\ r.at # "idle"
                             /\ Sets(c, r) \/ \E s \in Sessions : h' = [Orphaned(h, s) EXCEPT ![c] = r]
<1>1. ASSUME Read(c)
      PROVE  \E r \in Handlers : Sets(c, r) /\ Shape(r)' /\ r.at # "idle"
  BY <1>1, ReadSets DEF Firsts
<1>2. CASE List(c)
  <2>1. \E r \in Handlers : Sets(c, r) /\ Shape(r)' /\ r.at = "select"
    BY <1>2, ListSets
  <2> QED
    BY <2>1
<1>3. CASE Weigh(c)
  <2>1. \E r \in Handlers : Sets(c, r) /\ Shape(r)' /\ r.at = "select"
    BY <1>3, WeighSets
  <2> QED
    BY <2>1
<1>4. CASE Choose(c)
  <2>1. \E r \in Handlers : Sets(c, r) /\ Shape(r)' /\ r.at \in {"reply", "chosen"}
    BY <1>4, ChooseSets
  <2> QED
    BY <2>1
<1>5. CASE CheckFresh(c) \/ Discover(c) \/ Project(c) \/ SendPrompt(c) \/ Whose(c)
  <2>1. PICK r \in Handlers : Sets(c, r) /\ Shape(r)' /\ Leads(r)
    BY <1>5, FreeSets
  <2>2. r.at # "idle"
    BY <2>1 DEF Leads
  <2> QED
    BY <2>1, <2>2
<1>6. CASE Start(c)
  <2>1. \E r \in Handlers : Sets(c, r) /\ Shape(r)' /\ r.at \in {"watch", "health", "reply"}
    BY <1>6, StartSets
  <2> QED
    BY <2>1
<1>7. CASE ForkNative(c)
  <2>1. \E r \in Handlers : Sets(c, r) /\ Shape(r)' /\ r.at \in {"parent", "reply"}
    BY <1>7, ForkSets
  <2> QED
    BY <2>1
<1>8. CASE Hire(c)
  <2>1. \E r \in Handlers : Sets(c, r) /\ Shape(r)' /\ r.at \in {"watch", "reply"}
    BY <1>8, HireSets
  <2> QED
    BY <2>1
<1>9. CASE Bind(c)
  <2>1. \E r \in Handlers : Sets(c, r) /\ Shape(r)' /\ r.at \in {"watch", "reply"}
    BY <1>9, BindSets
  <2> QED
    BY <2>1
<1>10. CASE Watch(c)
  <2>1. \E r \in Handlers : Sets(c, r) /\ Shape(r)' /\ r.at \in {"review", "reply"}
    BY <1>10, WatchSets
  <2> QED
    BY <2>1
<1>11. CASE Parent(c)
  <2>1. \E r \in Handlers : Sets(c, r) /\ Shape(r)' /\ r.at \in {"watch", "bind", "reply"}
    BY <1>11, ParentSets
  <2> QED
    BY <2>1
<1>12. CASE Review(c)
  <2>1. \E r \in Handlers : Sets(c, r) /\ Shape(r)' /\ r.at \in {"hire", "fire", "reply"}
    BY <1>12, ReviewSets
  <2> QED
    BY <2>1
<1>13. CASE CloseSession(c) \/ Fire(c)
  <2>1. PICK r \in Handlers :
          /\ Shape(r)' /\ r.at = "reply"
          /\ h' = [Orphaned(h, h[c].session) EXCEPT ![c] = r] \/ Sets(c, r)
    BY <1>13, CloseSets
  <2>2. h[c].session \in Sessions
    BY <1>13, CloseSets
  <2> QED
    BY <2>1, <2>2
<1>14. CASE Resolve(c)
  <2>1. PICK r \in Handlers :
          /\ Shape(r)' /\ r.at \in {"watch", "fork", "send", "reply"}
          /\ h' = [Orphaned(h, h[c].session) EXCEPT ![c] = r] \/ Sets(c, r)
    BY <1>14, ResolveSets
  <2>2. h[c].session \in Sessions /\ r.at # "idle"
    BY <1>14, <2>1, ResolveSets
  <2> QED
    BY <2>1, <2>2
<1> QED
  BY <1>1, <1>2, <1>3, <1>4, <1>5, <1>6, <1>7, <1>8, <1>9, <1>10, <1>11, <1>12, <1>13, <1>14 DEF Route, Handle

\* Sessions are only added.
LEMMA MadeGrows ==
  ASSUME Types, Next
  PROVE  made \in Nat /\ made' \in Nat /\ made' >= made
<1> USE DEF rows
<1>1. made \in Nat
  BY BoundsOK DEF Types, SessionTypes
<1>2. made' = made \/ made' = made + 1
  <2>1. ASSUME NEW c \in Clients, Read(c)
        PROVE  made' = made
    BY <2>1, ReadSets DEF sessions
  <2>2. ASSUME NEW c \in Clients, Route(c) \/ Handle(c)
        PROVE  made' = made \/ made' = made + 1
    <3>1. CASE Route(c)
      BY <3>1, ZenonT(60) DEF sessions, Route, List, Weigh, Choose, CheckFresh, Discover
    <3>2. CASE Start(c) \/ ForkNative(c) \/ Hire(c)
      BY <3>2 DEF Start, ForkNative, Hire, Enter, NotMade
    <3>3. CASE Project(c) \/ Health(c) \/ SendPrompt(c) \/ Whose(c)
      BY <3>3 DEF sessions, Project, Health, SendPrompt, Whose
    <3>4. CASE Bind(c) \/ Watch(c) \/ Parent(c) \/ CloseSession(c) \/ Review(c) \/ Fire(c) \/ Resolve(c)
      BY <3>4 DEF Bind, Watch, Parent, CloseSession, Review, Fire, Resolve
    <3> QED
      BY <2>2, <3>1, <3>2, <3>3, <3>4 DEF Handle
  <2>3. ASSUME NEW c \in Clients, Reply(c) \/ Notify(c) \/ Write(c) \/ Drop(c)
        PROVE  made' = made
    BY <2>3 DEF sessions, Reply, Notify, Write, Drop
  <2>4. ASSUME NEW s \in Sessions, Ends(s)
        PROVE  made' = made
    BY <2>4 DEF Ends
  <2>5. ASSUME Others
        PROVE  made' = made
    BY <2>5 DEF Others
  <2> QED
    BY <2>1, <2>2, <2>3, <2>4, <2>5 DEF Next, SaveQuota, SetCurrent, Remove, Tick
<1> QED
  BY <1>1, <1>2

\* Handlers that are alike, and have lost a session at a step that may, keep their shapes.
LEMMA ShapesKeep ==
  ASSUME Shapes, HandlerTypes, made \in Nat, made' \in Nat, made' >= made, NEW g \in [Clients -> Handlers],
         \A d \in Clients : /\ Alike(g[d], h[d])
                            /\ g[d].gone => h[d].gone \/ h[d].at \in {"health", "bind", "parent", "watch", "review"}
  PROVE  \A d \in Clients : \E q \in Handlers : q = g[d] /\ Shape(q)'
<1>1. ASSUME NEW d \in Clients
      PROVE  \E q \in Handlers : q = g[d] /\ Shape(q)'
  <2>1. PICK p \in Handlers : p = h[d] /\ Shape(p)
    BY DEF HandlerTypes, Shapes
  <2>2. PICK q \in Handlers : q = g[d] /\ Alike(q, p)
                              /\ (q.gone => p.gone \/ p.at \in {"health", "bind", "parent", "watch", "review"})
    BY <2>1
  <2>3. p.session \in Int /\ p.todo \in Int
    BY DEF Handlers, Sessions
  <2>4. Shape(q)'
    BY <2>1, <2>2, <2>3 DEF Shape, Alike
  <2> QED
    BY <2>2, <2>4
<1> QED
  BY <1>1

\* The handlers keep their types and their shapes.
LEMMA HandlersStep ==
  ASSUME Types, Shapes, Next
  PROVE  HandlerTypes' /\ Shapes'
<1>1. HandlerTypes /\ made \in Nat /\ made' \in Nat /\ made' >= made
  BY MadeGrows DEF Types
<1>2. ASSUME NEW g \in [Clients -> Handlers], NEW c \in Clients, NEW r \in Handlers, h' = [g EXCEPT ![c] = r],
             Shape(r)', \A d \in Clients : \E q \in Handlers : q = g[d] /\ Shape(q)'
      PROVE  HandlerTypes' /\ Shapes'
  <2>1. ASSUME NEW d \in Clients
        PROVE  \E q \in Handlers : h'[d] = q /\ Shape(q)'
    BY <1>2
  <2>2. HandlerTypes'
    BY <1>2 DEF HandlerTypes
  <2> QED
    BY <2>1, <2>2 DEF Shapes, Shape
<1>3. ASSUME NEW g \in [Clients -> Handlers], h' = g, \A d \in Clients : \E q \in Handlers : q = g[d] /\ Shape(q)'
      PROVE  HandlerTypes' /\ Shapes'
  BY <1>3 DEF HandlerTypes, Shapes, Shape
<1>4. \A d \in Clients : \E q \in Handlers : q = h[d] /\ Shape(q)'
  BY <1>1, ShapesKeep DEF HandlerTypes, Alike
<1>5. ASSUME NEW s \in Sessions
      PROVE  Orphaned(h, s) \in [Clients -> Handlers] /\ \A d \in Clients : \E q \in Handlers : q = Orphaned(h, s)[d] /\ Shape(q)'
  <2>1. PICK g \in [Clients -> Handlers] : g = Orphaned(h, s)
    BY <1>1, Orphans
  <2>2. \A d \in Clients : /\ Alike(g[d], h[d])
                           /\ g[d].gone => h[d].gone \/ h[d].at \in {"health", "bind", "parent", "watch", "review"}
    BY <1>1, <2>1, Orphans
  <2> QED
    BY <1>1, <2>1, <2>2, ShapesKeep
<1>6. ASSUME NEW g \in [Clients -> Handlers], h' = Disturb(g),
             \A c \in Clients : \E q \in Handlers : q = g[c] /\ Shape(q)'
      PROVE  HandlerTypes' /\ Shapes'
  <2>1. ASSUME NEW c \in Clients
        PROVE  \E q \in Handlers : h'[c] = q /\ Shape(q)'
    <3>1. PICK p \in Handlers : p = g[c] /\ Shape(p)'
      BY <1>6
    <3>2. PICK q \in Handlers : q = h'[c] /\ Alike(q, p) /\ q.gone = p.gone
      BY <1>6, <3>1, Disturbs
    <3>3. Shape(q)'
      BY <3>1, <3>2 DEF Shape, Alike
    <3> QED
      BY <3>2, <3>3
  <2>2. HandlerTypes'
    BY <1>6, Disturbs DEF HandlerTypes
  <2> QED
    BY <2>1, <2>2 DEF Shapes, Shape
<1>7. ASSUME NEW c \in Clients, Health(c)
      PROVE  HandlerTypes' /\ Shapes'
  <2>1. PICK r \in Handlers : Shape(r)' /\ (h' = Disturb([h EXCEPT ![c] = r]) \/ Sets(c, r))
    BY <1>7, HealthSets
  <2>2. PICK g \in [Clients -> Handlers] : g = [h EXCEPT ![c] = r]
    BY <1>1 DEF HandlerTypes
  <2>3. ASSUME NEW d \in Clients
        PROVE  \E q \in Handlers : q = g[d] /\ Shape(q)'
    BY <1>1, <1>4, <2>1, <2>2 DEF HandlerTypes
  <2> QED
    BY <1>3, <1>6, <2>1, <2>2, <2>3 DEF Sets
<1>8. ASSUME Others
      PROVE  HandlerTypes' /\ Shapes'
  BY <1>1, <1>4, <1>6, <1>8 DEF HandlerTypes, Others
<1>9. ASSUME NEW c \in Clients, Reply(c)
      PROVE  HandlerTypes' /\ Shapes'
  <2>1. PICK r \in Handlers : r = Idle
    BY RestTypes
  <2>2. h' = [h EXCEPT ![c] = r] /\ r.at = "idle" /\ r.method = "none" /\ r.session = 0 /\ r.gone = FALSE
    BY <1>9, <2>1, RestTypes DEF Reply
  <2>3. Shape(r)'
    BY <1>1, <2>2 DEF Shape
  <2> QED
    BY <1>1, <1>2, <1>4, <2>2, <2>3 DEF HandlerTypes
<1>10. ASSUME NEW c \in Clients, Read(c) \/ Route(c) \/ (Handle(c) /\ ~Health(c))
       PROVE  HandlerTypes' /\ Shapes'
  <2>1. PICK r \in Handlers : Shape(r)' /\ (Sets(c, r) \/ \E s \in Sessions : h' = [Orphaned(h, s) EXCEPT ![c] = r])
    BY <1>10, HandleSets
  <2>2. CASE Sets(c, r)
    BY <1>1, <1>2, <1>4, <2>1, <2>2 DEF Sets, HandlerTypes
  <2>3. CASE \E s \in Sessions : h' = [Orphaned(h, s) EXCEPT ![c] = r]
    BY <1>2, <1>5, <2>1, <2>3
  <2> QED
    BY <2>1, <2>2, <2>3
<1>11. ASSUME NEW c \in Clients, Notify(c) \/ Write(c) \/ Drop(c)
       PROVE  HandlerTypes' /\ Shapes'
  <2>1. h' = h
    BY <1>11 DEF Notify, Write, Drop
  <2> QED
    BY <1>1, <1>3, <1>4, <2>1 DEF HandlerTypes
<1>12. ASSUME NEW s \in Sessions, Ends(s)
       PROVE  HandlerTypes' /\ Shapes'
  <2>1. h' = Orphaned(h, s)
    BY <1>12 DEF Ends
  <2> QED
    BY <1>3, <1>5, <2>1
<1>13. CASE \E c \in Clients : Read(c) \/ Route(c) \/ Handle(c) \/ Reply(c) \/ Notify(c) \/ Write(c) \/ Drop(c)
  BY <1>7, <1>9, <1>10, <1>11, <1>13
<1> QED
  BY <1>8, <1>12, <1>13 DEF Next, SaveQuota, SetCurrent, Remove, Tick

\* At first nothing runs and no handler is busy.
LEMMA InitTypes ==
  ASSUME Init
  PROVE  Types /\ Shapes
<1>1. \A c \in Clients : h[c] = Idle
  BY DEF Init
<1>2. HandlerTypes
  BY RestTypes DEF Init, HandlerTypes
<1>3. Shapes
  <2>1. PICK r \in Handlers : r = Idle
    BY RestTypes
  <2>2. Shape(r)
    <3>1. r.at = "idle" /\ r.method = "none" /\ r.session = 0 /\ r.gone = FALSE /\ made \in Nat
      BY <2>1, RestTypes, EarlierOK DEF Init
    <3> QED
      BY <3>1 DEF Shape
  <2> QED
    BY <1>1, <2>1, <2>2 DEF Shapes
<1>4. ConnectionTypes
  <2>1. << >> \in Seq({"reply", "event"}) /\ Len(<< >>) = 0
    OBVIOUS
  <2>2. Capacity \in Nat /\ MaxRequests \in Nat
    BY BoundsOK
  <2> QED
    BY <2>1, <2>2 DEF Init, ConnectionTypes
<1>5. SessionTypes
  <2>1. PICK e \in Earlier : /\ made = Len(e) /\ open = 1 .. Len(e)
                             /\ env = [s \in Sessions |-> IF s <= Len(e) THEN e[s] ELSE 0]
    BY DEF Init
  <2>2. e \in Seq(Accounts \cup {0}) /\ Len(e) \in Nat /\ Len(e) <= MaxSessions /\ MaxSessions \in Nat
    BY BoundsOK, EarlierOK
  <2>3. \A s \in Sessions : s <= Len(e) => e[s] \in Accounts \cup {0}
    BY <2>2 DEF Sessions
  <2>4. env \in [Sessions -> Accounts \cup {0}]
    BY <2>1, <2>3
  <2>5. /\ bound = env /\ stored = Accounts /\ live = {} /\ adrift = {} /\ runsAs = [s \in Sessions |-> 0]
        /\ seen = {} /\ hired = {} /\ reviewing = {} /\ apart = {} /\ fate = [s \in Sessions |-> "none"]
    BY DEF Init
  <2>6. made \in 0 .. MaxSessions /\ open \subseteq 1 .. made
    BY <2>1, <2>2
  <2>7. fate \in [Sessions -> Fates]
    BY <2>5 DEF Fates
  <2> QED
    BY <2>4, <2>5, <2>6, <2>7 DEF SessionTypes
<1>6. AccountTypes
  BY BoundsOK, FactsOK DEF Init, AccountTypes
<1> QED
  BY <1>2, <1>3, <1>4, <1>5, <1>6 DEF Types

\* And so on, step by step.
LEMMA TypesStep ==
  ASSUME Types, Shapes, [Next]_vars
  PROVE  Types' /\ Shapes'
<1>1. CASE Next
  BY <1>1, ConnectionsStep, SessionsStep, AccountsStep, HandlersStep DEF Types
<1>2. CASE UNCHANGED vars
  <2>1. Types'
    BY <1>2 DEF vars, connections, sessions, rows, runs, history, accounts, Types, ConnectionTypes, HandlerTypes, SessionTypes,
                AccountTypes
  <2>2. Shapes'
    BY <1>2 DEF vars, sessions, rows, Shapes, Shape
  <2> QED
    BY <2>1, <2>2
<1> QED
  BY <1>1, <1>2

\* Every state is one of the right types, with no more in a queue than it has room for and no
\* subscription to a session that does not run (TypeOK).
THEOREM TypeCorrect == Spec => []TypeOK
<1>1. Init => Types /\ Shapes
  BY InitTypes
<1>2. (Types /\ Shapes) /\ [Next]_vars => (Types /\ Shapes)'
  BY TypesStep
<1>3. Types /\ Shapes => TypeOK
  BY TypeParts
<1> QED
  BY <1>1, <1>2, <1>3, PTL DEF Spec
-----------------------------------------------------------------------------
(* Answers.                                                                   *)

\* The answers of a queue.
Where(q) == {i \in DOMAIN q : q[i] = "reply"}
Count(q) == Cardinality(Where(q))

\* They are finitely many.
LEMMA CountType ==
  ASSUME NEW q \in Seq({"reply", "event"})
  PROVE  IsFiniteSet(Where(q)) /\ Count(q) \in Nat
<1>1. DOMAIN q = 1 .. Len(q) /\ Len(q) \in Nat
  OBVIOUS
<1>2. IsFiniteSet(DOMAIN q)
  BY <1>1, FS_Interval
<1>3. Where(q) \in SUBSET DOMAIN q
  BY DEF Where
<1> QED
  BY <1>2, <1>3, FS_Subset, FS_CardinalityType DEF Count

\* A message more.
LEMMA CountAppend ==
  ASSUME NEW q \in Seq({"reply", "event"}), NEW m \in {"reply", "event"}
  PROVE  Count(Append(q, m)) = Count(q) + (IF m = "reply" THEN 1 ELSE 0)
<1>1. IsFiniteSet(Where(q)) /\ Count(q) \in Nat
  BY CountType
<1>2. Where(Append(q, m)) = IF m = "reply" THEN Where(q) \cup {Len(q) + 1} ELSE Where(q)
  BY DEF Where
<1>3. Len(q) + 1 \notin Where(q)
  BY DEF Where
<1>4. CASE m = "reply"
  <2>1. Cardinality(Where(q) \cup {Len(q) + 1}) = Cardinality(Where(q)) + 1
    BY <1>1, <1>3, FS_AddElement
  <2> QED
    BY <1>2, <1>4, <2>1 DEF Count
<1>5. CASE m # "reply"
  BY <1>1, <1>2, <1>5 DEF Count
<1> QED
  BY <1>4, <1>5

\* The first message is gone.
LEMMA CountTail ==
  ASSUME NEW q \in Seq({"reply", "event"}), q # << >>
  PROVE  Count(Tail(q)) = Count(q) - (IF Head(q) = "reply" THEN 1 ELSE 0)
<1>1. IsFiniteSet(Where(q)) /\ Count(q) \in Nat
  BY CountType
<1>2. Tail(q) \in Seq({"reply", "event"}) /\ Len(q) \in Nat /\ Len(q) >= 1 /\ Len(Tail(q)) = Len(q) - 1
      /\ \A i \in 1 .. Len(q) - 1 : Tail(q)[i] = q[i + 1]
  OBVIOUS
<1> DEFINE rest == Where(q) \ {1}
           shift == [i \in Where(Tail(q)) |-> i + 1]
<1>3. IsFiniteSet(Where(Tail(q)))
  BY <1>2, CountType
<1>4. Where(Tail(q)) = {i \in 1 .. Len(q) - 1 : q[i + 1] = "reply"}
  BY <1>2 DEF Where
<1>5. Where(q) = {i \in 1 .. Len(q) : q[i] = "reply"}
  BY <1>2 DEF Where
<1>6. shift \in [Where(Tail(q)) -> rest]
  BY <1>2, <1>4, <1>5
<1>7. \A a, b \in Where(Tail(q)) : shift[a] = shift[b] => a = b
  BY <1>2, <1>4
<1>8. \A t \in rest : \E s \in Where(Tail(q)) : shift[s] = t
  <2>1. ASSUME NEW t \in rest
        PROVE  \E s \in Where(Tail(q)) : shift[s] = t
    <3>1. t - 1 \in Where(Tail(q))
      BY <1>2, <1>4, <1>5
    <3>2. shift[t - 1] = t
      BY <1>5, <3>1
    <3> QED
      BY <3>1, <3>2
  <2> QED
    BY <2>1
<1>9. Count(Tail(q)) = Cardinality(rest)
  <2>1. shift \in Bijection(Where(Tail(q)), rest)
    BY <1>6, <1>7, <1>8, Fun_IsBij
  <2>2. ExistsBijection(Where(Tail(q)), rest)
    BY <2>1, Fun_ExistsBij
  <2> HIDE DEF rest
  <2> QED
    BY <1>3, <2>2, FS_Bijection DEF Count
<1>10. Cardinality(rest) = Count(q) - (IF 1 \in Where(q) THEN 1 ELSE 0)
  <2>1. Cardinality(rest) = IF 1 \in Where(q) THEN Cardinality(Where(q)) - 1 ELSE Cardinality(Where(q))
    BY <1>1, FS_RemoveElement
  <2>2. Cardinality(Where(q)) = Count(q)
    BY DEF Count
  <2> HIDE DEF rest
  <2> QED
    BY <1>1, <2>1, <2>2
<1>11. 1 \in Where(q) <=> Head(q) = "reply"
  BY <1>2, <1>5
<1> QED
  BY <1>1, <1>9, <1>10, <1>11

\* The account of one connection: what it is owed, if it is up.
Owed(c) == up[c] => owed[c] = Replies(c) + (IF h[c].at = "idle" THEN 0 ELSE 1)

\* A connection whose queue and whose business stay is owed what it was.
LEMMA OwedStays ==
  ASSUME NEW c \in Clients, Owed(c), UNCHANGED <<up, out, owed>>, h'[c].at = "idle" <=> h[c].at = "idle"
  PROVE  Owed(c)'
<1>1. Replies(c)' = Replies(c)
  BY DEF Replies
<1> QED
  BY <1>1 DEF Owed

\* The count of a queue is that of its answers.
LEMMA RepliesCount ==
  ASSUME NEW c \in Clients
  PROVE  Replies(c) = Count(out[c]) /\ Replies(c)' = Count(out'[c])
  BY DEF Replies, Count, Where

\* A message for the queue of a connection: an answer is one owed and one there.
LEMMA EnqueueCounts ==
  ASSUME Types, NEW c \in Clients, NEW m \in {"reply", "event"}, Enqueue(c, m)
  PROVE  /\ \A d \in Clients \ {c} : up'[d] = up[d] /\ out'[d] = out[d] /\ owed'[d] = owed[d]
         /\ up'[c] => /\ up[c] /\ owed'[c] = owed[c]
                      /\ Count(out'[c]) = Count(out[c]) + (IF m = "reply" THEN 1 ELSE 0)
<1>1. /\ up \in [Clients -> BOOLEAN] /\ out \in [Clients -> Seq({"reply", "event"})]
      /\ owed \in [Clients -> Int]
  BY DEF Types, ConnectionTypes
<1>2. CASE ~up[c] /\ UNCHANGED <<out, up, subs, owed>>
  BY <1>2
<1>3. CASE up[c] /\ Queue(c, m)
  <2>1. out' = [out EXCEPT ![c] = Append(out[c], m)] /\ UNCHANGED <<up, owed>>
    BY <1>3 DEF Queue
  <2>2. out'[c] = Append(out[c], m) /\ \A d \in Clients \ {c} : out'[d] = out[d]
    BY <1>1, <2>1
  <2>3. Count(Append(out[c], m)) = Count(out[c]) + (IF m = "reply" THEN 1 ELSE 0)
    BY <1>1, CountAppend
  <2> QED
    BY <1>3, <2>1, <2>2, <2>3
<1>4. CASE GiveUp(c)
  BY <1>1, <1>4 DEF GiveUp
<1> QED
  BY <1>2, <1>3, <1>4 DEF Enqueue

\* The answers that are owed, step by step.
LEMMA OwedStep ==
  ASSUME Types, Shapes, Next, \A c \in Clients : Owed(c), NEW d \in Clients
  PROVE  Owed(d)'
<1>1. /\ up \in [Clients -> BOOLEAN] /\ out \in [Clients -> Seq({"reply", "event"})]
      /\ owed \in [Clients -> Int] /\ h \in [Clients -> Handlers]
  BY DEF Types, ConnectionTypes, HandlerTypes
<1>2. Count(out[d]) \in Nat /\ Owed(d)
  BY <1>1, CountType
<1>3. ASSUME NEW c \in Clients, Read(c)
      PROVE  Owed(d)'
  <2>1. PICK r \in Handlers : Sets(c, r) /\ r.at \in Firsts
    BY <1>3, ReadSets
  <2>2. h[c].at = "idle" /\ UNCHANGED <<up, out>> /\ owed' = [owed EXCEPT ![c] = @ + 1]
    BY <1>3, ReadSets
  <2>3. CASE d = c
    <3>1. h'[d].at # "idle" /\ owed'[d] = owed[d] + 1
      BY <1>1, <2>1, <2>2, <2>3 DEF Sets, Firsts
    <3> QED
      BY <1>2, <2>2, <2>3, <3>1, RepliesCount DEF Owed
  <2>4. CASE d # c
    <3>1. h'[d] = h[d] /\ owed'[d] = owed[d]
      BY <1>1, <2>1, <2>2, <2>4 DEF Sets
    <3> QED
      BY <1>2, <2>2, <3>1, RepliesCount DEF Owed
  <2> QED
    BY <2>3, <2>4
<1>4. ASSUME NEW c \in Clients, Route(c) \/ (Handle(c) /\ ~Health(c))
      PROVE  Owed(d)'
  <2>1. PICK r \in Handlers :
          r.at # "idle" /\ (Sets(c, r) \/ \E s \in Sessions : h' = [Orphaned(h, s) EXCEPT ![c] = r])
    BY <1>4, HandleSets
  <2>2. h[c].at # "idle" /\ UNCHANGED <<up, out, owed>>
    <3>1. CASE Route(c)
      BY <3>1, ZenonT(60) DEF Route, List, Weigh, Choose, CheckFresh, Discover, At, connections
    <3>2. CASE Project(c) \/ Start(c) \/ Bind(c) \/ Watch(c) \/ ForkNative(c) \/ Parent(c)
      BY <3>2 DEF Project, Start, Bind, Watch, ForkNative, Parent, At, connections
    <3>3. CASE SendPrompt(c) \/ Whose(c) \/ CloseSession(c) \/ Hire(c) \/ Review(c) \/ Fire(c) \/ Resolve(c)
      BY <3>3 DEF SendPrompt, Whose, CloseSession, Hire, Review, Fire, Resolve, At, connections
    <3> QED
      BY <1>4, <3>1, <3>2, <3>3 DEF Handle
  <2>3. h'[d].at = "idle" <=> h[d].at = "idle"
    <3>1. CASE Sets(c, r)
      BY <1>1, <2>1, <2>2, <3>1 DEF Sets
    <3>2. ASSUME NEW s \in Sessions, h' = [Orphaned(h, s) EXCEPT ![c] = r]
          PROVE  h'[d].at = "idle" <=> h[d].at = "idle"
      <4>1. PICK g \in [Clients -> Handlers] : g = Orphaned(h, s)
        BY <1>1, Orphans DEF HandlerTypes
      <4>2. g[d].at = h[d].at
        BY <1>1, <4>1, Orphans DEF HandlerTypes, Alike
      <4> QED
        BY <2>1, <2>2, <3>2, <4>1, <4>2
    <3> QED
      BY <2>1, <3>1, <3>2
  <2> QED
    BY <1>2, <2>2, <2>3, OwedStays
<1>5. ASSUME NEW g \in [Clients -> Handlers], h' = Disturb(g), g[d].at = "idle" <=> h[d].at = "idle",
             UNCHANGED connections
      PROVE  Owed(d)'
  <2>1. h'[d].at = g[d].at
    BY <1>5, Disturbs DEF Alike
  <2> QED
    BY <1>2, <1>5, <2>1, OwedStays DEF connections
<1>6. ASSUME NEW c \in Clients, Health(c)
      PROVE  Owed(d)'
  <2>1. PICK r \in Handlers : r.at \in {"bind", "reply"} /\ (h' = Disturb([h EXCEPT ![c] = r]) \/ Sets(c, r))
    BY <1>6, HealthSets
  <2>2. h[c].at = "health" /\ UNCHANGED connections
    BY <1>6 DEF Health, At
  <2>3. PICK g \in [Clients -> Handlers] : g = [h EXCEPT ![c] = r]
    BY <1>1
  <2>4. g[d].at = "idle" <=> h[d].at = "idle"
    BY <1>1, <2>1, <2>2, <2>3
  <2>5. CASE h' = Disturb([h EXCEPT ![c] = r])
    BY <1>5, <2>2, <2>3, <2>4, <2>5
  <2>6. CASE Sets(c, r)
    BY <1>2, <2>2, <2>3, <2>4, <2>6, OwedStays DEF Sets, connections
  <2> QED
    BY <2>1, <2>5, <2>6
<1>7. ASSUME NEW c \in Clients, Reply(c)
      PROVE  Owed(d)'
  <2>1. h' = [h EXCEPT ![c] = Idle] /\ h[c].at = "reply" /\ Enqueue(c, "reply")
    BY <1>7 DEF Reply, At
  <2>2. CASE d = c
    <3>1. h'[d].at = "idle"
      BY <1>1, <2>1, <2>2, RestTypes
    <3> QED
      BY <1>2, <2>1, <2>2, <3>1, EnqueueCounts, RepliesCount DEF Owed
  <2>3. CASE d # c
    <3>1. h'[d] = h[d]
      BY <1>1, <2>1, <2>3
    <3> QED
      BY <1>2, <2>1, <2>3, <3>1, EnqueueCounts, RepliesCount DEF Owed
  <2> QED
    BY <2>2, <2>3
<1>8. ASSUME NEW c \in Clients, Notify(c)
      PROVE  Owed(d)'
  <2>1. h' = h /\ Enqueue(c, "event")
    BY <1>8 DEF Notify
  <2>2. CASE d = c
    BY <1>2, <2>1, <2>2, EnqueueCounts, RepliesCount DEF Owed
  <2>3. CASE d # c
    BY <1>2, <2>1, <2>3, EnqueueCounts, RepliesCount DEF Owed
  <2> QED
    BY <2>2, <2>3
<1>9. ASSUME NEW c \in Clients, Write(c)
      PROVE  Owed(d)'
  <2>1. h' = h /\ up' = up /\ out[c] # << >> /\ out' = [out EXCEPT ![c] = Tail(@)]
        /\ owed' = IF Head(out[c]) = "reply" THEN [owed EXCEPT ![c] = @ - 1] ELSE owed
    BY <1>9 DEF Write
  <2>2. CASE d = c
    <3>1. out'[d] = Tail(out[d]) /\ owed'[d] = owed[d] - (IF Head(out[d]) = "reply" THEN 1 ELSE 0)
      BY <1>1, <2>1, <2>2
    <3>2. Count(Tail(out[d])) = Count(out[d]) - (IF Head(out[d]) = "reply" THEN 1 ELSE 0)
      BY <1>1, <2>1, <2>2, CountTail
    <3> QED
      BY <1>2, <2>1, <3>1, <3>2, RepliesCount DEF Owed
  <2>3. CASE d # c
    <3>1. out'[d] = out[d] /\ owed'[d] = owed[d]
      BY <1>1, <2>1, <2>3
    <3> QED
      BY <1>2, <2>1, <3>1, RepliesCount DEF Owed
  <2> QED
    BY <2>2, <2>3
<1>10. ASSUME NEW c \in Clients, Drop(c)
       PROVE  Owed(d)'
  <2>1. h' = h /\ GiveUp(c)
    BY <1>10 DEF Drop
  <2>2. CASE d = c
    BY <1>1, <2>1, <2>2 DEF Owed, GiveUp
  <2>3. CASE d # c
    <3>1. up'[d] = up[d] /\ out'[d] = out[d] /\ owed'[d] = owed[d]
      BY <1>1, <2>1, <2>3 DEF GiveUp
    <3> QED
      BY <1>2, <2>1, <3>1, RepliesCount DEF Owed
  <2> QED
    BY <2>2, <2>3
<1>11. ASSUME NEW s \in Sessions, Ends(s)
       PROVE  Owed(d)'
  <2>1. h' = Orphaned(h, s) /\ UNCHANGED <<up, out, owed>>
    BY <1>11 DEF Ends
  <2>2. h'[d].at = h[d].at
    BY <1>1, <2>1, Orphans DEF HandlerTypes, Alike
  <2> QED
    BY <1>2, <2>1, <2>2, OwedStays
<1>12. ASSUME Others
       PROVE  Owed(d)'
  <2>1. PICK g \in [Clients -> Handlers] : g = h
    BY <1>1
  <2> QED
    BY <1>5, <1>12, <2>1 DEF Others
<1>13. CASE \E c \in Clients : Read(c) \/ Route(c) \/ Handle(c) \/ Reply(c) \/ Notify(c) \/ Write(c) \/ Drop(c)
  BY <1>3, <1>4, <1>6, <1>7, <1>8, <1>9, <1>10, <1>13
<1> QED
  BY <1>11, <1>12, <1>13 DEF Next, SaveQuota, SetCurrent, Remove, Tick

\* An answer that is read for is in the queue or being worked on, as long as the connection is up
\* (AnswersArrive).
THEOREM AnswersCorrect == Spec => []AnswersArrive
<1> DEFINE Answers == \A c \in Clients : Owed(c)
<1>1. Init => Types /\ Shapes /\ Answers
  <2>1. ASSUME Init, NEW c \in Clients
        PROVE  Owed(c)
    <3>1. DOMAIN << >> = {}
      OBVIOUS
    <3>2. Replies(c) = 0
      <4>1. Count(<< >>) = 0
        BY <3>1, FS_EmptySet DEF Count, Where
      <4> QED
        BY <2>1, <4>1, RepliesCount DEF Init
    <3> QED
      BY <2>1, <3>2, RestTypes DEF Init, Owed
  <2> QED
    BY <2>1, InitTypes
<1>2. (Types /\ Shapes /\ Answers) /\ [Next]_vars => (Types /\ Shapes /\ Answers)'
  <2>1. ASSUME Types, Shapes, Answers, Next
        PROVE  Answers'
    BY <2>1, OwedStep
  <2>2. ASSUME Answers, UNCHANGED vars
        PROVE  Answers'
    BY <2>2, OwedStays DEF vars, connections
  <2> QED
    BY <2>1, <2>2, TypesStep
<1>3. Types /\ Shapes /\ Answers => AnswersArrive
  BY DEF AnswersArrive, Owed, At
<1> QED
  BY <1>1, <1>2, <1>3, PTL DEF Spec
-----------------------------------------------------------------------------
(* Sessions.                                                                  *)

\* Who may still subscribe to the run of s, has yet to bind s, has s review.
Makes(r, s) == r.session = s /\ ~r.gone /\ MakeStep(r)
Binds(r, s) == r.session = s /\ BindStep(r)
Reviews(r, s) == r.session = s /\ (ReviewStep(r) \/ (r.at = "watch" /\ r.method = "review"))

\* A session that runs was subscribed to, or is named; who subscribed gets its events.
Watched(s) == s \in live => \/ \E c \in Clients : <<c, s>> \in seen
                            \/ fate[s] \in {"woken", "dropped"}
                            \/ \E c \in Clients : Makes(h[c], s)
Subscribed(s) == s \in live => \A c \in Clients : <<c, s>> \in seen /\ up[c] => s \in subs[c]

\* One made for a review has it, was kept, or is in the hands of its reviewer, who has not
\* lost it and sees it.
Hiring(s) == s \in hired =>
  /\ s \in reviewing \/ fate[s] = "kept" \/ \E c \in Clients : Reviews(h[c], s)
  /\ \A c \in Clients : /\ ~Binds(h[c], s)
                        /\ Reviews(h[c], s) => ~h[c].gone /\ (ReviewStep(h[c]) => <<c, s>> \in seen)

\* The environment of the row is that of the run and that of the binding, to which the
\* handler that binds holds on too.
Matched(s) == s <= made =>
  /\ \/ s \in apart
     \/ /\ bound[s] \in {0, env[s]} /\ (s \in live => runsAs[s] = env[s])
        /\ bound[s] = env[s] \/ env[s] \notin stored \/ \E c \in Clients : Binds(h[c], s)
  /\ \A c \in Clients : Binds(h[c], s) /\ h[c].at # "parent" => s \in apart \/ h[c].account = env[s]
Unbound(s) == s > made => bound[s] = 0

Good(s) == Watched(s) /\ Subscribed(s) /\ Hiring(s) /\ Matched(s) /\ Unbound(s)
AllGood == \A s \in Sessions : Good(s)

\* Good sessions do not stray.
LEMMA GoodIsNamed ==
  ASSUME Types, Shapes, AllGood
  PROVE  StraysAreNamed
<1>1. ASSUME NEW s \in live
      PROVE  s \in Sessions /\ s > 0 /\ s <= made /\ Good(s)
  BY BoundsOK DEF Types, SessionTypes, Sessions, AllGood
<1>2. ASSUME NEW s \in live, NEW c \in Clients
      PROVE  /\ Makes(h[c], s) => /\ h[c].session = s /\ ~h[c].gone /\ h[c].method # "send"
                                  /\ h[c].at \in {"health", "bind", "parent", "watch"}
             /\ Binds(h[c], s) => /\ h[c].session = s /\ h[c].method \in {"create", "fork"}
                                  /\ h[c].at \in {"health", "bind", "parent"}
             /\ Reviews(h[c], s) => /\ h[c].session = s /\ h[c].method = "review"
                                    /\ h[c].at \in {"watch", "review", "fire"}
  BY DEF Shapes, Shape, Makes, Binds, Reviews, MakeStep, BindStep, ReviewStep
<1>3. ASSUME NEW s \in live
      PROVE  (\E c \in Clients : <<c, s>> \in seen) \/ fate[s] \in {"woken", "dropped"}
             \/ InHand(s, {"health", "bind", "parent", "watch"})
  BY <1>1, <1>2 DEF Good, Watched, InHand
<1>4. ASSUME NEW s \in live
      PROVE  \A c \in Clients : <<c, s>> \in seen /\ up[c] => s \in subs[c]
  BY <1>1 DEF Good, Subscribed
<1>5. ASSUME NEW s \in live
      PROVE  s \in hired => s \in reviewing \/ fate[s] = "kept" \/ InHand(s, {"watch", "review", "fire"})
  <2>1. CASE s \in hired /\ \E c \in Clients : Reviews(h[c], s)
    <3>1. PICK c \in Clients : Reviews(h[c], s)
      BY <2>1
    <3>2. ~h[c].gone
      BY <1>1, <2>1, <3>1 DEF Good, Hiring
    <3> QED
      BY <1>2, <3>1, <3>2 DEF InHand
  <2> QED
    BY <1>1, <2>1 DEF Good, Hiring
<1>6. ASSUME NEW s \in live
      PROVE  bound[s] = runsAs[s] \/ (bound[s] = 0 /\ runsAs[s] \notin stored) \/ s \in apart \/ Binding(s)
  <2>1. CASE \E c \in Clients : Binds(h[c], s)
    BY <1>2, <2>1 DEF Binding
  <2>2. CASE ~\E c \in Clients : Binds(h[c], s)
    BY <1>1, <2>2 DEF Good, Matched
  <2> QED
    BY <2>1, <2>2
<1> QED
  BY <1>3, <1>4, <1>5, <1>6 DEF StraysAreNamed

\* What a handler goes on doing about a session.
CarriesBinding(p, q, s) == /\ Binds(p, s) <=> Binds(q, s)
                           /\ Binds(p, s) /\ q.at # "parent" => p.at # "parent" /\ q.account = p.account
Carries(p, q, s) == /\ Makes(p, s) => Makes(q, s)
                    /\ CarriesBinding(p, q, s)
                    /\ Reviews(p, s) <=> Reviews(q, s)
                    /\ Reviews(p, s) => (q.gone => p.gone) /\ (ReviewStep(q) => ReviewStep(p))

\* What else a step leaves of a session.
Untouched(s) == /\ s \in live' <=> s \in live
                /\ \A c \in Clients : <<c, s>> \in seen' <=> <<c, s>> \in seen
                /\ fate'[s] = fate[s] /\ bound'[s] = bound[s] /\ env'[s] = env[s]
                /\ s \in live => runsAs'[s] = runsAs[s]
                /\ (s \in hired' <=> s \in hired) /\ (s \in reviewing' <=> s \in reviewing)
                /\ (s \in apart' <=> s \in apart) /\ (s <= made' <=> s <= made) /\ (s > made' => s > made)
                /\ stored' \subseteq stored
                /\ \A c \in Clients : up'[c] => up[c] /\ (s \in subs[c] => s \in subs'[c])

\* A session about which nothing changes stays good.
LEMMA GoodStays ==
  ASSUME NEW s, Good(s), Untouched(s), \A c \in Clients : Carries(h[c], h'[c], s)
  PROVE  Good(s)'
<1>1. Watched(s)'
  BY DEF Good, Watched, Untouched, Carries, Makes
<1>2. Subscribed(s)'
  BY DEF Good, Subscribed, Untouched
<1>3. Hiring(s)'
  BY DEF Good, Hiring, Untouched, Carries, CarriesBinding, Reviews, Binds
<1>4. Matched(s)'
  BY DEF Good, Matched, Untouched, Carries, CarriesBinding, Binds
<1>5. Unbound(s)'
  BY DEF Good, Unbound, Untouched
<1> QED
  BY <1>1, <1>2, <1>3, <1>4, <1>5 DEF Good

\* A handler that is not at work on s.
Idles(r, s) == r.session # s \/ Quiet(r)

\* A handler that does not begin or end to work on s, and one that goes on as it was.
LEMMA Carriers ==
  ASSUME NEW p, NEW q, NEW s
  PROVE  /\ Idles(p, s) /\ Idles(q, s) => Carries(p, q, s)
         /\ Alike(q, p) /\ (q.gone => p.gone) => Carries(p, q, s)
<1>1. ASSUME Idles(p, s) /\ Idles(q, s)
      PROVE  Carries(p, q, s)
  BY <1>1 DEF Idles, Carries, CarriesBinding, Makes, Binds, Reviews, Quiet, MakeStep
<1>2. ASSUME Alike(q, p), q.gone => p.gone
      PROVE  Carries(p, q, s)
  <2>1. (BindStep(q) <=> BindStep(p)) /\ (MakeStep(q) <=> MakeStep(p)) /\ (ReviewStep(q) <=> ReviewStep(p))
    BY <1>2 DEF Alike, MakeStep, BindStep, ReviewStep
  <2> QED
    BY <1>2, <2>1 DEF Carries, CarriesBinding, Makes, Binds, Reviews, Alike
<1> QED
  BY <1>1, <1>2

\* One that stays as it was, or loses x.
Follows(p, q, x) == Alike(q, p) /\ (q.gone => p.gone \/ p.session = x)

LEMMA Followers ==
  ASSUME NEW p, NEW q, NEW x, NEW s, Follows(p, q, x)
  PROVE  CarriesBinding(p, q, s) /\ (s # x => Carries(p, q, s))
<1>1. CarriesBinding(p, q, s)
  BY DEF Follows, Alike, CarriesBinding, Binds, BindStep
<1>2. CASE s # x /\ p.session = s
  <2>1. Alike(q, p) /\ (q.gone => p.gone)
    BY <1>2 DEF Follows
  <2> QED
    BY <1>1, <2>1, Carriers
<1>3. CASE s # x /\ p.session # s
  <2>1. Idles(p, s) /\ Idles(q, s)
    BY <1>3 DEF Follows, Alike, Idles
  <2> QED
    BY <1>1, <2>1, Carriers
<1> QED
  BY <1>1, <1>2, <1>3

\* How the handlers change: that of c, and those that lose x.
Moves(c, r, x) == /\ Alike(h'[c], r) /\ h'[c].gone = r.gone
                  /\ \A d \in Clients \ {c} : Follows(h[d], h'[d], x)

LEMMA MovesSay ==
  ASSUME HandlerTypes, NEW c \in Clients, NEW r \in Handlers
  PROVE  /\ Sets(c, r) => \A x : Moves(c, r, x)
         /\ h' = Disturb([h EXCEPT ![c] = r]) => \A x : Moves(c, r, x)
         /\ \A x \in Sessions : h' = [Orphaned(h, x) EXCEPT ![c] = r] => Moves(c, r, x)
<1>1. ASSUME Sets(c, r), NEW x
      PROVE  Moves(c, r, x)
  BY <1>1 DEF HandlerTypes, Sets, Moves, Follows, Alike
<1>2. ASSUME h' = Disturb([h EXCEPT ![c] = r]), NEW x
      PROVE  Moves(c, r, x)
  <2>1. PICK g \in [Clients -> Handlers] : g = [h EXCEPT ![c] = r]
    BY DEF HandlerTypes
  <2>2. g[c] = r /\ \A d \in Clients \ {c} : g[d] = h[d]
    BY <2>1 DEF HandlerTypes
  <2>3. \A d \in Clients : Alike(h'[d], g[d]) /\ h'[d].gone = g[d].gone
    BY <1>2, <2>1, Disturbs
  <2> QED
    BY <2>2, <2>3 DEF Moves, Follows
<1>3. ASSUME NEW x \in Sessions, h' = [Orphaned(h, x) EXCEPT ![c] = r]
      PROVE  Moves(c, r, x)
  <2>1. PICK g \in [Clients -> Handlers] : g = Orphaned(h, x)
    BY Orphans
  <2>2. h'[c] = r /\ \A d \in Clients \ {c} : h'[d] = g[d]
    BY <1>3, <2>1
  <2>3. \A d \in Clients : Alike(g[d], h[d]) /\ (g[d].gone => h[d].gone \/ h[d].session = x)
    BY <2>1, Orphans
  <2> QED
    BY <2>2, <2>3 DEF Moves, Follows, Alike
<1> QED
  BY <1>1, <1>2, <1>3

\* A session that the step of c is not about.
LEMMA GoodMoves ==
  ASSUME NEW c \in Clients, NEW r \in Handlers, NEW x, NEW s, Moves(c, r, x), s # x,
         Good(s), Untouched(s), Carries(h[c], r, s)
  PROVE  Good(s)'
<1>1. Carries(h[c], h'[c], s)
  <2>1. Alike(h'[c], r) /\ h'[c].gone = r.gone
    BY DEF Moves
  <2>2. (BindStep(h'[c]) <=> BindStep(r)) /\ (MakeStep(h'[c]) <=> MakeStep(r)) /\ (ReviewStep(h'[c]) <=> ReviewStep(r))
    BY <2>1 DEF Alike, MakeStep, BindStep, ReviewStep
  <2> QED
    BY <2>1, <2>2 DEF Carries, CarriesBinding, Makes, Binds, Reviews, Alike
<1>2. \A d \in Clients \ {c} : Carries(h[d], h'[d], s)
  BY Followers DEF Moves
<1> QED
  BY <1>1, <1>2, GoodStays

\* The handler of c alone moves, and its session, if any, is not s or stays in its hands.
LEMMA GoodSets ==
  ASSUME Types, NEW c \in Clients, NEW r \in Handlers, NEW s \in Sessions, Sets(c, r),
         Good(s), Untouched(s), Carries(h[c], r, s)
  PROVE  Good(s)'
<1>1. HandlerTypes /\ s # 0
  BY BoundsOK DEF Types, Sessions
<1>2. Moves(c, r, 0)
  BY <1>1, MovesSay
<1> QED
  BY <1>1, <1>2, GoodMoves

\* A session that is made, or only its row, by a handler that was not at work on one.
LEMMA GoodMade ==
  ASSUME Types, Shapes, AllGood, NEW c \in Clients, NEW r \in Handlers,
         NEW a \in Accounts \cup {0}, NEW b \in Accounts \cup {0}, Sets(c, r), Quiet(h[c]),
         UNCHANGED <<connections, seen, reviewing, fate, bound, stored>>,
         \/ /\ Enter(a) /\ Run(made + 1, b) /\ Makes(r, made + 1)
            /\ apart' = IF a = b THEN apart ELSE apart \cup {made + 1}
            /\ a = b => a = 0 \/ Binds(r, made + 1)
            /\ Binds(r, made + 1) /\ r.at # "parent" => r.account = a /\ a = b
            /\ hired' = hired \/ (hired' = hired \cup {made + 1} /\ Reviews(r, made + 1) /\ ~Binds(r, made + 1))
            /\ ~ReviewStep(r)
         \/ NotMade(a) /\ UNCHANGED hired /\ Quiet(r)
  PROVE  AllGood'
<1>1. /\ made \in Nat /\ live \subseteq 1 .. made /\ seen \subseteq Clients \X live /\ hired \subseteq live
      /\ reviewing \subseteq live /\ apart \subseteq 1 .. made /\ HandlerTypes
  BY BoundsOK DEF Types, SessionTypes
<1>2. h'[c] = r /\ \A d \in Clients \ {c} : h'[d] = h[d]
  BY <1>1 DEF HandlerTypes, Sets
<1>3. \A d \in Clients : h[d].session <= made /\ h[d].session \in Int
  BY <1>1 DEF Shapes, Shape, HandlerTypes, Handlers, Sessions
<1>4. UNCHANGED <<up, subs>>
  BY DEF connections
<1>5. Sessions = 1 .. MaxSessions /\ MaxSessions \in Nat
  BY BoundsOK DEF Sessions
<1>6. ASSUME Enter(a), NEW s \in Sessions, s # made + 1
      PROVE  env'[s] = env[s] /\ (s <= made' <=> s <= made) /\ (s > made' => s > made)
  BY <1>1, <1>5, <1>6, EnterTypes
<1>7. CASE /\ Enter(a) /\ Run(made + 1, b) /\ Makes(r, made + 1)
           /\ apart' = IF a = b THEN apart ELSE apart \cup {made + 1}
           /\ a = b => a = 0 \/ Binds(r, made + 1)
           /\ Binds(r, made + 1) /\ r.at # "parent" => r.account = a /\ a = b
           /\ hired' = hired \/ (hired' = hired \cup {made + 1} /\ Reviews(r, made + 1) /\ ~Binds(r, made + 1))
           /\ ~ReviewStep(r)
  <2>1. /\ made' = made + 1 /\ made + 1 \in Sessions /\ env'[made + 1] = a
        /\ live' = live \cup {made + 1} /\ runsAs'[made + 1] = b
        /\ \A s \in Sessions \ {made + 1} : runsAs'[s] = runsAs[s]
    BY <1>7, EnterTypes, RunTypes
  <2>2. ASSUME NEW s \in Sessions, s # made + 1
        PROVE  Good(s)'
    <3>1. Untouched(s)
      BY <1>4, <1>6, <1>7, <2>1, <2>2 DEF Untouched
    <3>2. Carries(h[c], r, s)
      BY <1>7, <2>2, Carriers DEF Idles, Makes
    <3> QED
      BY <2>2, <3>1, <3>2, GoodSets DEF AllGood
  <2>3. ASSUME NEW n \in Sessions, n = made + 1
        PROVE  Good(n)'
    <3>1. /\ n \in live' /\ (\A d \in Clients : <<d, n>> \notin seen') /\ bound'[n] = 0
          /\ n \notin hired /\ env'[n] = a /\ runsAs'[n] = b
      BY <1>1, <2>1, <2>3 DEF AllGood, Good, Unbound
    <3>2. \A d \in Clients \ {c} : h'[d].session # n
      BY <1>1, <1>2, <1>3, <2>3
    <3>3. Makes(h'[c], n) /\ (Binds(h'[c], n) <=> Binds(r, n)) /\ (Reviews(h'[c], n) <=> Reviews(r, n))
          /\ ~ReviewStep(h'[c]) /\ ~h'[c].gone
      BY <1>2, <1>7, <2>3 DEF Makes, Binds, Reviews
    <3>4. Watched(n)'
      BY <3>3 DEF Watched
    <3>5. Subscribed(n)'
      BY <3>1 DEF Subscribed
    <3>6. Hiring(n)'
      BY <1>1, <1>2, <1>7, <2>3, <3>1, <3>2, <3>3 DEF Hiring, Binds, Reviews
    <3>7. Matched(n)'
      BY <1>2, <1>7, <2>3, <3>1, <3>2, <3>3 DEF Matched, Binds
    <3>8. Unbound(n)'
      BY <3>1 DEF Unbound
    <3> QED
      BY <3>4, <3>5, <3>6, <3>7, <3>8 DEF Good
  <2> QED
    BY <2>2, <2>3 DEF AllGood, Sessions
<1>8. CASE NotMade(a) /\ UNCHANGED hired /\ Quiet(r)
  <2>1. live' = live /\ runsAs' = runsAs
    BY <1>8, NotMadeTypes
  <2>2. ASSUME NEW s \in Sessions, UNCHANGED <<rows, apart>> \/ (s # made + 1 /\ Enter(a) /\ apart' \ {made + 1} = apart)
        PROVE  Good(s)'
    <3>1. ASSUME UNCHANGED <<rows, apart>>
          PROVE  Untouched(s)
      BY <1>4, <1>8, <2>1, <3>1 DEF Untouched, rows
    <3>2. ASSUME s # made + 1 /\ Enter(a) /\ apart' \ {made + 1} = apart
          PROVE  Untouched(s)
      BY <1>4, <1>6, <1>8, <2>1, <3>2 DEF Untouched
    <3>3. Carries(h[c], r, s)
      BY <1>8, Carriers DEF Idles
    <3> QED
      BY <2>2, <3>1, <3>2, <3>3, GoodSets DEF AllGood
  <2>3. ASSUME Enter(a), apart' = IF a = 0 THEN apart ELSE apart \cup {made + 1}, NEW n \in Sessions, n = made + 1
        PROVE  Good(n)'
    <3>1. /\ n \notin live' /\ bound'[n] = 0 /\ n \notin hired' /\ env'[n] = a
          /\ (a # 0 => n \in apart')
      BY <1>1, <1>8, <2>1, <2>3, EnterTypes DEF AllGood, Good, Unbound
    <3>2. \A d \in Clients : ~Binds(h'[d], n)
      BY <1>1, <1>2, <1>3, <1>8, <2>3 DEF Binds, Quiet, MakeStep
    <3>3. Matched(n)'
      BY <3>1, <3>2 DEF Matched
    <3> QED
      BY <3>1, <3>3 DEF Good, Watched, Subscribed, Hiring, Unbound
  <2>4. UNCHANGED <<rows, apart>> \/ (Enter(a) /\ apart' = IF a = 0 THEN apart ELSE apart \cup {made + 1})
    BY <1>8, NotMadeTypes
  <2>5. apart' = (IF a = 0 THEN apart ELSE apart \cup {made + 1}) => apart' \ {made + 1} = apart
    BY <1>1
  <2> QED
    BY <2>2, <2>3, <2>4, <2>5 DEF AllGood, Sessions
<1> QED
  BY <1>7, <1>8

\* The three ways to make a session.
LEMMA GoodStart ==
  ASSUME Types, Shapes, AllGood, NEW c \in Clients, Start(c) \/ ForkNative(c) \/ Hire(c)
  PROVE  AllGood'
<1>1. ASSUME Start(c)
      PROVE  AllGood'
  <2>1. PICK r \in Handlers, a \in Accounts \cup {0} :
          /\ Sets(c, r) /\ r.at \in {"watch", "health", "reply"} /\ h[c].at = "start"
          /\ \/ /\ Enter(a) /\ Run(made + 1, a) /\ UNCHANGED apart
                /\ r.session = made + 1 /\ r.account = a /\ r.method = "create" /\ ~r.gone
                /\ (a = 0 /\ r.at = "watch") \/ (a # 0 /\ r.at = "health" /\ r.ok)
             \/ NotMade(a) /\ Quiet(r)
    BY <1>1, StartSets
  <2>2. UNCHANGED <<connections, seen, hired, reviewing, fate, bound, stored>>
    BY <1>1 DEF Start, history, accounts
  <2>3. Quiet(h[c])
    BY <2>1 DEF Quiet, MakeStep, BindStep, ReviewStep
  <2>4. CASE /\ Enter(a) /\ Run(made + 1, a) /\ UNCHANGED apart
             /\ r.session = made + 1 /\ r.account = a /\ r.method = "create" /\ ~r.gone
             /\ (a = 0 /\ r.at = "watch") \/ (a # 0 /\ r.at = "health" /\ r.ok)
    <3>1. Makes(r, made + 1) /\ (a = 0 \/ Binds(r, made + 1)) /\ ~ReviewStep(r)
      BY <2>4 DEF Makes, Binds, MakeStep, BindStep, ReviewStep
    <3> QED
      BY <2>1, <2>2, <2>3, <2>4, <3>1, GoodMade
  <2>5. CASE NotMade(a) /\ Quiet(r)
    BY <2>1, <2>2, <2>3, <2>5, GoodMade
  <2> QED
    BY <2>1, <2>4, <2>5
<1>2. ASSUME ForkNative(c)
      PROVE  AllGood'
  <2>1. PICK r \in Handlers, kept \in Accounts \cup {0}, a \in Accounts \cup {0} :
          /\ Sets(c, r) /\ h[c].at = "fork"
          /\ \/ /\ Enter(kept) /\ Run(made + 1, a)
                /\ apart' = IF kept = a THEN apart ELSE apart \cup {made + 1}
                /\ r.session = made + 1 /\ r.at = "parent" /\ r.method = "fork" /\ ~r.gone
             \/ NotMade(kept) /\ Quiet(r)
    BY <1>2, ForkSets
  <2>2. UNCHANGED <<connections, seen, hired, reviewing, fate, bound, stored>>
    BY <1>2 DEF ForkNative, history, accounts
  <2>3. Quiet(h[c])
    BY <2>1 DEF Quiet, MakeStep, BindStep, ReviewStep
  <2>4. CASE /\ Enter(kept) /\ Run(made + 1, a)
             /\ apart' = IF kept = a THEN apart ELSE apart \cup {made + 1}
             /\ r.session = made + 1 /\ r.at = "parent" /\ r.method = "fork" /\ ~r.gone
    <3>1. Makes(r, made + 1) /\ Binds(r, made + 1) /\ ~ReviewStep(r)
      BY <2>4 DEF Makes, Binds, MakeStep, BindStep, ReviewStep
    <3> QED
      BY <2>1, <2>2, <2>3, <2>4, <3>1, GoodMade
  <2>5. CASE NotMade(kept) /\ Quiet(r)
    BY <2>1, <2>2, <2>3, <2>5, GoodMade
  <2> QED
    BY <2>1, <2>4, <2>5
<1>3. ASSUME Hire(c)
      PROVE  AllGood'
  <2>1. PICK r \in Handlers, a \in Accounts \cup {0} :
          /\ Sets(c, r) /\ h[c].at = "hire" /\ a = 0
          /\ \/ /\ Enter(a) /\ Run(made + 1, a) /\ hired' = hired \cup {made + 1} /\ UNCHANGED apart
                /\ r.session = made + 1 /\ r.at = "watch" /\ r.method = "review" /\ ~r.gone
             \/ NotMade(a) /\ UNCHANGED hired /\ Quiet(r)
    BY <1>3, HireSets
  <2>2. UNCHANGED <<connections, seen, reviewing, fate, bound, stored>>
    BY <1>3 DEF Hire, accounts
  <2>3. Quiet(h[c])
    BY <2>1 DEF Quiet, MakeStep, BindStep, ReviewStep
  <2>4. CASE /\ Enter(a) /\ Run(made + 1, a) /\ hired' = hired \cup {made + 1} /\ UNCHANGED apart
             /\ r.session = made + 1 /\ r.at = "watch" /\ r.method = "review" /\ ~r.gone
    <3>1. Makes(r, made + 1) /\ ~Binds(r, made + 1) /\ Reviews(r, made + 1) /\ ~ReviewStep(r)
      BY <2>4 DEF Makes, Binds, Reviews, MakeStep, BindStep, ReviewStep
    <3> QED
      BY <2>1, <2>2, <2>3, <2>4, <3>1, GoodMade
  <2>5. CASE NotMade(a) /\ UNCHANGED hired /\ Quiet(r)
    BY <2>1, <2>2, <2>3, <2>5, GoodMade
  <2> QED
    BY <2>1, <2>4, <2>5
<1> QED
  BY <1>1, <1>2, <1>3

\* What a step of c about the session x in its hands leaves of the others.
LEMMA GoodOthers ==
  ASSUME Types, AllGood, NEW c \in Clients, NEW r \in Handlers, NEW x \in Sessions, Sets(c, r), h[c].session = x,
         r.session = x \/ Quiet(r), \A s \in Sessions \ {x} : Untouched(s)
  PROVE  \A s \in Sessions \ {x} : Good(s)'
<1>1. ASSUME NEW s \in Sessions \ {x}
      PROVE  Good(s)'
  <2>1. Carries(h[c], r, s)
    BY Carriers DEF Idles
  <2> QED
    BY <2>1, GoodSets DEF AllGood
<1> QED
  BY <1>1

\* A binding is written; a session whose binding failed, or that is dropped, is named.
LEMMA GoodBind ==
  ASSUME Types, Shapes, AllGood, NEW c \in Clients, Bind(c)
  PROVE  AllGood'
<1>1. PICK x \in Sessions, r \in Handlers :
        /\ x = h[c].session /\ x \in 1 .. made /\ h[c].at = "bind" /\ Sets(c, r) /\ r.at \in {"watch", "reply"}
        /\ \/ /\ h[c].account \in stored /\ bound' = [bound EXCEPT ![x] = h[c].account]
              /\ UNCHANGED apart
              /\ \/ /\ r.at = "watch" /\ r.session = x /\ r.gone = h[c].gone
                    /\ r.method = h[c].method /\ UNCHANGED fate
                 \/ Quiet(r) /\ Dropped(c)
           \/ bound' = bound /\ apart' = apart \cup {x} /\ Quiet(r) /\ Dropped(c)
  BY BindSets
<1>2. UNCHANGED <<up, subs, rows, live, runsAs, seen, hired, reviewing, stored>>
  BY DEF Bind, connections, accounts
<1>3. bound \in [Sessions -> stored \cup {0}] /\ fate \in [Sessions -> Fates] /\ HandlerTypes
  BY DEF Types, SessionTypes
<1>4. h'[c] = r /\ \A d \in Clients \ {c} : h'[d] = h[d]
  BY <1>1, <1>3 DEF HandlerTypes, Sets
<1>5. fate' = fate \/ (fate' = [fate EXCEPT ![x] = "dropped"] /\ x \in live)
  BY <1>1 DEF Dropped
<1>6. \A s \in Sessions \ {x} : Untouched(s)
  <2>1. ASSUME NEW s \in Sessions \ {x}
        PROVE  bound'[s] = bound[s] /\ fate'[s] = fate[s] /\ (s \in apart' <=> s \in apart)
    BY <1>1, <1>3, <1>5
  <2> QED
    BY <1>2, <2>1 DEF Untouched, rows
<1>7. \A s \in Sessions \ {x} : Good(s)'
  BY <1>1, <1>6, GoodOthers
<1>8. Good(x) /\ Binds(h[c], x) /\ x <= made /\ made' = made
  BY <1>1, <1>2 DEF AllGood, Binds, BindStep, rows
<1>9. ~BindStep(r) /\ ~ReviewStep(r)
  BY <1>1 DEF BindStep, ReviewStep
<1>10. Watched(x)'
  <2>1. CASE fate' = fate /\ r.at = "watch"
    <3>1. Makes(h[c], x) => Makes(h'[c], x)
      BY <1>1, <1>4, <2>1 DEF Makes, MakeStep, Quiet
    <3> QED
      BY <1>2, <1>4, <1>8, <2>1, <3>1 DEF Good, Watched
  <2>2. CASE Dropped(c) /\ x \in live /\ ~h[c].gone
    <3>1. fate'[x] = "dropped"
      BY <1>1, <1>3, <2>2 DEF Dropped
    <3> QED
      BY <3>1 DEF Watched
  <2>3. CASE Dropped(c) /\ ~(x \in live /\ ~h[c].gone)
    <3>1. fate' = fate
      BY <1>1, <2>3 DEF Dropped
    <3>2. x \in live => ~Makes(h[c], x)
      BY <2>3 DEF Makes
    <3> QED
      BY <1>2, <1>4, <1>8, <3>1, <3>2 DEF Good, Watched
  <2> QED
    BY <1>1, <2>1, <2>2, <2>3
<1>11. Subscribed(x)'
  BY <1>2, <1>8 DEF Good, Subscribed
<1>12. Hiring(x)'
  BY <1>2, <1>8 DEF Good, Hiring
<1>13. Matched(x)'
  <2>1. \A d \in Clients : Binds(h'[d], x) => d # c /\ Binds(h[d], x) /\ h'[d] = h[d]
    BY <1>4, <1>9 DEF Binds
  <2>2. CASE x \in apart'
    BY <2>2, <1>2, <1>8, <2>1 DEF Good, Matched, rows
  <2>3. CASE x \notin apart'
    <3>1. x \notin apart /\ bound'[x] = h[c].account
      BY <1>1, <1>3, <2>3
    <3>2. h[c].account = env[x] /\ (x \in live => runsAs[x] = env[x])
      BY <1>1, <1>8, <3>1 DEF Good, Matched
    <3> QED
      BY <1>2, <1>8, <2>1, <3>1, <3>2 DEF Good, Matched, rows
  <2> QED
    BY <2>2, <2>3
<1>14. Unbound(x)'
  BY <1>8, BoundsOK DEF Unbound, Types, SessionTypes, Sessions
<1> QED
  BY <1>7, <1>10, <1>11, <1>12, <1>13, <1>14 DEF AllGood, Good

\* A subscription to a session that is still the one at hand.
LEMMA GoodWatch ==
  ASSUME Types, Shapes, AllGood, NEW c \in Clients, Watch(c)
  PROVE  AllGood'
<1>1. PICK x \in Sessions, r \in Handlers :
        /\ x = h[c].session /\ x \in 1 .. made /\ h[c].at = "watch" /\ Sets(c, r)
        /\ IF h[c].method = "review"
           THEN r.at = "review" /\ r.session = x /\ r.method = "review" /\ r.gone = h[c].gone
           ELSE Quiet(r)
  <2>1. h[c].session \in Sessions
    BY BoundsOK, WatchSets DEF Types, SessionTypes, Sessions
  <2> QED
    BY <2>1, WatchSets
<1>2. UNCHANGED <<up, rows, live, runsAs, hired, reviewing, fate, bound, apart, stored>>
  BY DEF Watch, accounts
<1>3. seen \subseteq Clients \X live /\ hired \subseteq live /\ HandlerTypes /\ subs \in [Clients -> SUBSET live]
      /\ up \in [Clients -> BOOLEAN]
  BY DEF Types, SessionTypes, ConnectionTypes
<1>4. h'[c] = r /\ \A d \in Clients \ {c} : h'[d] = h[d]
  BY <1>1, <1>3 DEF HandlerTypes, Sets
<1>5. /\ subs' = IF up[c] /\ x \in live /\ ~h[c].gone THEN [subs EXCEPT ![c] = @ \cup {x}] ELSE subs
      /\ seen' = IF x \in live /\ ~h[c].gone THEN seen \cup {<<c, x>>} ELSE seen
  BY <1>1 DEF Watch
<1>6. \A s \in Sessions \ {x} : Untouched(s)
  <2>1. ASSUME NEW s \in Sessions \ {x}, NEW d \in Clients
        PROVE  (<<d, s>> \in seen' <=> <<d, s>> \in seen) /\ (s \in subs[d] => s \in subs'[d])
    BY <1>3, <1>5
  <2> QED
    BY <1>2, <2>1 DEF Untouched, rows
<1>7. \A s \in Sessions \ {x} : Good(s)'
  BY <1>1, <1>6, GoodOthers
<1>8. Good(x) /\ x <= made /\ made' = made /\ ~Binds(h[c], x) /\ ~Binds(r, x)
  BY <1>1, <1>2 DEF AllGood, Binds, BindStep, Quiet, MakeStep, rows
<1>9. Watched(x)'
  <2>1. CASE x \in live /\ ~h[c].gone
    BY <1>5, <2>1 DEF Watched
  <2>2. CASE ~(x \in live /\ ~h[c].gone)
    BY <1>2, <1>4, <1>5, <1>8, <2>2 DEF Good, Watched, Makes
  <2> QED
    BY <2>1, <2>2
<1>10. Subscribed(x)'
  BY <1>2, <1>3, <1>5, <1>8 DEF Good, Subscribed
<1>11. Hiring(x)'
  <2>1. CASE h[c].method = "review" /\ x \in hired
    <3>1. Reviews(h[c], x) /\ ~h[c].gone /\ x \in live
      BY <1>1, <1>3, <1>8, <2>1 DEF Good, Hiring, Reviews
    <3>2. Reviews(r, x) /\ ~r.gone /\ <<c, x>> \in seen'
      BY <1>1, <1>5, <2>1, <3>1 DEF Reviews, ReviewStep
    <3> QED
      BY <1>2, <1>4, <1>5, <1>8, <3>1, <3>2 DEF Good, Hiring
  <2>2. CASE h[c].method # "review"
    <3>1. ~Reviews(h[c], x) /\ ~Reviews(r, x)
      BY <1>1, <2>2 DEF Reviews, Quiet, MakeStep, ReviewStep
    <3> QED
      BY <1>2, <1>4, <1>5, <1>8, <3>1 DEF Good, Hiring
  <2>3. CASE x \notin hired
    BY <1>2, <2>3 DEF Hiring
  <2> QED
    BY <2>1, <2>2, <2>3
<1>12. Matched(x)'
  BY <1>2, <1>4, <1>8 DEF Good, Matched, rows
<1>13. Unbound(x)'
  BY <1>8, BoundsOK DEF Unbound, Types, SessionTypes, Sessions
<1> QED
  BY <1>7, <1>9, <1>10, <1>11, <1>12, <1>13 DEF AllGood, Good

\* The parent's binding is looked up.
LEMMA GoodParent ==
  ASSUME Types, Shapes, AllGood, NEW c \in Clients, Parent(c)
  PROVE  AllGood'
<1>1. PICK x \in Sessions, r \in Handlers, parent \in Sessions :
        /\ x = h[c].session /\ x \in 1 .. made /\ h[c].at = "parent" /\ Sets(c, r)
        /\ \/ /\ r.session = x /\ r.gone = h[c].gone /\ r.account = bound[parent]
              /\ IF r.account = 0 THEN r.at = "watch" ELSE r.at = "bind"
              /\ r.method = "fork"
              /\ apart' = IF r.account # env[x] THEN apart \cup {x} ELSE apart
              /\ UNCHANGED fate
           \/ Quiet(r) /\ apart' = apart \cup {x} /\ Dropped(c)
  <2>1. 1 .. made \subseteq Sessions
    BY BoundsOK DEF Types, SessionTypes, Sessions
  <2> QED
    BY <2>1, ParentSets
<1>2. UNCHANGED <<up, subs, rows, live, runsAs, seen, hired, reviewing, bound, stored>>
  BY DEF Parent, connections, accounts
<1>3. fate \in [Sessions -> Fates] /\ HandlerTypes /\ made \in Int /\ x \in Int
  BY BoundsOK DEF Types, SessionTypes, Sessions
<1>4. h'[c] = r /\ \A d \in Clients \ {c} : h'[d] = h[d]
  BY <1>1, <1>3 DEF HandlerTypes, Sets
<1>5. fate' = fate \/ fate' = [fate EXCEPT ![x] = "dropped"]
  BY <1>1 DEF Dropped
<1>6. \A s \in Sessions \ {x} : Untouched(s)
  <2>1. ASSUME NEW s \in Sessions \ {x}
        PROVE  fate'[s] = fate[s] /\ (s \in apart' <=> s \in apart)
    BY <1>1, <1>3, <1>5
  <2> QED
    BY <1>2, <2>1 DEF Untouched, rows
<1>7. \A s \in Sessions \ {x} : Good(s)'
  BY <1>1, <1>6, GoodOthers
<1>8. Good(x) /\ Binds(h[c], x) /\ x <= made /\ made' = made
  BY <1>1, <1>2 DEF AllGood, Binds, BindStep, rows
<1>9. Watched(x)'
  <2>1. CASE fate' = fate /\ r.session = x /\ r.gone = h[c].gone /\ r.at \in {"watch", "bind"}
    <3>1. Makes(h[c], x) => Makes(h'[c], x)
      BY <1>1, <1>4, <2>1 DEF Makes, MakeStep, BindStep
    <3> QED
      BY <1>2, <1>4, <1>8, <2>1, <3>1 DEF Good, Watched
  <2>2. CASE Dropped(c) /\ x \in live /\ ~h[c].gone
    <3>1. fate'[x] = "dropped"
      BY <1>1, <1>3, <2>2 DEF Dropped
    <3> QED
      BY <3>1 DEF Watched
  <2>3. CASE Dropped(c) /\ ~(x \in live /\ ~h[c].gone)
    <3>1. fate' = fate
      BY <1>1, <2>3 DEF Dropped
    <3>2. x \in live => ~Makes(h[c], x)
      BY <2>3 DEF Makes
    <3> QED
      BY <1>2, <1>4, <1>8, <3>1, <3>2 DEF Good, Watched
  <2> QED
    BY <1>1, <2>1, <2>2, <2>3
<1>10. Subscribed(x)'
  BY <1>2, <1>8 DEF Good, Subscribed
<1>11. Hiring(x)'
  BY <1>2, <1>8 DEF Good, Hiring
<1>12. Matched(x)'
  <2>1. \A d \in Clients \ {c} : h'[d] = h[d]
    BY <1>4
  <2>2. CASE x \in apart'
    BY <1>2, <1>8, <2>1, <2>2 DEF Good, Matched, rows
  <2>3. CASE x \notin apart'
    <3>1. /\ x \notin apart /\ r.account = env[x] /\ r.session = x
          /\ IF r.account = 0 THEN r.at = "watch" ELSE r.at = "bind"
      BY <1>1, <2>3
    <3>2. bound[x] \in {0, env[x]} /\ (x \in live => runsAs[x] = env[x])
      BY <1>8, <3>1 DEF Good, Matched
    <3>3. r.account # 0 => Binds(h'[c], x)
      BY <1>4, <3>1 DEF Binds, BindStep
    <3>4. bound[x] = env[x] \/ \E d \in Clients : Binds(h'[d], x)
      BY <3>1, <3>2, <3>3
    <3>5. \A d \in Clients : Binds(h'[d], x) /\ h'[d].at # "parent" => h'[d].account = env[x]
      BY <1>4, <1>8, <3>1 DEF Good, Matched
    <3> QED
      BY <1>2, <3>2, <3>4, <3>5 DEF Matched, rows
  <2> QED
    BY <2>2, <2>3
<1>13. Unbound(x)'
  BY <1>3, <1>8 DEF Unbound
<1> QED
  BY <1>7, <1>9, <1>10, <1>11, <1>12, <1>13 DEF AllGood, Good

\* A review starts, or the session that cannot is to be closed.
LEMMA GoodReview ==
  ASSUME Types, Shapes, AllGood, NEW c \in Clients, Review(c)
  PROVE  AllGood'
<1>1. PICK x \in Sessions, r \in Handlers :
        /\ x = h[c].session /\ x \in 1 .. made /\ h[c].at = "review" /\ Sets(c, r)
        /\ \/ reviewing' = (IF h[c].gone THEN reviewing ELSE reviewing \cup ({x} \cap live)) /\ Quiet(r)
           \/ reviewing' = reviewing /\ r.at = "fire" /\ r.session = x /\ r.gone = h[c].gone
  <2>1. h[c].session \in Sessions
    BY BoundsOK, ReviewSets DEF Types, SessionTypes, Sessions
  <2> QED
    BY <2>1, ReviewSets
<1>2. UNCHANGED <<up, subs, rows, live, runsAs, seen, hired, fate, bound, apart, stored>>
  BY DEF Review, connections, accounts
<1>3. HandlerTypes /\ made \in Int /\ x \in Int /\ hired \subseteq live
  BY BoundsOK DEF Types, SessionTypes, Sessions
<1>4. h'[c] = r /\ \A d \in Clients \ {c} : h'[d] = h[d]
  BY <1>1, <1>3 DEF HandlerTypes, Sets
<1>5. \A s \in Sessions \ {x} : Untouched(s)
  BY <1>1, <1>2 DEF Untouched, rows
<1>6. \A s \in Sessions \ {x} : Good(s)'
  BY <1>1, <1>5, GoodOthers
<1>7. Good(x) /\ x <= made /\ made' = made /\ ~MakeStep(h[c]) /\ ~MakeStep(r)
  BY <1>1, <1>2 DEF AllGood, MakeStep, BindStep, Quiet, rows
<1>8. Watched(x)'
  BY <1>2, <1>4, <1>7 DEF Good, Watched, Makes
<1>9. Subscribed(x)'
  BY <1>2, <1>7 DEF Good, Subscribed
<1>10. Hiring(x)'
  <2>1. CASE x \in hired
    <3>1. /\ ~h[c].gone /\ <<c, x>> \in seen /\ x \in live
          /\ (x \in reviewing \/ fate[x] = "kept" \/ \E d \in Clients : Reviews(h[d], x))
          /\ \A d \in Clients : ~Binds(h[d], x) /\ (Reviews(h[d], x) => ~h[d].gone /\ (ReviewStep(h[d]) => <<d, x>> \in seen))
      BY <1>1, <1>3, <1>7, <2>1 DEF Good, Hiring, Reviews, ReviewStep
    <3>2. ~Binds(r, x)
      BY <1>7 DEF Binds, MakeStep
    <3>3. x \in reviewing' \/ (Reviews(r, x) /\ ~r.gone /\ (x \in reviewing => x \in reviewing'))
      BY <1>1, <3>1 DEF Reviews, ReviewStep
    <3>4. Reviews(r, x) => ~r.gone
      BY <1>1, <3>1 DEF Reviews, Quiet, MakeStep
    <3> QED
      BY <1>2, <1>4, <3>1, <3>2, <3>3, <3>4 DEF Hiring
  <2>2. CASE x \notin hired
    BY <1>2, <2>2 DEF Hiring
  <2> QED
    BY <2>1, <2>2
<1>11. Matched(x)'
  BY <1>2, <1>4, <1>7 DEF Good, Matched, Binds, MakeStep, rows
<1>12. Unbound(x)'
  BY <1>3, <1>7 DEF Unbound
<1> QED
  BY <1>6, <1>8, <1>9, <1>10, <1>11, <1>12 DEF AllGood, Good

\* A run ends: whatever has x in its hands has lost it.
LEMMA GoodEnd ==
  ASSUME Types, AllGood, NEW x \in Sessions, End(x), UNCHANGED <<up, made, env, bound, apart, stored>>,
         \A d \in Clients : /\ \A s \in Sessions \ {x} : Carries(h[d], h'[d], s)
                            /\ CarriesBinding(h[d], h'[d], x)
  PROVE  AllGood'
<1>1. /\ live' = live \ {x} /\ hired' = hired \ {x} /\ reviewing' = reviewing \ {x} /\ seen' = {w \in seen : w[2] # x}
      /\ runsAs' = [runsAs EXCEPT ![x] = 0] /\ fate' = [fate EXCEPT ![x] = "none"]
      /\ subs' = [d \in Clients |-> subs[d] \ {x}]
  BY DEF End
<1>2. /\ seen \subseteq Clients \X live /\ fate \in [Sessions -> Fates] /\ runsAs \in [Sessions -> Accounts \cup {0}]
  BY DEF Types, SessionTypes
<1>3. ASSUME NEW s \in Sessions, s # x
      PROVE  Good(s)'
  <2>1. \A d \in Clients : <<d, s>> \in seen' <=> <<d, s>> \in seen
    BY <1>1, <1>2, <1>3
  <2>2. Untouched(s)
    BY <1>1, <1>2, <1>3, <2>1 DEF Untouched
  <2> QED
    BY <1>3, <2>2, GoodStays DEF AllGood
<1>4. Good(x)'
  <2>1. Good(x) /\ x \notin live' /\ x \notin hired'
    BY <1>1 DEF AllGood
  <2>2. Matched(x)'
    BY <2>1 DEF Good, Matched, CarriesBinding, Binds
  <2> QED
    BY <2>1, <2>2 DEF Good, Watched, Subscribed, Hiring, Unbound
<1> QED
  BY <1>3, <1>4 DEF AllGood

\* A Close that leaves the session: of one that was made for a review and cannot have it, too.
LEMMA GoodClose ==
  ASSUME Types, Shapes, AllGood, NEW c \in Clients, CloseSession(c) \/ Fire(c)
  PROVE  AllGood'
<1>1. PICK x \in Sessions, r \in Handlers :
        /\ x = h[c].session /\ x \in 1 .. made /\ h[c].at \in {"close", "fire"} /\ Quiet(r)
        /\ \/ h' = [Orphaned(h, x) EXCEPT ![c] = r] /\ Dissolve(x)
           \/ /\ Sets(c, r) /\ Leave(x)
              /\ fate' = IF h[c].at = "fire" /\ x \in hired THEN [fate EXCEPT ![x] = "kept"] ELSE fate
  BY CloseSets
<1>2. UNCHANGED <<up, made, env, bound, apart, stored>>
  BY DEF CloseSession, Fire, accounts
<1>3. HandlerTypes /\ made \in Int /\ x \in Int /\ fate \in [Sessions -> Fates]
  BY BoundsOK DEF Types, SessionTypes, Sessions
<1>4. ~MakeStep(h[c]) /\ ~MakeStep(r) /\ ~ReviewStep(r)
  BY <1>1 DEF MakeStep, BindStep, Quiet
<1>5. CASE h' = [Orphaned(h, x) EXCEPT ![c] = r] /\ Dissolve(x)
  <2>1. Moves(c, r, x)
    BY <1>3, <1>5, MovesSay
  <2>2. ASSUME NEW d \in Clients \ {c}
        PROVE  CarriesBinding(h[d], h'[d], x) /\ \A s \in Sessions \ {x} : Carries(h[d], h'[d], s)
    BY <2>1, Followers DEF Moves
  <2>3. Quiet(h'[c])
    BY <1>1, <2>1 DEF Moves, Alike, Quiet, MakeStep, BindStep, ReviewStep
  <2>4. \A s \in Sessions \ {x} : Carries(h[c], h'[c], s)
    BY <1>1, <2>3, Carriers DEF Idles
  <2>5. CarriesBinding(h[c], h'[c], x)
    BY <1>4, <2>3 DEF CarriesBinding, Binds, MakeStep, Quiet
  <2> QED
    BY <1>2, <1>5, <2>2, <2>4, <2>5, GoodEnd DEF Dissolve
<1>6. CASE /\ Sets(c, r) /\ Leave(x)
           /\ fate' = IF h[c].at = "fire" /\ x \in hired THEN [fate EXCEPT ![x] = "kept"] ELSE fate
  <2>1. UNCHANGED <<live, subs, runsAs, seen, hired, reviewing>>
    BY <1>6 DEF Leave
  <2>2. \A s \in Sessions \ {x} : Untouched(s)
    BY <1>2, <1>3, <1>6, <2>1 DEF Untouched
  <2>3. \A s \in Sessions \ {x} : Good(s)'
    BY <1>1, <1>6, <2>2, GoodOthers
  <2>4. h'[c] = r /\ \A d \in Clients \ {c} : h'[d] = h[d]
    BY <1>3, <1>6 DEF HandlerTypes, Sets
  <2>5. Good(x) /\ x <= made
    BY <1>1 DEF AllGood
  <2>6. ASSUME ~(h[c].at = "fire" /\ x \in hired)
        PROVE  Good(x)'
    <3>0. fate' = fate
      BY <1>6, <2>6
    <3>1. Watched(x)'
      BY <1>4, <2>1, <2>4, <2>5, <3>0 DEF Good, Watched, Makes
    <3>2. Hiring(x)'
      <4>1. CASE x \in hired
        <5>1. h[c].at = "close"
          BY <1>1, <2>6, <4>1
        <5> QED
          BY <1>4, <2>1, <2>4, <2>5, <3>0, <5>1 DEF Good, Hiring, Reviews, Binds, ReviewStep, MakeStep
      <4>2. CASE x \notin hired
        BY <2>1, <4>2 DEF Hiring
      <4> QED
        BY <4>1, <4>2
    <3> QED
      BY <1>2, <1>4, <2>1, <2>4, <2>5, <3>1, <3>2
         DEF Good, Subscribed, Matched, Unbound, Binds, MakeStep
  <2>7. ASSUME h[c].at = "fire" /\ x \in hired
        PROVE  Good(x)'
    <3>1. <<c, x>> \in seen
      BY <1>1, <2>5, <2>7 DEF Good, Hiring, Reviews, ReviewStep
    <3>2. fate'[x] = "kept"
      BY <1>3, <1>6, <2>7
    <3>3. Watched(x)'
      BY <2>1, <3>1 DEF Watched
    <3>4. Hiring(x)'
      <4>1. \A d \in Clients : /\ ~Binds(h[d], x)
                               /\ Reviews(h[d], x) => ~h[d].gone /\ (ReviewStep(h[d]) => <<d, x>> \in seen)
        BY <2>5, <2>7 DEF Good, Hiring
      <4>2. ~Binds(r, x) /\ ~Reviews(r, x)
        BY <1>4 DEF Binds, Reviews, MakeStep
      <4> QED
        BY <2>1, <2>4, <3>2, <4>1, <4>2 DEF Hiring
    <3> QED
      BY <1>2, <1>4, <2>1, <2>4, <2>5, <3>3, <3>4
         DEF Good, Subscribed, Matched, Unbound, Binds, MakeStep
  <2> QED
    BY <2>3, <2>6, <2>7 DEF AllGood
<1> QED
  BY <1>1, <1>5, <1>6

\* An agent ends.
LEMMA GoodEnds ==
  ASSUME Types, AllGood, NEW x \in Sessions, Ends(x)
  PROVE  AllGood'
<1>1. End(x) /\ UNCHANGED <<up, made, env, bound, apart, stored>> /\ h' = Orphaned(h, x)
  BY DEF Ends, rows, accounts
<1>2. ASSUME NEW d \in Clients
      PROVE  Follows(h[d], h'[d], x)
  BY <1>1, Orphans DEF Types, Follows
<1>3. ASSUME NEW d \in Clients
      PROVE  CarriesBinding(h[d], h'[d], x) /\ \A s \in Sessions \ {x} : Carries(h[d], h'[d], s)
  BY <1>2, Followers
<1> QED
  BY <1>1, <1>3, GoodEnd

\* A request finds its session, or starts it again.
LEMMA GoodResolve ==
  ASSUME Types, Shapes, AllGood, NEW c \in Clients, Resolve(c)
  PROVE  AllGood'
<1>1. PICK x \in Sessions, r \in Handlers :
        /\ x = h[c].session /\ x \in 1 .. made /\ h[c].at = "resolve"
        /\ Quiet(r) \/ (h[c].method = "attach" /\ r.at = "watch" /\ r.session = x /\ r.method = "attach" /\ ~r.gone)
        /\ \/ Sets(c, r) /\ UNCHANGED runs
           \/ /\ h' = [Orphaned(h, x) EXCEPT ![c] = r]
              /\ Run(x, env[x]) /\ seen' = {w \in seen : w[2] # x}
              /\ hired' = hired \ {x} /\ reviewing' = reviewing \ {x}
              /\ fate' = [fate EXCEPT ![x] = IF h[c].method = "attach" THEN "none" ELSE "woken"]
              /\ h[c].method = "attach" => ~Quiet(r)
  BY ResolveSets
<1>2. UNCHANGED <<up, subs, made, env, bound, apart, stored>>
  BY DEF Resolve, connections, rows, accounts
<1>3. HandlerTypes /\ made \in Int /\ x \in Int /\ fate \in [Sessions -> Fates] /\ seen \subseteq Clients \X live
      /\ env[x] \in Accounts \cup {0}
  BY BoundsOK DEF Types, SessionTypes, Sessions
<1>4. Quiet(h[c]) /\ ~Binds(r, x) /\ ~Reviews(r, x)
  BY <1>1 DEF Quiet, MakeStep, BindStep, ReviewStep, Binds, Reviews
<1>5. ASSUME NEW s \in Sessions
      PROVE  Carries(h[c], r, s)
  <2>1. CASE Quiet(r)
    BY <1>4, <2>1, Carriers DEF Idles
  <2>2. CASE r.session = x /\ s # x
    BY <1>4, <2>2, Carriers DEF Idles
  <2>3. CASE s = x
    BY <1>4, <2>3 DEF Carries, CarriesBinding, Makes, Binds, Reviews, Quiet, MakeStep
  <2> QED
    BY <1>1, <2>1, <2>2, <2>3
<1>6. CASE Sets(c, r) /\ UNCHANGED runs
  <2>1. \A s \in Sessions : Untouched(s)
    BY <1>2, <1>6 DEF Untouched, runs, history
  <2> QED
    BY <1>5, <1>6, <2>1, GoodSets DEF AllGood
<1>7. CASE /\ h' = [Orphaned(h, x) EXCEPT ![c] = r]
           /\ Run(x, env[x]) /\ seen' = {w \in seen : w[2] # x}
           /\ hired' = hired \ {x} /\ reviewing' = reviewing \ {x}
           /\ fate' = [fate EXCEPT ![x] = IF h[c].method = "attach" THEN "none" ELSE "woken"]
           /\ h[c].method = "attach" => ~Quiet(r)
  <2>1. /\ live' = live \cup {x} /\ runsAs'[x] = env[x] /\ \A s \in Sessions \ {x} : runsAs'[s] = runsAs[s]
    BY <1>3, <1>7, RunTypes
  <2>2. Moves(c, r, x)
    BY <1>3, <1>7, MovesSay
  <2>3. ASSUME NEW s \in Sessions, s # x
        PROVE  Good(s)'
    <3>1. \A d \in Clients : <<d, s>> \in seen' <=> <<d, s>> \in seen
      BY <1>3, <1>7, <2>3
    <3>2. Untouched(s)
      BY <1>2, <1>3, <1>7, <2>1, <2>3, <3>1 DEF Untouched
    <3> QED
      BY <1>5, <2>2, <2>3, <3>2, GoodMoves DEF AllGood
  <2>4. Alike(h'[c], r) /\ h'[c].gone = r.gone
    BY <2>2 DEF Moves
  <2>5. Watched(x)'
    <3>1. CASE h[c].method = "attach"
      <4>1. Makes(h'[c], x)
        BY <1>1, <1>7, <2>4, <3>1 DEF Makes, MakeStep, Alike
      <4> QED
        BY <4>1 DEF Watched
    <3>2. CASE h[c].method # "attach"
      BY <1>3, <1>7, <3>2 DEF Watched
    <3> QED
      BY <3>1, <3>2
  <2>6. Subscribed(x)'
    BY <1>7 DEF Subscribed
  <2>7. Hiring(x)'
    BY <1>7 DEF Hiring
  <2>8. Matched(x)'
    <3>1. \A d \in Clients \ {c} : CarriesBinding(h[d], h'[d], x)
      BY <2>2, Followers DEF Moves
    <3>2. ~Binds(h'[c], x) /\ ~Binds(h[c], x)
      BY <1>4, <2>4 DEF Binds, BindStep, Alike, Quiet, MakeStep
    <3>3. Matched(x)
      BY DEF AllGood, Good
    <3> QED
      BY <1>2, <2>1, <3>1, <3>2, <3>3 DEF Matched, CarriesBinding
  <2>9. Unbound(x)'
    BY <1>1, <1>2, <1>3 DEF Unbound
  <2> QED
    BY <2>3, <2>5, <2>6, <2>7, <2>8, <2>9 DEF AllGood, Good
<1> QED
  BY <1>1, <1>6, <1>7

\* The handler of one connection moves, and nothing happens to the sessions.
LEMMA GoodQuiet ==
  ASSUME Types, Shapes, AllGood, NEW c \in Clients,
         Read(c) \/ Route(c) \/ Project(c) \/ Health(c) \/ SendPrompt(c) \/ Whose(c) \/ Reply(c)
  PROVE  AllGood'
<1>1. ASSUME NEW r \in Handlers, Moves(c, r, 0), UNCHANGED <<sessions, stored>>, \A s \in Sessions : Carries(h[c], r, s),
             \A d \in Clients : up'[d] => up[d] /\ subs'[d] = subs[d]
      PROVE  AllGood'
  <2>1. ASSUME NEW s \in Sessions
        PROVE  Untouched(s) /\ s # 0
    BY <1>1, BoundsOK DEF Untouched, sessions, rows, runs, history, Sessions
  <2> QED
    BY <1>1, <2>1, GoodMoves DEF AllGood
<1>2. HandlerTypes
  BY DEF Types
<1>3. ASSUME NEW r \in Handlers, Sets(c, r), UNCHANGED <<up, subs, sessions, stored>>, Quiet(h[c]), Quiet(r)
      PROVE  AllGood'
  <2>1. Moves(c, r, 0)
    BY <1>2, <1>3, MovesSay
  <2>2. \A s \in Sessions : Carries(h[c], r, s)
    BY <1>3, Carriers DEF Idles
  <2> QED
    BY <1>1, <1>3, <2>1, <2>2
<1>4. CASE Read(c)
  <2>1. PICK r \in Handlers : Sets(c, r) /\ r.at \in Firsts
    BY <1>4, ReadSets
  <2>2. h[c].at = "idle" /\ UNCHANGED <<up, subs, sessions, stored>>
    BY <1>4, ReadSets DEF accounts
  <2>3. Quiet(h[c]) /\ Quiet(r)
    BY <2>1, <2>2 DEF Quiet, MakeStep, BindStep, ReviewStep, Firsts
  <2> QED
    BY <1>3, <2>1, <2>2, <2>3
<1>5. CASE List(c) \/ Weigh(c) \/ Choose(c)
  <2>1. h[c].at \in {"list", "select"} /\ UNCHANGED <<up, subs, sessions, stored>>
    BY <1>5 DEF List, Weigh, Choose, At, connections, accounts
  <2>2. \E r \in Handlers : Sets(c, r) /\ r.at \in {"select", "reply", "chosen"}
    <3>1. CASE List(c)
      <4>1. \E r \in Handlers : Sets(c, r) /\ r.at = "select"
        BY <3>1, ListSets
      <4> QED
        BY <4>1
    <3>2. CASE Weigh(c)
      <4>1. \E r \in Handlers : Sets(c, r) /\ r.at = "select"
        BY <3>2, WeighSets
      <4> QED
        BY <4>1
    <3>3. CASE Choose(c)
      <4>1. \E r \in Handlers : Sets(c, r) /\ r.at \in {"reply", "chosen"}
        BY <3>3, ChooseSets
      <4> QED
        BY <4>1
    <3> QED
      BY <1>5, <3>1, <3>2, <3>3
  <2>3. PICK r \in Handlers : Sets(c, r) /\ r.at \in {"select", "reply", "chosen"}
    BY <2>2
  <2>4. Quiet(h[c]) /\ Quiet(r)
    BY <2>1, <2>3 DEF Quiet, MakeStep, BindStep, ReviewStep
  <2> QED
    BY <1>3, <2>1, <2>3, <2>4
<1>6. CASE CheckFresh(c) \/ Discover(c) \/ Project(c) \/ SendPrompt(c) \/ Whose(c)
  <2>1. PICK r \in Handlers : Sets(c, r) /\ Leads(r)
    BY <1>6, FreeSets
  <2>2. h[c].at \in Free
    BY <1>6, FreeSets
  <2>3. UNCHANGED <<up, subs, sessions, stored>>
    BY <1>6 DEF CheckFresh, Discover, Project, SendPrompt, Whose, connections, accounts
  <2>4. Quiet(h[c]) /\ Quiet(r)
    BY <2>1, <2>2 DEF Quiet, MakeStep, BindStep, ReviewStep, Free, Leads
  <2> QED
    BY <1>3, <2>1, <2>3, <2>4
<1>7. CASE Health(c)
  <2>1. PICK r \in Handlers :
          /\ IF BindStep(h[c])
             THEN /\ r.at = "bind" /\ r.session = h[c].session /\ r.account = h[c].account /\ r.gone = h[c].gone
             ELSE Quiet(r)
          /\ h' = Disturb([h EXCEPT ![c] = r]) \/ Sets(c, r)
    BY <1>7, HealthSets
  <2>2. h[c].at = "health" /\ UNCHANGED <<up, subs, sessions, stored>>
    BY <1>7 DEF Health, At, connections
  <2>3. Moves(c, r, 0)
    BY <1>2, <2>1, MovesSay
  <2>4. ASSUME NEW s \in Sessions
        PROVE  Carries(h[c], r, s)
    <3>1. CASE BindStep(h[c])
      BY <2>1, <2>2, <3>1 DEF Carries, CarriesBinding, Makes, Binds, Reviews, MakeStep, BindStep, ReviewStep
    <3>2. CASE ~BindStep(h[c])
      <4>1. Quiet(h[c]) /\ Quiet(r)
        BY <2>1, <2>2, <3>2 DEF Quiet, MakeStep, ReviewStep
      <4> QED
        BY <4>1, Carriers DEF Idles
    <3> QED
      BY <3>1, <3>2
  <2> QED
    BY <1>1, <2>2, <2>3, <2>4
<1>8. CASE Reply(c)
  <2>1. PICK r \in Handlers : r = Idle
    BY RestTypes
  <2>2. Sets(c, r) /\ r.at = "idle" /\ h[c].at = "reply" /\ UNCHANGED <<sessions, stored>> /\ Enqueue(c, "reply")
    BY <1>8, <2>1, RestTypes DEF Reply, Sets, At, accounts
  <2>3. Quiet(h[c]) /\ Quiet(r)
    BY <2>2 DEF Quiet, MakeStep, BindStep, ReviewStep
  <2>4. Moves(c, r, 0)
    BY <1>2, <2>2, MovesSay
  <2>5. \A d \in Clients : up'[d] => up[d] /\ subs'[d] = subs[d]
    BY <2>2 DEF Types, ConnectionTypes, Enqueue, Queue, GiveUp
  <2>6. \A s \in Sessions : Carries(h[c], r, s)
    BY <2>3, Carriers DEF Idles
  <2> QED
    BY <1>1, <2>2, <2>4, <2>5, <2>6
<1> QED
  BY <1>4, <1>5, <1>6, <1>7, <1>8 DEF Route

\* No handler moves, and no session.
LEMMA GoodRest ==
  ASSUME AllGood, UNCHANGED <<rows, live, runsAs, history, bound, apart>>, stored' \subseteq stored,
         \A d \in Clients : up'[d] => up[d] /\ subs'[d] = subs[d],
         \A d \in Clients : Alike(h'[d], h[d]) /\ (h'[d].gone => h[d].gone)
  PROVE  AllGood'
<1>1. ASSUME NEW s \in Sessions
      PROVE  Good(s)'
  <2>1. Untouched(s)
    BY DEF Untouched, rows, history
  <2>2. \A d \in Clients : Carries(h[d], h'[d], s)
    BY Carriers
  <2> QED
    BY <2>1, <2>2, GoodStays DEF AllGood
<1> QED
  BY <1>1 DEF AllGood

\* What else happens on a connection.
LEMMA GoodConnection ==
  ASSUME Types, AllGood, NEW c \in Clients, Notify(c) \/ Write(c) \/ Drop(c)
  PROVE  AllGood'
<1>1. h' = h /\ UNCHANGED <<rows, live, runsAs, history, bound, apart, stored>>
  BY DEF Notify, Write, Drop, sessions, runs, accounts
<1>2. \A d \in Clients : up'[d] => up[d] /\ subs'[d] = subs[d]
  BY DEF Notify, Write, Drop, Types, ConnectionTypes, Enqueue, Queue, GiveUp
<1> QED
  BY <1>1, <1>2, GoodRest DEF Alike

\* A write by others: an account that is removed takes its bindings along.
LEMMA GoodDisturbed ==
  ASSUME Types, AllGood, Others, stored' \subseteq stored,
         \/ bound' = bound
         \/ \E a \in Accounts : /\ bound' = [s \in Sessions |-> IF bound[s] = a THEN 0 ELSE bound[s]]
                                /\ a \notin stored'
  PROVE  AllGood'
<1>1. UNCHANGED <<up, subs, rows, live, runsAs, history, apart>>
  BY DEF Others, connections, runs
<1>2. PICK g \in [Clients -> Handlers] : g = h
  BY DEF Types, HandlerTypes
<1>3. \A d \in Clients : Alike(h'[d], h[d]) /\ h'[d].gone = h[d].gone
  BY <1>2, Disturbs DEF Others
<1>4. CASE bound' = bound
  BY <1>1, <1>3, <1>4, GoodRest
<1>5. ASSUME NEW a \in Accounts, bound' = [s \in Sessions |-> IF bound[s] = a THEN 0 ELSE bound[s]], a \notin stored'
      PROVE  AllGood'
  <2>1. ASSUME NEW s \in Sessions
        PROVE  Good(s)'
    <3>1. \A d \in Clients : Carries(h[d], h'[d], s)
      BY <1>3, Carriers
    <3>2. Good(s) /\ bound'[s] = (IF bound[s] = a THEN 0 ELSE bound[s])
      BY <1>5 DEF AllGood
    <3>3. Watched(s)'
      BY <1>1, <3>1, <3>2 DEF Good, Watched, Carries, history
    <3>4. Subscribed(s)'
      BY <1>1, <3>2 DEF Good, Subscribed, history
    <3>5. Hiring(s)'
      BY <1>1, <3>1, <3>2 DEF Good, Hiring, Carries, CarriesBinding, Reviews, Binds, history
    <3>6. Matched(s)'
      BY <1>1, <1>5, <3>1, <3>2 DEF Good, Matched, Carries, CarriesBinding, Binds, rows
    <3>7. Unbound(s)'
      BY <1>1, <3>2 DEF Good, Unbound, rows
    <3> QED
      BY <3>3, <3>4, <3>5, <3>6, <3>7 DEF Good
  <2> QED
    BY <2>1 DEF AllGood
<1> QED
  BY <1>4, <1>5

\* The sessions, step by step.
LEMMA GoodStep ==
  ASSUME Types, Shapes, AllGood, Next
  PROVE  AllGood'
<1>1. ASSUME NEW c \in Clients, Handle(c)
      PROVE  AllGood'
  BY <1>1, GoodStart, GoodBind, GoodWatch, GoodParent, GoodReview, GoodClose, GoodResolve, GoodQuiet DEF Handle
<1>2. ASSUME NEW c \in Clients, Read(c) \/ Route(c) \/ Reply(c) \/ Notify(c) \/ Write(c) \/ Drop(c)
      PROVE  AllGood'
  BY <1>2, GoodQuiet, GoodConnection
<1>3. ASSUME NEW a \in Changing, SaveQuota(a) \/ SetCurrent(a)
      PROVE  AllGood'
  BY <1>3, GoodDisturbed DEF SaveQuota, SetCurrent
<1>4. ASSUME NEW a \in Changing, Remove(a)
      PROVE  AllGood'
  BY <1>4, BoundsOK, GoodDisturbed DEF Remove
<1>5. ASSUME Tick
      PROVE  AllGood'
  BY <1>5, GoodDisturbed DEF Tick
<1> QED
  BY <1>1, <1>2, <1>3, <1>4, <1>5, GoodEnds DEF Next

\* No session runs without a subscriber since its start, without the review it was made for or
\* under another account than its own, but in the ways that are named (StraysAreNamed).
THEOREM SessionsCorrect == Spec => []StraysAreNamed
<1>1. Init => Types /\ Shapes /\ AllGood
  <2>1. ASSUME Init, NEW s \in Sessions
        PROVE  Good(s)
    <3>1. \A d \in Clients : Quiet(h[d])
      BY <2>1, RestTypes DEF Init, Quiet, MakeStep, BindStep, ReviewStep
    <3>2. Matched(s)
      <4>1. s \in Int /\ bound = env
        BY <2>1 DEF Init, Sessions
      <4>2. \A d \in Clients : ~Binds(h[d], s)
        BY <3>1 DEF Quiet, MakeStep, Binds
      <4>3. live = {}
        BY <2>1 DEF Init
      <4> QED
        BY <4>1, <4>2, <4>3 DEF Matched
    <3>3. Unbound(s)
      <4>1. PICK e \in Earlier : made = Len(e) /\ env = [x \in Sessions |-> IF x <= Len(e) THEN e[x] ELSE 0]
        BY <2>1 DEF Init
      <4>2. bound = env /\ made \in Nat /\ s \in Int
        BY <2>1, <4>1, EarlierOK DEF Init, Sessions
      <4> QED
        BY <4>1, <4>2 DEF Unbound
    <3> QED
      BY <2>1, <3>2, <3>3 DEF Init, Good, Watched, Subscribed, Hiring
  <2> QED
    BY <2>1, InitTypes DEF AllGood
<1>2. (Types /\ Shapes /\ AllGood) /\ [Next]_vars => (Types /\ Shapes /\ AllGood)'
  <2>1. ASSUME Types, Shapes, AllGood, Next
        PROVE  AllGood'
    BY <2>1, GoodStep
  <2>2. ASSUME AllGood, UNCHANGED vars
        PROVE  AllGood'
    BY <2>2, GoodRest DEF vars, connections, sessions, runs, accounts, Alike
  <2> QED
    BY <2>1, <2>2, TypesStep
<1>3. Types /\ Shapes /\ AllGood => StraysAreNamed
  BY GoodIsNamed
<1> QED
  BY <1>1, <1>2, <1>3, PTL DEF Spec
-----------------------------------------------------------------------------
(* Selections.                                                                *)

\* The order in which accounts are preferred.
Value(a, class) == Score(facts[a], a = current, class, now)
Better(x, a, class, profile) ==
  \/ Value(x, class) < Value(a, class)
  \/ Value(x, class) = Value(a, class) /\ x = current /\ ~profile
  \/ Value(x, class) = Value(a, class) /\ x < a /\ (a # current \/ profile)

Best(x, among, r) == x \in among /\ \A a \in among \ {x} : Better(x, a, r.class, r.profile)

\* A selection that no write has disturbed has found the best of those that it has seen.
Seen(r) == Candidates(r.profile) \ r.left
Selection(r) == r.calm =>
  /\ r.at = "select" => /\ r.cur = current /\ r.time = now /\ r.left \subseteq Candidates(r.profile)
                        /\ IF r.best = 0 THEN r.left = Candidates(r.profile)
                           ELSE r.score = Value(r.best, r.class) /\ Best(r.best, Seen(r), r)
  /\ r.at = "chosen" => Best(r.account, Candidates(r.profile), r)
Selections == \A c \in Clients : Selection(h[c])

\* Values are numbers.
LEMMA ValueType ==
  ASSUME Types, NEW a \in Accounts, NEW class \in Classes
  PROVE  Value(a, class) \in Int
<1>1. facts[a] \in Facts /\ now \in 0 .. MaxNow /\ (a = current) \in BOOLEAN
  BY DEF Types, AccountTypes
<1> QED
  BY <1>1, ScoreType DEF Value

\* Of two accounts one is better; and what is better than a better one is better.
LEMMA BetterOrder ==
  ASSUME Types, NEW x \in Accounts, NEW y \in Accounts, NEW z \in Accounts, NEW class \in Classes,
         NEW profile \in BOOLEAN
  PROVE  /\ x # y => Better(x, y, class, profile) \/ Better(y, x, class, profile)
         /\ x # z /\ Better(x, y, class, profile) /\ Better(y, z, class, profile) => Better(x, z, class, profile)
<1>1. Value(x, class) \in Int /\ Value(y, class) \in Int /\ Value(z, class) \in Int
  BY ValueType
<1>2. x \in Int /\ y \in Int /\ z \in Int
  BY BoundsOK
<1>3. x # y => Better(x, y, class, profile) \/ Better(y, x, class, profile)
  BY <1>1, <1>2 DEF Better
<1>4. x # z /\ Better(x, y, class, profile) /\ Better(y, z, class, profile) => Better(x, z, class, profile)
  BY <1>1, <1>2 DEF Better
<1> QED
  BY <1>3, <1>4

\* A candidate replaces the best so far if it is better.
LEMMA BeatsIsBetter ==
  ASSUME Types, NEW x \in Accounts, NEW y \in Accounts, x # y, NEW class \in Classes, NEW profile \in BOOLEAN
  PROVE  Beats(x, Value(x, class), y, Value(y, class), current, profile) <=> Better(x, y, class, profile)
<1>1. Value(x, class) \in Int /\ Value(y, class) \in Int /\ x \in Int /\ y \in Int
  BY ValueType, BoundsOK
<1>2. CASE profile
  BY <1>1, <1>2 DEF Better, Beats, ProfileTieBeats
<1>3. CASE ~profile
  <2>1. TieBeats(x, y, current) <=> x = current \/ (x < y /\ y # current)
    BY <1>1 DEF TieBeats
  <2> QED
    BY <1>1, <1>3, <2>1 DEF Better, Beats
<1> QED
  BY <1>2, <1>3

\* A selection stays what it is while nothing is written.
LEMMA SelectionStays ==
  ASSUME NEW r, UNCHANGED accounts
  PROVE  Selection(r)' <=> Selection(r)
<1>1. UNCHANGED <<stored, current, facts, now>>
  BY DEF accounts
<1>2. \A a, class : Value(a, class)' = Value(a, class)
  BY <1>1 DEF Value
<1>3. \A x, a, class, profile : Better(x, a, class, profile)' <=> Better(x, a, class, profile)
  BY <1>1, <1>2 DEF Better
<1>4. \A profile : Candidates(profile)' = Candidates(profile)
  BY <1>1 DEF Candidates
<1>5. \A x, among : Best(x, among, r)' <=> Best(x, among, r)
  BY <1>3 DEF Best
<1>6. Seen(r)' = Seen(r)
  BY <1>4 DEF Seen
<1> QED
  BY <1>1, <1>2, <1>4, <1>5, <1>6 DEF Selection

\* A selection that a handler holds afterwards.
LEMMA SelectionHeld ==
  ASSUME NEW c \in Clients, NEW r, h'[c] = r, Selection(r)'
  PROVE  Selection(h[c])'
<1>1. \A x, among : Best(x, among, r)' => Best(x, among, h[c])'
  BY DEF Best, Better, Value
<1>2. Seen(h[c])' = Seen(r)'
  BY DEF Seen, Candidates
<1>3. Candidates(h[c].profile)' = Candidates(r.profile)'
  BY DEF Candidates
<1> QED
  BY <1>1, <1>2, <1>3 DEF Selection, Best, Better, Value, Seen, Candidates

\* Handlers whose selections hold, while nothing is written.
LEMMA SelectionsFrom ==
  ASSUME NEW g \in [Clients -> Handlers], \A d \in Clients : \E q \in Handlers : q = g[d] /\ Selection(q),
         h' = g, UNCHANGED accounts
  PROVE  Selections'
<1>1. ASSUME NEW d \in Clients
      PROVE  \E q \in Handlers : q = h'[d] /\ Selection(q)'
  <2>1. PICK q \in Handlers : q = h'[d] /\ Selection(q)
    BY <1>1
  <2> QED
    BY <2>1, SelectionStays
<1> QED
  BY <1>1, SelectionHeld DEF Selections

\* One connection moves on while nothing is written.
LEMMA SelectionsMove ==
  ASSUME Types, Selections, NEW c \in Clients, NEW r \in Handlers, Sets(c, r), UNCHANGED accounts, Selection(r)
  PROVE  Selections'
<1>1. PICK g \in [Clients -> Handlers] : g = [h EXCEPT ![c] = r]
  BY DEF Types, HandlerTypes
<1>2. ASSUME NEW d \in Clients
      PROVE  \E q \in Handlers : q = g[d] /\ Selection(q)
  BY <1>1 DEF Types, HandlerTypes, Selections
<1> QED
  BY <1>1, <1>2, SelectionsFrom DEF Sets

\* A session is over in the hands of some, and a connection moves on.
LEMMA SelectionsOrphaned ==
  ASSUME Types, Selections, NEW s, UNCHANGED accounts,
         \/ h' = Orphaned(h, s)
         \/ \E c \in Clients, r \in Handlers : /\ h' = [Orphaned(h, s) EXCEPT ![c] = r]
                                             /\ r.at \notin {"select", "chosen"}
  PROVE  Selections'
<1>1. HandlerTypes
  BY DEF Types
<1>2. PICK g \in [Clients -> Handlers] : g = Orphaned(h, s)
  BY <1>1, Orphans
<1>3. ASSUME NEW d \in Clients
      PROVE  \E q \in Handlers : q = g[d] /\ Selection(q)
  <2>1. PICK q \in Handlers : q = g[d]
    BY <1>2
  <2>2. q.at = h[d].at /\ (h[d].at \in {"select", "chosen"} => q = h[d])
    BY <1>1, <1>2, <2>1, Orphans DEF Alike
  <2>3. CASE h[d].at \in {"select", "chosen"}
    BY <2>1, <2>2, <2>3 DEF Selections
  <2>4. CASE h[d].at \notin {"select", "chosen"}
    <3>1. Selection(q)
      BY <2>2, <2>4 DEF Selection
    <3> QED
      BY <2>1, <3>1
  <2> QED
    BY <2>3, <2>4
<1>4. CASE h' = Orphaned(h, s)
  BY <1>2, <1>3, <1>4, SelectionsFrom
<1>5. ASSUME NEW c \in Clients, NEW r \in Handlers, h' = [Orphaned(h, s) EXCEPT ![c] = r],
             r.at \notin {"select", "chosen"}
      PROVE  Selections'
  <2>1. PICK f \in [Clients -> Handlers] : f = [g EXCEPT ![c] = r]
    OBVIOUS
  <2>2. Selection(r)
    BY <1>5 DEF Selection
  <2>3. ASSUME NEW d \in Clients
        PROVE  \E q \in Handlers : q = f[d] /\ Selection(q)
    <3>1. CASE d = c
      BY <2>1, <2>2, <3>1
    <3>2. CASE d # c
      BY <1>3, <2>1, <3>2
    <3> QED
      BY <3>1, <3>2
  <2> QED
    BY <1>2, <1>5, <2>1, <2>3, SelectionsFrom
<1> QED
  BY <1>4, <1>5

\* No connection moves on, and nothing is written.
LEMMA SelectionsRest ==
  ASSUME Selections, UNCHANGED <<h, accounts>>
  PROVE  Selections'
<1>1. ASSUME NEW d \in Clients
      PROVE  Selection(h[d])'
  <2>1. PICK q : q = h[d] /\ q = h'[d] /\ Selection(q)
    BY DEF Selections
  <2>2. Selection(q)'
    BY <2>1, SelectionStays
  <2> QED
    BY <2>1, <2>2, SelectionHeld
<1> QED
  BY <1>1 DEF Selections

\* A write leaves no selection that counts.
LEMMA SelectionsDisturbed ==
  ASSUME NEW g \in [Clients -> Handlers], h' = Disturb(g)
  PROVE  Selections'
<1>1. ASSUME NEW d \in Clients
      PROVE  h'[d].calm => h'[d].at \notin {"select", "chosen"}
  BY Disturbs
<1> QED
  BY <1>1 DEF Selections, Selection

\* One account more is weighed, and the best stays the best.
LEMMA SelectionsWeigh ==
  ASSUME Types, Shapes, Selections, NEW c \in Clients, Weigh(c)
  PROVE  Selections'
<1>1. PICK r \in Handlers, a \in h[c].left :
        LET s == Score(facts[a], a = h[c].cur, h[c].class, h[c].time)
            better == h[c].best = 0 \/ Beats(a, s, h[c].best, h[c].score, h[c].cur, h[c].profile)
        IN /\ Sets(c, r) /\ Shape(r)' /\ h[c].at = "select" /\ r.at = "select" /\ r.left = h[c].left \ {a}
           /\ r.best = (IF better THEN a ELSE h[c].best) /\ r.score = (IF better THEN s ELSE h[c].score)
           /\ r.cur = h[c].cur /\ r.time = h[c].time /\ r.class = h[c].class /\ r.profile = h[c].profile
           /\ r.calm = h[c].calm /\ r.gone = h[c].gone
  BY WeighSets, Zenon
<1>2. UNCHANGED accounts
  BY DEF Weigh
<1>3. ASSUME r.calm
      PROVE  Selection(r)
  <2> DEFINE b == h[c].best
             class == h[c].class
             all == Candidates(h[c].profile)
  <2>1. h[c] \in Handlers
    BY DEF Types, HandlerTypes
  <2>2. class \in Classes /\ h[c].profile \in BOOLEAN /\ b \in Accounts \cup {0} /\ h[c].left \subseteq Accounts
    BY <2>1 DEF Handlers
  <2>3. h[c].cur = current /\ h[c].time = now /\ h[c].left \subseteq all /\ a \in all
        /\ IF b = 0 THEN h[c].left = all
           ELSE h[c].score = Value(b, class) /\ Best(b, Seen(h[c]), h[c])
    BY <1>1, <1>3 DEF Selections, Selection
  <2>4. Score(facts[a], a = h[c].cur, h[c].class, h[c].time) = Value(a, class)
    BY <2>3 DEF Value
  <2>5. all \subseteq Accounts /\ a \in Accounts /\ a # 0
    BY <2>2, BoundsOK DEF Candidates, Types, AccountTypes
  <2>6. Seen(r) = Seen(h[c]) \cup {a} /\ a \notin Seen(h[c]) /\ Seen(h[c]) \subseteq all /\ Seen(h[c]) = all \ h[c].left
    BY <1>1, <2>3 DEF Seen
  <2>7. r.cur = current /\ r.time = now /\ r.left \subseteq Candidates(r.profile) /\ r.at = "select"
        /\ r.class = class /\ r.profile = h[c].profile
    BY <1>1, <2>3
  <2> HIDE DEF b, class, all
  <2>8. CASE b = 0
    <3>1. r.best = a /\ r.score = Value(a, class)
      BY <1>1, <2>4, <2>8 DEF b
    <3>2. Seen(r) = {a}
      BY <2>3, <2>6, <2>8
    <3>3. Best(a, Seen(r), r)
      BY <3>2 DEF Best
    <3> QED
      BY <2>5, <2>7, <3>1, <3>3 DEF Selection
  <2>9. CASE b # 0
    <3>1. b \in Accounts /\ b \in Seen(h[c]) /\ b # a /\ h[c].score = Value(b, class)
          /\ \A x \in Seen(h[c]) \ {b} : Better(b, x, class, h[c].profile)
      BY <2>2, <2>3, <2>6, <2>9 DEF Best, class
    <3>2. CASE Better(a, b, class, h[c].profile)
      <4>1. Beats(a, Value(a, class), b, h[c].score, h[c].cur, h[c].profile)
        BY <2>2, <2>3, <2>5, <3>1, <3>2, BeatsIsBetter
      <4>2. r.best = a /\ r.score = Value(a, class)
        BY <1>1, <2>4, <4>1 DEF b
      <4>3. ASSUME NEW x \in Seen(r) \ {a}
            PROVE  Better(a, x, class, h[c].profile)
        <5>1. x \in Accounts /\ x \in Seen(h[c]) /\ x # a
          BY <2>5, <2>6
        <5>2. CASE x = b
          BY <3>2, <5>2
        <5>3. CASE x # b
          BY <2>2, <2>5, <3>1, <3>2, <5>1, <5>3, BetterOrder
        <5> QED
          BY <5>2, <5>3
      <4>4. Best(a, Seen(r), r)
        BY <2>6, <2>7, <4>3 DEF Best
      <4> QED
        BY <2>5, <2>7, <4>2, <4>4 DEF Selection
    <3>3. CASE ~Better(a, b, class, h[c].profile)
      <4>1. ~Beats(a, Value(a, class), b, h[c].score, h[c].cur, h[c].profile)
        BY <2>2, <2>3, <2>5, <3>1, <3>3, BeatsIsBetter
      <4>2. r.best = b /\ r.score = Value(b, class)
        BY <1>1, <2>4, <2>9, <3>1, <4>1 DEF b
      <4>3. Better(b, a, class, h[c].profile)
        BY <2>2, <2>5, <3>1, <3>3, BetterOrder
      <4>4. Best(b, Seen(r), r)
        BY <2>6, <2>7, <3>1, <4>3 DEF Best
      <4> QED
        BY <2>7, <2>9, <4>2, <4>4 DEF Selection
    <3> QED
      BY <3>2, <3>3
  <2> QED
    BY <2>8, <2>9
<1>4. Selection(r)
  BY <1>3 DEF Selection
<1>5. Sets(c, r)
  BY <1>1
<1> QED
  BY <1>2, <1>4, <1>5, SelectionsMove

\* The selections, step by step.
LEMMA SelectionsStep ==
  ASSUME Types, Shapes, Selections, Next
  PROVE  Selections'
<1>1. ASSUME NEW c \in Clients, NEW r \in Handlers, Sets(c, r), UNCHANGED accounts, r.at \notin {"select", "chosen"}
      PROVE  Selections'
  <2>1. Selection(r)
    BY <1>1 DEF Selection
  <2> QED
    BY <1>1, <2>1, SelectionsMove
<1>2. ASSUME NEW c \in Clients, List(c)
      PROVE  Selections'
  <2>1. PICK r \in Handlers : /\ Sets(c, r) /\ r.at = "select" /\ r.best = 0 /\ r.cur = current
                              /\ r.time = now /\ r.left = Candidates(r.profile)
    BY <1>2, ListSets
  <2>2. Selection(r) /\ UNCHANGED accounts
    BY <1>2, <2>1 DEF Selection, List
  <2> QED
    BY <2>1, <2>2, SelectionsMove
<1>3. ASSUME NEW c \in Clients, Choose(c)
      PROVE  Selections'
  <2>1. PICK r \in Handlers :
          /\ Sets(c, r)
          /\ IF h[c].best = 0 THEN r.at = "reply"
             ELSE /\ r.at = "chosen" /\ r.account = h[c].best /\ r.calm = h[c].calm /\ r.gone = h[c].gone
                  /\ r.class = h[c].class /\ r.profile = h[c].profile
    BY <1>3, ChooseSets
  <2>2. UNCHANGED accounts /\ h[c].at = "select" /\ h[c].left = {}
    BY <1>3, ChooseSets DEF Choose
  <2>3. Selection(r)
    <3>1. CASE h[c].best = 0
      BY <2>1, <3>1 DEF Selection
    <3>2. CASE h[c].best # 0 /\ h[c].calm
      <4>1. Best(h[c].best, Seen(h[c]), h[c])
        BY <2>2, <3>2 DEF Selections, Selection
      <4>2. Seen(h[c]) = Candidates(h[c].profile)
        BY <2>2 DEF Seen
      <4>3. Best(r.account, Candidates(r.profile), r)
        BY <2>1, <3>2, <4>1, <4>2 DEF Best
      <4> QED
        BY <2>1, <3>2, <4>3 DEF Selection
    <3>3. CASE h[c].best # 0 /\ ~h[c].calm
      BY <2>1, <3>3 DEF Selection
    <3> QED
      BY <3>1, <3>2, <3>3
  <2> QED
    BY <2>1, <2>2, <2>3, SelectionsMove
<1>4. ASSUME NEW c \in Clients, CheckFresh(c) \/ Discover(c) \/ Project(c) \/ SendPrompt(c) \/ Whose(c)
      PROVE  Selections'
  <2>1. PICK r \in Handlers : Sets(c, r) /\ Leads(r)
    BY <1>4, FreeSets
  <2>2. UNCHANGED accounts
    BY <1>4 DEF CheckFresh, Discover, Project, SendPrompt, Whose
  <2> QED
    BY <1>1, <2>1, <2>2 DEF Leads
<1>5. ASSUME NEW c \in Clients,
             \/ Read(c) \/ Start(c) \/ ForkNative(c) \/ Hire(c) \/ Bind(c) \/ Watch(c) \/ Parent(c) \/ Review(c)
             \/ CloseSession(c) \/ Fire(c) \/ Resolve(c)
      PROVE  Selections'
  <2>1. UNCHANGED accounts
    BY <1>5, AccountsUnchanged
  <2>2. \E r \in Handlers : /\ r.at \notin {"select", "chosen"}
                            /\ Sets(c, r) \/ \E s \in Sessions : h' = [Orphaned(h, s) EXCEPT ![c] = r]
    <3>1. CASE Read(c)
      BY <3>1, ReadSets DEF Firsts
    <3>2. CASE Start(c)
      <4>1. \E r \in Handlers : Sets(c, r) /\ r.at \in {"watch", "health", "reply"}
        BY <3>2, StartSets
      <4> QED
        BY <4>1
    <3>3. CASE ForkNative(c)
      <4>1. \E r \in Handlers : Sets(c, r) /\ r.at \in {"parent", "reply"}
        BY <3>3, ForkSets
      <4> QED
        BY <4>1
    <3>4. CASE Hire(c)
      <4>1. \E r \in Handlers : Sets(c, r) /\ r.at \in {"watch", "reply"}
        BY <3>4, HireSets
      <4> QED
        BY <4>1
    <3>5. CASE Bind(c)
      <4>1. \E r \in Handlers : Sets(c, r) /\ r.at \in {"watch", "reply"}
        BY <3>5, BindSets
      <4> QED
        BY <4>1
    <3>6. CASE Watch(c)
      <4>1. \E r \in Handlers : Sets(c, r) /\ r.at \in {"review", "reply"}
        BY <3>6, WatchSets
      <4> QED
        BY <4>1
    <3>7. CASE Parent(c)
      <4>1. \E r \in Handlers : Sets(c, r) /\ r.at \in {"watch", "bind", "reply"}
        BY <3>7, ParentSets
      <4> QED
        BY <4>1
    <3>8. CASE Review(c)
      <4>1. \E r \in Handlers : Sets(c, r) /\ r.at \in {"hire", "fire", "reply"}
        BY <3>8, ReviewSets
      <4> QED
        BY <4>1
    <3>9. CASE CloseSession(c) \/ Fire(c)
      <4>1. \E r \in Handlers : r.at = "reply" /\ (h' = [Orphaned(h, h[c].session) EXCEPT ![c] = r] \/ Sets(c, r))
        BY <3>9, CloseSets
      <4>2. h[c].session \in Sessions
        BY <3>9, CloseSets
      <4> QED
        BY <4>1, <4>2
    <3>10. CASE Resolve(c)
      <4>1. \E r \in Handlers : /\ r.at \in {"watch", "fork", "send", "reply"}
                                /\ h' = [Orphaned(h, h[c].session) EXCEPT ![c] = r] \/ Sets(c, r)
        BY <3>10, ResolveSets
      <4>2. h[c].session \in Sessions
        BY <3>10, ResolveSets
      <4> QED
        BY <4>1, <4>2
    <3> QED
      BY <1>5, <3>1, <3>2, <3>3, <3>4, <3>5, <3>6, <3>7, <3>8, <3>9, <3>10
  <2>3. PICK r \in Handlers : /\ r.at \notin {"select", "chosen"}
                              /\ Sets(c, r) \/ \E s \in Sessions : h' = [Orphaned(h, s) EXCEPT ![c] = r]
    BY <2>2
  <2>4. CASE Sets(c, r)
    BY <1>1, <2>1, <2>3, <2>4
  <2>5. CASE \E s \in Sessions : h' = [Orphaned(h, s) EXCEPT ![c] = r]
    BY <2>1, <2>3, <2>5, SelectionsOrphaned
  <2> QED
    BY <2>3, <2>4, <2>5
<1>6. ASSUME NEW c \in Clients, Health(c)
      PROVE  Selections'
  <2>1. PICK r \in Handlers : /\ r.at \in {"bind", "reply"}
                              /\ \/ h' = Disturb([h EXCEPT ![c] = r])
                                 \/ facts' = facts /\ Sets(c, r)
    BY <1>6, HealthSets
  <2>2. CASE h' = Disturb([h EXCEPT ![c] = r])
    <3>1. PICK g \in [Clients -> Handlers] : g = [h EXCEPT ![c] = r]
      BY DEF Types, HandlerTypes
    <3> QED
      BY <2>2, <3>1, SelectionsDisturbed
  <2>3. CASE facts' = facts /\ Sets(c, r)
    <3>1. UNCHANGED accounts
      BY <1>6, <2>3 DEF Health, accounts
    <3> QED
      BY <1>1, <2>1, <2>3, <3>1
  <2> QED
    BY <2>1, <2>2, <2>3
<1>7. ASSUME NEW c \in Clients, Reply(c)
      PROVE  Selections'
  <2>1. PICK r \in Handlers : r = Idle
    BY RestTypes
  <2>2. Sets(c, r) /\ r.at = "idle" /\ UNCHANGED accounts
    BY <1>7, <2>1, RestTypes DEF Reply, Sets
  <2> QED
    BY <1>1, <2>2
<1>8. ASSUME UNCHANGED <<h, accounts>>
      PROVE  Selections'
  BY <1>8, SelectionsRest
<1>9. ASSUME NEW c \in Clients, Notify(c) \/ Write(c) \/ Drop(c)
      PROVE  Selections'
  BY <1>8, <1>9 DEF Notify, Write, Drop
<1>10. ASSUME NEW s \in Sessions, Ends(s)
       PROVE  Selections'
  BY <1>10, SelectionsOrphaned DEF Ends
<1>11. ASSUME Others
       PROVE  Selections'
  <2>1. PICK g \in [Clients -> Handlers] : g = h
    BY DEF Types, HandlerTypes
  <2> QED
    BY <1>11, <2>1, SelectionsDisturbed DEF Others
<1>12. CASE \E c \in Clients : Read(c) \/ Route(c) \/ Handle(c) \/ Reply(c) \/ Notify(c) \/ Write(c) \/ Drop(c)
  BY <1>2, <1>3, <1>4, <1>5, <1>6, <1>7, <1>9, <1>12, SelectionsWeigh DEF Route, Handle
<1> QED
  BY <1>10, <1>11, <1>12 DEF Next, SaveQuota, SetCurrent, Remove, Tick

\* The account that is chosen is the best of those there are, in whatever order they were weighed
\* (ChoiceIsBest).
THEOREM ChoiceCorrect == Spec => []ChoiceIsBest
<1>1. Init => Types /\ Shapes /\ Selections
  <2>1. ASSUME Init
        PROVE  Selections
    <3>1. PICK r \in Handlers : r = Idle
      BY RestTypes
    <3>2. Selection(r)
      BY <3>1, RestTypes DEF Selection
    <3> QED
      BY <2>1, <3>1, <3>2 DEF Init, Selections
  <2> QED
    BY <2>1, InitTypes
<1>2. (Types /\ Shapes /\ Selections) /\ [Next]_vars => (Types /\ Shapes /\ Selections)'
  <2>1. ASSUME Types, Shapes, Selections, Next
        PROVE  Selections'
    BY <2>1, SelectionsStep
  <2>2. ASSUME Selections, UNCHANGED vars
        PROVE  Selections'
    BY <2>2, SelectionsRest DEF vars
  <2> QED
    BY <2>1, <2>2, TypesStep
<1>3. Types /\ Shapes /\ Selections => ChoiceIsBest
  <2>1. ASSUME Selections, NEW c \in Clients, At(c, "chosen"), h[c].calm
        PROVE  Best(h[c].account, Candidates(h[c].profile), h[c])
    BY <2>1 DEF Selections, Selection, At
  <2> QED
    BY <2>1 DEF ChoiceIsBest, Best, Better, Value
<1> QED
  BY <1>1, <1>2, <1>3, PTL DEF Spec
=============================================================================
