-------------------------- MODULE ReadinessProofs --------------------------
(***************************************************************************)
(* What holds of Readiness for every set of accounts, whatever the store     *)
(* holds at first and whatever changes from outside, checked by TLAPS.       *)
(*                                                                           *)
(*   Types                TypeOK, with what the steps of a plan carry        *)
(*   VerdictsAgree        and FailureIsExplained follow from the types       *)
(*   RunLeads             RunMeansReady, with the steps still to be run      *)
(*   Settled, Leads       FourRoundsSuffice: what every round settles for    *)
(*                        good, and the steps that are to settle it          *)
(***************************************************************************)
EXTENDS Readiness, FiniteSetTheorems, FunctionTheorems, SequenceTheorems, WellFoundedInduction, TLAPS

\* The parts of TypeOK.
WorldTypes == /\ up \in BOOLEAN /\ codex \in BOOLEAN /\ online \in BOOLEAN
              /\ daemon \in Backends /\ shell \in Backends
              /\ backend \in [Accounts -> Backends \cup {"none"}]
              /\ held \subseteq Backends \X Accounts
              /\ locked \subseteq Backends /\ wedged \subseteq Accounts
              /\ quota \in [Accounts -> Quotas]
              /\ current \in Stored \cup {0}
              /\ options \in Options
PlanTypes == /\ plan \in Seq(Steps)
             /\ plan # <<>> => plan[Len(plan)].id = "final"
ProgressTypes == /\ calm \in BOOLEAN
                 /\ mode \in Modes \cup {"none", "check"}
                 /\ ran \in [ok : BOOLEAN, skipped : BOOLEAN]
                 /\ rounds \in 0 .. 4 /\ faults \in 0 .. MaxFaults

\* A step that aligns the shell names a backend.
NamesBackend == \A r \in Range(plan) : r.id = "align" => r.backend \in Backends
Types == WorldTypes /\ PlanTypes /\ ProgressTypes /\ NamesBackend

\* Some step that is left has this id.
On(id, steps) == \E r \in steps : r.id = id

\* While nothing changed from outside, the plan is one of doctor that still fits.
FitsDoctor ==
  calm => \A r \in Range(plan) :
    /\ r.id \in {"start", "align", "import", "secretstore", "refresh", "final"}
    /\ r.id = "align" => r.backend = options.require
    /\ r.id = "secretstore" => ~options.promptFree
    /\ r.id \in {"secretstore", "refresh"} => r.backend = Target(options) /\ Stored # {}

Aligned == options.require \in {"any", shell}
AllFresh == \A a \in Stored : IsFresh(a, quota)

\* What a repair run that went well so far has still to do for readiness.
RunNeeds(X) ==
  ~BeyondPlans =>
    /\ up \/ On("start", X)
    /\ Aligned \/ On("align", X)
    /\ Several \/ On("import", X)
    /\ Target(options) \notin locked \/ On("secretstore", X) \/ On("align", X)
    /\ AllFresh \/ On("refresh", X) \/ On("import", X)
RunLeads == mode \in {"run", "run all"} /\ calm /\ ran.ok /\ ~ran.skipped => RunNeeds(Range(plan))

\* What the first, second, third and fourth rounds settle, if the steps X are done yet.
First(X) == (up \/ On("start", X)) /\ (Aligned \/ On("align", X))
Second(X) == ~options.promptFree /\ Target(options) \in locked
               => Stored = {} \/ daemon # Target(options) \/ On("secretstore", X)
Third(X) == Several \/ daemon # Target(options) \/ Target(options) \in locked \/ On("import", X)
Fourth(X) == ~BeyondPlans => Stored # {} /\ (AllFresh \/ On("refresh", X))

Settled == /\ rounds >= 1 => First({})
           /\ rounds >= 2 => Second({})
           /\ rounds >= 3 => Third({})
           /\ rounds >= 4 => Fourth({})

\* A plan of doctor that is followed by hand leads to the next of them; an import that is
\* left over after the third cannot work.
Followed == mode = "hand" /\ calm /\ plan # <<>>
Leads == Followed =>
           /\ First(Range(plan))
           /\ rounds >= 1 => Second(Range(plan))
           /\ rounds >= 2 => Third(Range(plan))
           /\ rounds >= 3 => Fourth(Range(plan))
           /\ rounds >= 3 /\ On("import", Range(plan)) => daemon # Target(options) \/ Target(options) \in locked

\* The rounds count while nothing changes from outside, and no other plan comes between.
Counted == (mode = "check" => ~calm) /\ (~calm => rounds = 0)
-----------------------------------------------------------------------------
(* Plans as sequences of steps.                                               *)

\* The first step of a plan, and the rest.
LEMMA HeadAndRest ==
  ASSUME NEW S, NEW s \in Seq(S), s # <<>>
  PROVE  /\ Head(s) \in Range(s) /\ Tail(s) \in Seq(S)
         /\ Range(s) = {Head(s)} \cup Range(Tail(s))
         /\ Tail(s) # <<>> => Tail(s)[Len(Tail(s))] = s[Len(s)]
<1>1. /\ Tail(s) \in Seq(S) /\ Len(Tail(s)) = Len(s) - 1
      /\ \A i \in 1 .. Len(Tail(s)) : Tail(s)[i] = s[i + 1]
  BY HeadTailProperties
<1>2. Len(s) \in Nat /\ Len(s) > 0 /\ Head(s) = s[1]
  OBVIOUS
<1>3. /\ Range(s) = {s[i] : i \in 1 .. Len(s)}
      /\ Range(Tail(s)) = {Tail(s)[i] : i \in 1 .. Len(Tail(s))}
  BY <1>1, RangeEquality
<1>4. Head(s) \in Range(s) /\ Range(Tail(s)) \subseteq Range(s)
  BY <1>1, <1>2, <1>3
<1>5. ASSUME NEW x \in Range(s), x # Head(s)
      PROVE  x \in Range(Tail(s))
  <2>1. PICK i \in 1 .. Len(s) : x = s[i]
    BY <1>3
  <2>2. i # 1
    BY <1>2, <1>5, <2>1
  <2>3. i - 1 \in 1 .. Len(Tail(s)) /\ Tail(s)[i - 1] = s[i]
    BY <1>1, <1>2, <2>2
  <2> QED
    BY <1>3, <2>1, <2>3
<1>6. Tail(s) # <<>> => Tail(s)[Len(Tail(s))] = s[Len(s)]
  <2>1. SUFFICES ASSUME Tail(s) # <<>> PROVE Tail(s)[Len(Tail(s))] = s[Len(s)]
    OBVIOUS
  <2>2. Len(Tail(s)) \in 1 .. Len(Tail(s))
    BY <1>1, <2>1
  <2> QED
    BY <1>1, <1>2, <2>2
<1> QED
  BY <1>1, <1>4, <1>5, <1>6

\* A plan without steps is empty.
LEMMA NoSteps ==
  ASSUME NEW S, NEW s \in Seq(S)
  PROVE  Range(s) = {} <=> s = <<>>
<1>1. Range(s) = {s[i] : i \in 1 .. Len(s)}
  BY RangeEquality
<1>2. s # <<>> => 1 \in 1 .. Len(s)
  OBVIOUS
<1>3. s = <<>> => Range(s) = {}
  BY <1>1
<1> QED
  BY <1>1, <1>2, <1>3

\* A plan of one step.
LEMMA SingleStep ==
  ASSUME NEW S, NEW r \in S
  PROVE  <<r>> \in Seq(S) /\ Range(<<r>>) = {r}
<1>1. <<r>> \in Seq(S) /\ Len(<<r>>) = 1 /\ <<r>>[1] = r
  OBVIOUS
<1>2. Range(<<r>>) = {<<r>>[i] : i \in 1 .. Len(<<r>>)}
  BY <1>1, RangeEquality
<1>3. 1 .. 1 = {1}
  OBVIOUS
<1> QED
  BY <1>1, <1>2, <1>3

\* A step that may be worth it is in the plan when it is wanted.
LEMMA MaySteps ==
  ASSUME NEW id \in Ids, NEW b \in Named, NEW wanted \in BOOLEAN
  PROVE  /\ May(id, b, wanted) \in Seq(Steps)
         /\ \A r \in Range(May(id, b, wanted)) : wanted /\ r.id = id /\ r.backend = b
         /\ wanted => On(id, Range(May(id, b, wanted)))
<1>1. PICK r \in Steps : r = [id |-> id, backend |-> b]
  BY DEF Steps
<1>2. CASE wanted
  <2>1. May(id, b, wanted) = <<r>>
    BY <1>1, <1>2 DEF May
  <2>2. <<r>> \in Seq(Steps) /\ Range(<<r>>) = {r}
    BY SingleStep
  <2>3. r.id = id /\ r.backend = b
    BY <1>1
  <2> QED
    BY <1>1, <1>2, <2>1, <2>2, <2>3 DEF On
<1>3. CASE ~wanted
  <2>1. May(id, b, wanted) = <<>>
    BY <1>3 DEF May
  <2>2. <<>> \in Seq(Steps) /\ Range(<<>>) = {}
    BY NoSteps, EmptySeq
  <2> QED
    BY <1>3, <2>1, <2>2
<1> QED
  BY <1>2, <1>3

\* The steps of five plans, one after the other.
LEMMA FivePlans ==
  ASSUME NEW S, NEW a \in Seq(S), NEW b \in Seq(S), NEW c \in Seq(S), NEW d \in Seq(S), NEW e \in Seq(S)
  PROVE  /\ a \o b \o c \o d \o e \in Seq(S)
         /\ Range(a \o b \o c \o d \o e) = Range(a) \cup Range(b) \cup Range(c) \cup Range(d) \cup Range(e)
<1>1. PICK ab \in Seq(S) : ab = a \o b /\ Range(ab) = Range(a) \cup Range(b)
  BY RangeConcatenation, ConcatProperties
<1>2. PICK abc \in Seq(S) : abc = ab \o c /\ Range(abc) = Range(ab) \cup Range(c)
  BY RangeConcatenation, ConcatProperties
<1>3. PICK abcd \in Seq(S) : abcd = abc \o d /\ Range(abcd) = Range(abc) \cup Range(d)
  BY RangeConcatenation, ConcatProperties
<1>4. abcd \o e \in Seq(S) /\ Range(abcd \o e) = Range(abcd) \cup Range(e)
  BY RangeConcatenation, ConcatProperties
<1> QED
  BY <1>1, <1>2, <1>3, <1>4

FinalStep == [id |-> "final", backend |-> LiveBackend]

\* A plan that is worth following has its steps and ends with the live preflight.
LEMMA WorthIt ==
  ASSUME NEW s \in Seq(Steps)
  PROVE  /\ Worth(s) \in Seq(Steps)
         /\ Worth(s) # <<>> => Worth(s)[Len(Worth(s))].id = "final"
         /\ Worth(s) = <<>> <=> Range(s) = {}
         /\ Range(Worth(s)) = IF Range(s) = {} THEN {} ELSE Range(s) \cup {FinalStep}
<1>0. Range(s) = {} <=> s = <<>>
  BY NoSteps
<1>1. CASE s = <<>>
  BY <1>0, <1>1 DEF Worth
<1>2. CASE s # <<>>
  <2>1. FinalStep \in Steps
    BY AccountsOK DEF FinalStep, Steps, Ids, Named
  <2>2. Worth(s) = Append(s, FinalStep)
    BY <1>2 DEF Worth, FinalStep
  <2>3. /\ Append(s, FinalStep) \in Seq(Steps) /\ Append(s, FinalStep) # <<>>
        /\ Len(Append(s, FinalStep)) = Len(s) + 1
        /\ \A i \in 1 .. Len(s) : Append(s, FinalStep)[i] = s[i]
        /\ Append(s, FinalStep)[Len(s) + 1] = FinalStep
    BY <2>1, AppendProperties
  <2>4. Range(Append(s, FinalStep)) = Range(s) \cup {FinalStep}
    <3>1. Range(Append(s, FinalStep)) = {Append(s, FinalStep)[i] : i \in 1 .. Len(s) + 1}
      BY <2>3, RangeEquality
    <3>2. Range(s) = {s[i] : i \in 1 .. Len(s)}
      BY RangeEquality
    <3>3. 1 .. Len(s) + 1 = (1 .. Len(s)) \cup {Len(s) + 1}
      OBVIOUS
    <3> QED
      BY <2>3, <3>1, <3>2, <3>3
  <2>5. Range(s) # {} /\ FinalStep.id = "final"
    BY <1>0, <1>2 DEF FinalStep
  <2> QED
    BY <2>2, <2>3, <2>4, <2>5
<1> QED
  BY <1>1, <1>2
-----------------------------------------------------------------------------
(* Quotas and routes.                                                         *)

Used == 0 .. 10000

\* Fresh is what a refresh brought.
LEMMA QuotaTypes ==
  /\ \A x \in Quotas : x.checked \in Nat /\ x.used \in [Windows -> Used]
  /\ Brought \subseteq Quotas
  /\ \A q, a : q[a] \in Brought => IsFresh(a, q)
<1>1. ASSUME NEW r, NEW n \in Nat
      PROVE  FromUsage(r, n).checked = n /\ FromUsage(r, n).used \in [Windows -> Used]
  <2>1. \A p : Conservative(p) \in Used
    BY DEF Conservative, Used
  <2>2. 0 \in Used
    BY DEF Used
  <2> QED
    BY <2>1, <2>2 DEF FromUsage
<1>2. Now \in Nat /\ Past \in Nat /\ Now > 0 /\ 0 \in Nat
  BY TTLsOK DEF Now, Past
<1>3. ASSUME NEW q, NEW a, q[a] \in Brought
      PROVE  IsFresh(a, q)
  <2>1. q[a].checked = Now
    BY <1>1, <1>2, <1>3 DEF Brought
  <2>2. Now - Now \in 0 .. FreshTTL
    BY <1>2, TTLsOK
  <2> QED
    BY <1>2, <2>1, <2>2 DEF IsFresh, QuotaState, Fresh
<1>4. ASSUME NEW x \in Quotas
      PROVE  x.checked \in Nat /\ x.used \in [Windows -> Used]
  <2>1. \/ x = FromUsage(<<>>, 0)
        \/ \E r \in Reports : x = FromUsage(r, Now)
        \/ \E r \in Reports : x = FromUsage(r, Past)
    BY <1>4 DEF Quotas, Brought, NoQuota
  <2>2. CASE x = FromUsage(<<>>, 0)
    BY <1>1, <1>2, <2>2
  <2>3. ASSUME NEW r \in Reports, NEW n \in {Now, Past}, x = FromUsage(r, n)
        PROVE  x.checked \in Nat /\ x.used \in [Windows -> Used]
    <3>1. n \in Nat
      BY <1>2, <2>3
    <3> QED
      BY <1>1, <2>3, <3>1
  <2> QED
    BY <2>1, <2>2, <2>3
<1>5. Brought \subseteq Quotas
  BY DEF Quotas
<1> QED
  BY <1>3, <1>4, <1>5

\* A set of numbers that is not empty has a least one.
LEMMA LeastExists ==
  ASSUME NEW S \in SUBSET Nat, S # {}
  PROVE  Min(S) \in S /\ \A x \in S : Min(S) <= x
<1>1. PICK d \in S : \A b \in S : ~(<<b, d>> \in OpToRel(<, Nat))
  BY NatLessThanWellFounded, WFMin
<1>2. \A x \in S : d <= x
  <2>1. ASSUME NEW x \in S
        PROVE  d <= x
    <3>1. ~(<<x, d>> \in OpToRel(<, Nat))
      BY <1>1
    <3>2. x \in Nat /\ d \in Nat
      OBVIOUS
    <3>3. ~(x < d)
      BY <3>1, <3>2 DEF OpToRel
    <3> QED
      BY <3>2, <3>3
  <2> QED
    BY <2>1
<1> QED
  BY <1>2 DEF Min

\* The largest of three numbers is one of them.
LEMMA MaxOfThree ==
  ASSUME NEW x \in Int, NEW y \in Int, NEW z \in Int
  PROVE  Max({x, y, z}) \in {x, y, z} /\ \A n \in {x, y, z} : Max({x, y, z}) >= n
<1>1. \E m \in {x, y, z} : \A n \in {x, y, z} : m >= n
  <2>1. CASE x >= y /\ x >= z
    BY <2>1
  <2>2. CASE y >= x /\ y >= z
    BY <2>2
  <2>3. CASE z >= x /\ z >= y
    BY <2>3
  <2> QED
    BY <2>1, <2>2, <2>3
<1> QED
  BY <1>1 DEF Max

\* The facts of an account that the route of doctor looks at.
RouteFacts(x) == [quota |-> x, failures |-> 0, failedAt |-> 0]

\* Scores can be compared: they are whole numbers, minus one at the least.
LEMMA ScoreType ==
  ASSUME NEW x \in Quotas, NEW isCurrent \in BOOLEAN
  PROVE  /\ Score(RouteFacts(x), isCurrent, "", Now) \in Int
         /\ Score(RouteFacts(x), isCurrent, "", Now) + 1 \in Nat
<1>1. /\ x.used["primary"] \in Used /\ x.used["secondary"] \in Used
      /\ x.used["code_review"] \in Used
  <2>1. x.used \in [Windows -> Used]
    BY QuotaTypes
  <2>2. "primary" \in Windows /\ "secondary" \in Windows /\ "code_review" \in Windows
    BY DEF Windows
  <2> QED
    BY <2>1, <2>2
<1>2. Pressure(x) \in Nat
  <2>0. Used \subseteq Nat /\ Used \subseteq Int
    BY DEF Used
  <2>1. {x.used[w] : w \in Windows} = {x.used["primary"], x.used["secondary"], x.used["code_review"]}
    BY DEF Windows
  <2>2. Pressure(x) \in {x.used["primary"], x.used["secondary"], x.used["code_review"]}
    BY <1>1, <2>0, <2>1, MaxOfThree DEF Pressure
  <2> QED
    BY <1>1, <2>0, <2>2
<1>3. QuotaScore(x, "", Now) \in Nat
  BY <1>2 DEF QuotaScore, UnknownScore, UnknownPenalty
<1>4. HealthPenalty(RouteFacts(x), "", Now) = 0 /\ RouteFacts(x).quota = x
  BY DEF HealthPenalty, RouteFacts
<1>5. Score(RouteFacts(x), isCurrent, "", Now)
        = QuotaScore(x, "", Now) + 0 - (IF isCurrent THEN CurrentTieBreak ELSE 0)
  BY <1>4 DEF Score
<1>6. PICK n \in Nat : n = QuotaScore(x, "", Now)
  BY <1>3
<1>7. PICK k \in {0, 1} : k = (IF isCurrent THEN CurrentTieBreak ELSE 0)
  BY DEF CurrentTieBreak
<1>8. n + 0 - k \in Int /\ n + 0 - k + 1 \in Nat
  OBVIOUS
<1> QED
  BY <1>5, <1>6, <1>7, <1>8

\* The route of doctor is one of the accounts that are stored.
LEMMA RouteIsStored ==
  ASSUME WorldTypes, Stored # {}, NEW q \in [Accounts -> Quotas]
  PROVE  AutoRoute(q) \in Stored
<1> DEFINE value == [a \in Stored |-> Score(RouteFacts(q[a]), a = current, "", Now)]
           Costs == {value[a] + 1 : a \in Stored}
<1>1. Stored \subseteq Accounts /\ Stored \subseteq Nat
  BY AccountsOK DEF Stored
<1>2. ASSUME NEW a \in Stored
      PROVE  value[a] \in Int /\ value[a] + 1 \in Nat
  <2>1. q[a] \in Quotas /\ (a = current) \in BOOLEAN
    BY <1>1
  <2> QED
    BY <2>1, ScoreType
<1>3. PICK f \in [Stored -> Int] : f = value /\ \A a \in Stored : f[a] + 1 \in Nat
  BY <1>2
<1> HIDE DEF value
<1>4. PICK m \in Stored : \A b \in Stored : f[m] <= f[b]
  <2>1. Costs \subseteq Nat /\ Costs # {}
    BY <1>3
  <2>2. PICK m \in Stored : Min(Costs) = f[m] + 1
    BY <1>3, <2>1, LeastExists
  <2>3. \A b \in Stored : f[m] + 1 <= f[b] + 1
    BY <1>3, <2>1, <2>2, LeastExists
  <2> QED
    BY <2>3
<1> DEFINE Best == {a \in Stored : f[a] = f[m]}
           Wins(a) == \A b \in Stored \ {a} : Beats(a, f[a], b, f[b], current, FALSE)
<1>5. \E a \in Stored : Wins(a)
  <2>1. CASE current \in Best
    <3>1. ASSUME NEW b \in Stored \ {current}
          PROVE  Beats(current, f[current], b, f[b], current, FALSE)
      <4>1. f[current] < f[b] \/ f[current] = f[b]
        BY <1>4, <2>1
      <4> QED
        BY <4>1 DEF Beats, TieBeats
    <3> QED
      BY <2>1, <3>1
  <2>2. CASE current \notin Best
    <3>1. Best \subseteq Nat /\ Best # {}
      BY <1>1
    <3>2. PICK a \in Best : \A b \in Best : a <= b
      BY <3>1, LeastExists
    <3>3. ASSUME NEW b \in Stored \ {a}
          PROVE  Beats(a, f[a], b, f[b], current, FALSE)
      <4>1. f[a] = f[m] /\ f[a] \in Int /\ f[b] \in Int /\ a # current
        BY <2>2, <3>2
      <4>2. CASE b \in Best
        <5>1. a < b /\ b # current /\ f[b] = f[a]
          BY <1>1, <2>2, <3>2, <4>2
        <5> QED
          BY <4>1, <5>1 DEF Beats, TieBeats
      <4>3. CASE b \notin Best
        <5>1. f[a] < f[b]
          BY <1>4, <4>1, <4>3
        <5> QED
          BY <5>1 DEF Beats
      <4> QED
        BY <4>2, <4>3
    <3> QED
      BY <3>2, <3>3
  <2> QED
    BY <2>1, <2>2
<1>6. AutoRoute(q) = CHOOSE a \in Stored : Wins(a)
  BY <1>3 DEF AutoRoute, value, RouteFacts
<1> QED
  BY <1>5, <1>6
-----------------------------------------------------------------------------
(* The plans of the checks.                                                   *)

\* The plan of accounts/check: each of its steps is there exactly for its reason.
LEMMA PlanOfCheck ==
  ASSUME WorldTypes, NEW p \in Gates, NEW q \in [Accounts -> Quotas]
  PROVE  /\ CheckPlan(p, q) \in Seq(Steps)
         /\ CheckPlan(p, q) # <<>> => CheckPlan(p, q)[Len(CheckPlan(p, q))].id = "final"
         /\ \A r \in Range(CheckPlan(p, q)) : r.id # "align"
         /\ ~Ready(p, q) =>
              /\ On("restart", Range(CheckPlan(p, q))) <=> p.require \notin {"any", daemon}
              /\ On("import", Range(CheckPlan(p, q))) <=> ~Several
              /\ On("secretstore", Range(CheckPlan(p, q))) <=> \E a \in DOMAIN Evidence(p) : ~Evidence(p)[a].opens
              /\ On("refresh", Range(CheckPlan(p, q))) <=>
                   Stored # {} /\ (FreshRows(p, q) # Stored \/ ~AutoFresh(q) \/ p.fresh \/ p.all)
              /\ On("preview", Range(CheckPlan(p, q))) <=> p.fresh /\ ~AutoFresh(q)
<1>1. CASE Ready(p, q)
  <2>1. CheckPlan(p, q) = <<>>
    BY <1>1 DEF CheckPlan
  <2> QED
    BY <1>1, <2>1, EmptySeq, NoSteps
<1>2. CASE ~Ready(p, q)
  <2> DEFINE b == IF p.require = "any" THEN daemon ELSE p.require
  <2>w1. PICK w1 \in BOOLEAN : w1 = (p.require \notin {"any", daemon})
    OBVIOUS
  <2>w2. PICK w2 \in BOOLEAN : w2 = ~Several
    OBVIOUS
  <2>w3. PICK w3 \in BOOLEAN : w3 = \E a \in DOMAIN Evidence(p) : ~Evidence(p)[a].opens
    OBVIOUS
  <2>w4. PICK w4 \in BOOLEAN :
          w4 = (Stored # {} /\ (FreshRows(p, q) # Stored \/ ~AutoFresh(q) \/ p.fresh \/ p.all))
    OBVIOUS
  <2>w5. PICK w5 \in BOOLEAN : w5 = (p.fresh /\ ~AutoFresh(q))
    OBVIOUS
  <2> DEFINE steps == May("restart", p.require, w1) \o May("import", "any", w2) \o May("secretstore", b, w3)
                        \o May("refresh", b, w4) \o May("preview", "any", w5)
  <2>1. p.require \in Named /\ b \in Named /\ "any" \in Named
    BY DEF Gates, WorldTypes, Named
  <2>2. {"restart", "import", "secretstore", "refresh", "preview"} \subseteq Ids
    BY DEF Ids
  <2>req. PICK req \in Named : req = p.require
    BY <2>1
  <2>3. CheckPlan(p, q) = Worth(steps)
    BY <1>2, <2>w1, <2>w2, <2>w3, <2>w4, <2>w5 DEF CheckPlan
  <2> HIDE DEF b
  <2>4. PICK m1 \in Seq(Steps) :
          /\ m1 = May("restart", req, w1)
          /\ \A r \in Range(m1) : w1 /\ r.id = "restart" /\ r.backend = req
          /\ w1 => On("restart", Range(m1))
    BY <2>1, <2>2, MaySteps
  <2>5. PICK m2 \in Seq(Steps) :
          /\ m2 = May("import", "any", w2)
          /\ \A r \in Range(m2) : w2 /\ r.id = "import"
          /\ w2 => On("import", Range(m2))
    BY <2>1, <2>2, MaySteps
  <2>6. PICK m3 \in Seq(Steps) :
          /\ m3 = May("secretstore", b, w3)
          /\ \A r \in Range(m3) : w3 /\ r.id = "secretstore" /\ r.backend = b
          /\ w3 => On("secretstore", Range(m3))
    BY <2>1, <2>2, MaySteps
  <2>7. PICK m4 \in Seq(Steps) :
          /\ m4 = May("refresh", b, w4)
          /\ \A r \in Range(m4) : w4 /\ r.id = "refresh" /\ r.backend = b
          /\ w4 => On("refresh", Range(m4))
    BY <2>1, <2>2, MaySteps
  <2>8. PICK m5 \in Seq(Steps) :
          /\ m5 = May("preview", "any", w5)
          /\ \A r \in Range(m5) : w5 /\ r.id = "preview"
          /\ w5 => On("preview", Range(m5))
    BY <2>1, <2>2, MaySteps
  <2>9. /\ steps \in Seq(Steps)
        /\ Range(steps) = Range(m1) \cup Range(m2) \cup Range(m3) \cup Range(m4) \cup Range(m5)
    <3>1. /\ m1 \o m2 \o m3 \o m4 \o m5 \in Seq(Steps)
          /\ Range(m1 \o m2 \o m3 \o m4 \o m5)
               = Range(m1) \cup Range(m2) \cup Range(m3) \cup Range(m4) \cup Range(m5)
      BY FivePlans
    <3> QED
      BY <2>4, <2>5, <2>6, <2>7, <2>8, <2>req, <3>1
  <2> HIDE DEF steps
  <2>10. /\ Worth(steps) \in Seq(Steps)
         /\ Worth(steps) # <<>> => Worth(steps)[Len(Worth(steps))].id = "final"
         /\ Worth(steps) = <<>> <=> Range(steps) = {}
         /\ Range(Worth(steps)) = IF Range(steps) = {} THEN {} ELSE Range(steps) \cup {FinalStep}
    BY <2>9, WorthIt
  <2>11. \A r \in Range(steps) : r.id \in {"restart", "import", "secretstore", "refresh", "preview"}
    BY <2>4, <2>5, <2>6, <2>7, <2>8, <2>9
  <2>12. \A r \in Range(Worth(steps)) : r.id # "align"
    <3>1. FinalStep.id = "final"
      BY DEF FinalStep
    <3> QED
      BY <2>10, <2>11, <3>1
  <2>13. /\ On("restart", Range(steps)) <=> w1
         /\ On("import", Range(steps)) <=> w2
         /\ On("secretstore", Range(steps)) <=> w3
         /\ On("refresh", Range(steps)) <=> w4
         /\ On("preview", Range(steps)) <=> w5
    BY <2>4, <2>5, <2>6, <2>7, <2>8, <2>9 DEF On
  <2>14. \A id \in {"restart", "import", "secretstore", "refresh", "preview"} :
           On(id, Range(Worth(steps))) <=> On(id, Range(steps))
    BY <2>10 DEF On, FinalStep
  <2> QED
    BY <1>2, <2>3, <2>10, <2>12, <2>13, <2>14, <2>w1, <2>w2, <2>w3, <2>w4, <2>w5
<1> QED
  BY <1>1, <1>2

\* The plan of doctor: each step with its reason, and for each reason its step.
LEMMA PlanOfDoctor ==
  ASSUME WorldTypes, NEW o \in Options
  PROVE  /\ DoctorPlan(o) \in Seq(Steps)
         /\ DoctorPlan(o) # <<>> => DoctorPlan(o)[Len(DoctorPlan(o))].id = "final"
         /\ \A r \in Range(DoctorPlan(o)) :
              \/ r.id = "start"
              \/ r.id = "align" /\ r.backend = o.require /\ o.require \notin {"any", shell}
              \/ r.id = "import" /\ ~Several
              \/ r.id = "secretstore" /\ r.backend = Target(o) /\ ~o.promptFree /\ Stored # {}
              \/ r.id = "refresh" /\ r.backend = Target(o) /\ Stored # {}
              \/ r.id = "final"
         /\ ~DoctorOK(o) =>
              /\ ~up => On("start", Range(DoctorPlan(o)))
              /\ o.require \notin {"any", shell} => On("align", Range(DoctorPlan(o)))
              /\ ~Several => On("import", Range(DoctorPlan(o)))
              /\ ~o.promptFree /\ (\E a \in Stored : ~Opens(shell, a)) =>
                   On("secretstore", Range(DoctorPlan(o)))
              /\ \A a \in Stored : ~IsFresh(a, quota) => On("refresh", Range(DoctorPlan(o)))
         /\ DoctorOK(o) => DoctorPlan(o) = <<>>
<1>1. CASE DoctorOK(o)
  <2>1. DoctorPlan(o) = <<>>
    BY <1>1 DEF DoctorPlan
  <2> QED
    BY <1>1, <2>1, EmptySeq, NoSteps
<1>2. CASE ~DoctorOK(o)
  <2> DEFINE b == Target(o)
  <2>w1. PICK w1 \in BOOLEAN : w1 = ~up
    OBVIOUS
  <2>w2. PICK w2 \in BOOLEAN : w2 = (o.require \notin {"any", shell})
    OBVIOUS
  <2>w3. PICK w3 \in BOOLEAN : w3 = ~Several
    OBVIOUS
  <2>w4. PICK w4 \in BOOLEAN : w4 = (~o.promptFree /\ \E a \in Stored : ~Opens(shell, a))
    OBVIOUS
  <2>w5. PICK w5 \in BOOLEAN :
          w5 = (Stored # {} /\ ((\E a \in Stored : ~IsFresh(a, quota)) \/ ~AutoFresh(quota)))
    OBVIOUS
  <2> DEFINE steps == May("start", o.require, w1) \o May("align", o.require, w2) \o May("import", "any", w3)
                        \o May("secretstore", b, w4) \o May("refresh", b, w5)
  <2>1. o.require \in Named /\ b \in Named /\ "any" \in Named
    BY DEF Options, WorldTypes, Target, Named
  <2>2. {"start", "align", "import", "secretstore", "refresh"} \subseteq Ids
    BY DEF Ids
  <2>req. PICK req \in Named : req = o.require
    BY <2>1
  <2>3. DoctorPlan(o) = Worth(steps)
    BY <1>2, <2>w1, <2>w2, <2>w3, <2>w4, <2>w5 DEF DoctorPlan
  <2> HIDE DEF b
  <2>4. PICK m1 \in Seq(Steps) :
          /\ m1 = May("start", req, w1)
          /\ \A r \in Range(m1) : w1 /\ r.id = "start" /\ r.backend = req
          /\ w1 => On("start", Range(m1))
    BY <2>1, <2>2, MaySteps
  <2>5. PICK m2 \in Seq(Steps) :
          /\ m2 = May("align", req, w2)
          /\ \A r \in Range(m2) : w2 /\ r.id = "align" /\ r.backend = req
          /\ w2 => On("align", Range(m2))
    BY <2>1, <2>2, MaySteps
  <2>6. PICK m3 \in Seq(Steps) :
          /\ m3 = May("import", "any", w3)
          /\ \A r \in Range(m3) : w3 /\ r.id = "import"
          /\ w3 => On("import", Range(m3))
    BY <2>1, <2>2, MaySteps
  <2>7. PICK m4 \in Seq(Steps) :
          /\ m4 = May("secretstore", b, w4)
          /\ \A r \in Range(m4) : w4 /\ r.id = "secretstore" /\ r.backend = b
          /\ w4 => On("secretstore", Range(m4))
    BY <2>1, <2>2, MaySteps
  <2>8. PICK m5 \in Seq(Steps) :
          /\ m5 = May("refresh", b, w5)
          /\ \A r \in Range(m5) : w5 /\ r.id = "refresh" /\ r.backend = b
          /\ w5 => On("refresh", Range(m5))
    BY <2>1, <2>2, MaySteps
  <2>9. /\ steps \in Seq(Steps)
        /\ Range(steps) = Range(m1) \cup Range(m2) \cup Range(m3) \cup Range(m4) \cup Range(m5)
    <3>1. /\ m1 \o m2 \o m3 \o m4 \o m5 \in Seq(Steps)
          /\ Range(m1 \o m2 \o m3 \o m4 \o m5)
               = Range(m1) \cup Range(m2) \cup Range(m3) \cup Range(m4) \cup Range(m5)
      BY FivePlans
    <3> QED
      BY <2>4, <2>5, <2>6, <2>7, <2>8, <2>req, <3>1
  <2> HIDE DEF steps
  <2>10. /\ Worth(steps) \in Seq(Steps)
         /\ Worth(steps) # <<>> => Worth(steps)[Len(Worth(steps))].id = "final"
         /\ Worth(steps) = <<>> <=> Range(steps) = {}
         /\ Range(Worth(steps)) = IF Range(steps) = {} THEN {} ELSE Range(steps) \cup {FinalStep}
    BY <2>9, WorthIt
  <2>11. \A r \in Range(steps) :
           \/ r.id = "start"
           \/ r.id = "align" /\ r.backend = o.require /\ w2
           \/ r.id = "import" /\ w3
           \/ r.id = "secretstore" /\ r.backend = b /\ w4
           \/ r.id = "refresh" /\ r.backend = b /\ w5
    BY <2>4, <2>5, <2>6, <2>7, <2>8, <2>9, <2>req
  <2>12. \A r \in Range(Worth(steps)) : r \in Range(steps) \/ r.id = "final"
    BY <2>10 DEF FinalStep
  <2>13. /\ (w1 => On("start", Range(steps))) /\ (w2 => On("align", Range(steps)))
         /\ (w3 => On("import", Range(steps))) /\ (w4 => On("secretstore", Range(steps)))
         /\ w5 => On("refresh", Range(steps))
    BY <2>4, <2>5, <2>6, <2>7, <2>8, <2>9 DEF On
  <2>14. Range(steps) \subseteq Range(Worth(steps))
    BY <2>10
  <2>15. \A id : On(id, Range(steps)) => On(id, Range(Worth(steps)))
    BY <2>14 DEF On
  <2>16. /\ w1 <=> ~up
         /\ w2 <=> o.require \notin {"any", shell}
         /\ w3 <=> ~Several
         /\ w4 <=> ~o.promptFree /\ \E a \in Stored : ~Opens(shell, a)
         /\ w4 => Stored # {}
         /\ w5 => Stored # {}
         /\ \A a \in Stored : ~IsFresh(a, quota) => w5
    BY <2>w1, <2>w2, <2>w3, <2>w4, <2>w5
  <2> QED
    BY <1>2, <2>3, <2>10, <2>11, <2>12, <2>13, <2>15, <2>16 DEF b
<1> QED
  BY <1>1, <1>2
-----------------------------------------------------------------------------
(* The checks.                                                                *)

\* The rows of accounts/check: all of the accounts when none fails, else up to one that fails.
LEMMA RowsOfCheck ==
  ASSUME WorldTypes
  PROVE  /\ DOMAIN Rows \subseteq Stored
         /\ \A a \in DOMAIN Rows : Rows[a].opens = Opens(daemon, a) /\ Rows[a].ready = (a \notin Unusable(daemon))
         /\ Unusable(daemon) = {} => DOMAIN Rows = Stored
         /\ Unusable(daemon) # {} => \E m \in Unusable(daemon) : m \in DOMAIN Rows
<1>1. Unusable(daemon) \subseteq Stored /\ Stored \subseteq Nat
  BY AccountsOK DEF Unusable, Stored
<1>2. DOMAIN Rows = {x \in Stored : \A y \in Unusable(daemon) : x <= y}
  BY DEF Rows
<1>3. ASSUME Unusable(daemon) # {}
      PROVE  \E m \in Unusable(daemon) : m \in DOMAIN Rows
  <2>1. PICK m \in Unusable(daemon) : \A y \in Unusable(daemon) : m <= y
    BY <1>1, <1>3, LeastExists
  <2> QED
    BY <1>1, <1>2, <2>1
<1>4. \A a \in DOMAIN Rows : Rows[a].opens = Opens(daemon, a) /\ Rows[a].ready = (a \notin Unusable(daemon))
  BY DEF Rows
<1> QED
  BY <1>2, <1>3, <1>4

\* Several accounts are some.
LEMMA SeveralAreSome ==
  Several => Stored # {}
BY FS_EmptySet DEF Several

\* What passes is ready, if there is an account at all.
LEMMA PassingIsReady ==
  ASSUME WorldTypes, NEW p \in Gates, NEW q, Stored # {}, ~CheckFails(p, q)
  PROVE  Ready(p, q)
<1>1. ~FailsEarly(p) /\ Unusable(daemon) = {} /\ ~ResultRefused(p, q)
  BY DEF CheckFails
<1>2. Evidence(p) = Rows /\ DOMAIN Rows = Stored
  BY <1>1, RowsOfCheck DEF Evidence
<1>3. \A a \in Stored : Rows[a].opens /\ Rows[a].ready
  <2>1. ASSUME NEW a \in Stored
        PROVE  Rows[a].opens /\ Rows[a].ready
    <3>1. a \notin Unusable(daemon) /\ Opens(daemon, a)
      BY <1>1 DEF Unusable
    <3>2. Rows[a].opens = Opens(daemon, a) /\ Rows[a].ready = (a \notin Unusable(daemon))
      BY <1>2, RowsOfCheck
    <3> QED
      BY <3>1, <3>2
  <2> QED
    BY <2>1
<1>4. p.require \in {"any", daemon} /\ (p.multiple => Several) /\ (p.fresh => AutoFresh(q))
  BY <1>1 DEF FailsEarly, ResultRefused
<1>5. p.all => FreshRows(p, q) = Stored
  BY <1>1, <1>2 DEF ResultRefused, FreshRows
<1> QED
  BY <1>2, <1>3, <1>4, <1>5 DEF Ready

\* The check that doctor asks for fails with the backend or with an account.
LEMMA PlainFails ==
  ASSUME NEW require, NEW q
  PROVE  CheckFails(Plain(require), q) <=> (require \notin {"any", daemon} \/ Unusable(daemon) # {})
BY DEF CheckFails, FailsEarly, ResultRefused, Plain

\* The strictest gate fails when one of its conditions does.
LEMMA StrictFails ==
  ASSUME NEW require, NEW q
  PROVE  CheckFails(Strict(require), q) <=>
           \/ require \notin {"any", daemon} \/ Unusable(daemon) # {}
           \/ ~Several \/ Stored = {} \/ ~AutoFresh(q)
           \/ \E a \in Stored : ~IsFresh(a, q)
<1> DEFINE f == Full(require)
           s == Strict(require)
<1>1. /\ f.multiple /\ f.fresh /\ f.all /\ f.require = require
      /\ s = [f EXCEPT !.refresh = FALSE]
      /\ DOMAIN f = {"refresh", "multiple", "fresh", "all", "require"}
  BY DEF Full, Strict
<1>2. s.multiple /\ s.fresh /\ s.all /\ s.require = require /\ ~s.refresh
  BY <1>1
<1> QED
  BY <1>2 DEF CheckFails, FailsEarly, ResultRefused

\* The checks agree, whatever the accounts and their quotas.
LEMMA Verdicts ==
  ASSUME WorldTypes
  PROVE  VerdictsAgree
<1>0. \A o \in Options : Strict(o.require) \in Gates
  BY DEF Strict, Full, Gates, Options
<1>1. ASSUME NEW o \in Options, DoctorOK(o)
      PROVE  up /\ codex /\ Passes(Strict(o.require))
  <2>1. up /\ codex /\ Several /\ AutoFresh(quota) /\ (\A a \in Stored : IsFresh(a, quota))
        /\ ~CheckFails(Plain(o.require), quota)
    BY <1>1 DEF DoctorOK, DaemonRefuses
  <2>2. Stored # {}
    BY <2>1, SeveralAreSome
  <2>3. ~CheckFails(Strict(o.require), quota)
    BY <2>1, <2>2, PlainFails, StrictFails
  <2> QED
    BY <1>0, <2>1, <2>2, <2>3, PassingIsReady DEF Passes
<1>2. ASSUME NEW o \in Options, shell = daemon, up, codex, Passes(Strict(o.require)), ~(o.verify /\ o.promptFree)
      PROVE  DoctorOK(o)
  <2>1. /\ o.require \in {"any", daemon} /\ Unusable(daemon) = {} /\ Several /\ Stored # {} /\ AutoFresh(quota)
        /\ \A a \in Stored : IsFresh(a, quota)
    BY <1>2, StrictFails DEF Passes
  <2>2. \A a \in Stored : Opens(daemon, a)
    BY <2>1 DEF Unusable
  <2>3. shell \notin locked
    BY <1>2, <2>1, <2>2 DEF Opens
  <2>4. ~DaemonRefuses(o)
    BY <2>1, PlainFails DEF DaemonRefuses
  <2> QED
    BY <1>2, <2>1, <2>2, <2>3, <2>4 DEF DoctorOK, Options
<1>3. ASSUME shell = daemon, Stored # {}, NEW p \in Gates, ~p.refresh
      PROVE  SmokePasses(shell, p, quota) <=> ~CheckFails(p, quota)
  BY <1>3 DEF SmokePasses, CheckFails, FailsEarly, ResultRefused, Gates
<1> QED
  BY <1>1, <1>2, <1>3 DEF VerdictsAgree

\* What fails is not ready, and has the rows of the accounts as they are known.
LEMMA FailingIsNotReady ==
  ASSUME WorldTypes, NEW p \in Gates, NEW q, CheckFails(p, q)
  PROVE  ~Ready(p, q)
<1>1. CASE FailsEarly(p)
  <2>1. Evidence(p) = CachedRows
    BY <1>1 DEF Evidence
  <2>2. DOMAIN CachedRows = Stored /\ \A a \in Stored : ~CachedRows[a].opens
    BY DEF CachedRows
  <2> QED
    BY <2>1, <2>2 DEF Ready
<1>2. CASE ~FailsEarly(p) /\ Unusable(daemon) # {}
  <2>1. PICK m \in Unusable(daemon) : m \in DOMAIN Rows
    BY <1>2, RowsOfCheck
  <2>2. Evidence(p) = Rows
    BY <1>2 DEF Evidence
  <2>3. ~Rows[m].ready
    BY <2>1, RowsOfCheck
  <2> QED
    BY <2>1, <2>2, <2>3 DEF Ready
<1>3. CASE ~FailsEarly(p) /\ Unusable(daemon) = {} /\ ResultRefused(p, q)
  <2>1. Evidence(p) = Rows /\ DOMAIN Rows = Stored
    BY <1>3, RowsOfCheck DEF Evidence
  <2> QED
    BY <1>3, <2>1 DEF Ready, ResultRefused, FreshRows
<1> QED
  BY <1>1, <1>2, <1>3 DEF CheckFails

\* A credential that a check stopped at is in its rows.
LEMMA ShutIsSeen ==
  ASSUME WorldTypes, NEW p \in Gates, Shut(p)
  PROVE  \E a \in DOMAIN Evidence(p) : ~Evidence(p)[a].opens
<1>1. PICK a \in Stored : /\ ~Opens(daemon, a)
                          /\ p.refresh \/ \A x \in Unusable(daemon) : a <= x
  BY DEF Shut
<1>2. CASE FailsEarly(p)
  <2>1. Evidence(p) = CachedRows
    BY <1>2 DEF Evidence
  <2>2. a \in DOMAIN CachedRows /\ ~CachedRows[a].opens
    BY DEF CachedRows
  <2> QED
    BY <2>1, <2>2
<1>3. CASE ~FailsEarly(p)
  <2>1. Evidence(p) = Rows /\ ~p.refresh
    BY <1>1, <1>3 DEF Evidence, FailsEarly, Unrefreshable
  <2>2. a \in DOMAIN Rows
    BY <1>1, <2>1 DEF Rows
  <2>3. Rows[a].opens = Opens(daemon, a)
    BY <2>2, RowsOfCheck
  <2> QED
    BY <1>1, <2>1, <2>2, <2>3
<1> QED
  BY <1>2, <1>3

\* A failure of accounts/check is explained.
LEMMA Explained ==
  ASSUME WorldTypes, NEW p \in Gates, NEW q \in [Accounts -> Quotas]
  PROVE  IF CheckFails(p, q) THEN Explains(CheckPlan(p, q), p, q)
                             ELSE Stored = {} \/ Ready(p, q)
<1>1. CASE ~CheckFails(p, q)
  BY <1>1, PassingIsReady
<1>2. CASE CheckFails(p, q)
  <2> DEFINE steps == CheckPlan(p, q)
  <2>1. ~Ready(p, q)
    BY <1>2, FailingIsNotReady
  <2>2. \A id : Has(steps, id) <=> On(id, Range(steps))
    BY DEF Has, On, Range
  <2>3. /\ Has(steps, "restart") <=> p.require \notin {"any", daemon}
        /\ Has(steps, "import") <=> ~Several
        /\ Has(steps, "secretstore") <=> \E a \in DOMAIN Evidence(p) : ~Evidence(p)[a].opens
        /\ Has(steps, "refresh") <=>
             Stored # {} /\ (FreshRows(p, q) # Stored \/ ~AutoFresh(q) \/ p.fresh \/ p.all)
        /\ Has(steps, "preview") <=> p.fresh /\ ~AutoFresh(q)
    BY <2>1, <2>2, PlanOfCheck
  <2> HIDE DEF steps
  <2>4. Shut(p) => Has(steps, "secretstore")
    BY <2>3, ShutIsSeen
  <2>5. ASSUME Has(steps, "secretstore"), ~FailsEarly(p)
        PROVE  \E a \in Stored : ~Opens(daemon, a)
    <3>1. Evidence(p) = Rows
      BY <2>5 DEF Evidence
    <3>2. PICK a \in DOMAIN Rows : ~Rows[a].opens
      BY <2>3, <2>5, <3>1
    <3> QED
      BY <3>2, RowsOfCheck
  <2>6. steps = <<>> => \A id : ~Has(steps, id)
    BY DEF Has
  <2>7. ASSUME steps = <<>>
        PROVE  wedged \cap Stored # {}
    <3>1. /\ p.require \in {"any", daemon} /\ Several
          /\ \A a \in DOMAIN Evidence(p) : Evidence(p)[a].opens
          /\ Stored # {} => FreshRows(p, q) = Stored /\ AutoFresh(q) /\ ~p.fresh /\ ~p.all
      BY <2>3, <2>6, <2>7
    <3>2. Stored # {}
      BY <3>1, SeveralAreSome
    <3>3. ~FailsEarly(p)
      <4>1. ASSUME FailsEarly(p)
            PROVE  FALSE
        <5>1. Evidence(p) = CachedRows
          BY <4>1 DEF Evidence
        <5> QED
          BY <3>1, <3>2, <5>1 DEF CachedRows
      <4> QED
        BY <4>1
    <3>4. ~ResultRefused(p, q)
      BY <3>1, <3>2 DEF ResultRefused, Gates
    <3>5. PICK m \in Unusable(daemon) : m \in DOMAIN Rows
      BY <1>2, <3>3, <3>4, RowsOfCheck DEF CheckFails
    <3>6. Opens(daemon, m)
      BY <3>1, <3>3, <3>5, RowsOfCheck DEF Evidence
    <3> QED
      BY <3>5, <3>6 DEF Unusable
  <2>8. Explains(steps, p, q)
    <3>1. p.fresh /\ ~AutoFresh(q) => Has(steps, "preview") /\ (Stored # {} => Has(steps, "refresh"))
      BY <2>3
    <3>2. p.all /\ (\E a \in Stored : ~IsFresh(a, q)) => Has(steps, "refresh")
      BY <2>3
    <3> QED
      BY <2>3, <2>4, <2>5, <2>7, <3>1, <3>2 DEF Explains
  <2> QED
    BY <1>2, <2>8 DEF steps
<1> QED
  BY <1>1, <1>2

\* A refresh leaves quotas, and what was fresh stays fresh.
LEMMA RefreshTypes ==
  ASSUME WorldTypes, NEW b, NEW q \in Refreshed(b)
  PROVE  /\ q \in [Accounts -> Quotas]
         /\ \A a \in Accounts : IsFresh(a, quota) => IsFresh(a, q)
         /\ Unrefreshable(b) = {} => \A a \in Stored : IsFresh(a, q)
<1> DEFINE reached == {a \in Stored : \A x \in Unrefreshable(b) : a < x}
<1>1. PICK n \in [reached -> Brought] : q = [a \in Accounts |-> IF a \in reached THEN n[a] ELSE quota[a]]
  BY DEF Refreshed
<1>2. Stored \subseteq Accounts /\ reached \subseteq Stored
  BY DEF Stored
<1>3. Unrefreshable(b) = {} => reached = Stored
  OBVIOUS
<1> HIDE DEF reached
<1>4. \A a \in reached : q[a] \in Brought
  BY <1>1, <1>2
<1>5. \A a \in Accounts \ reached : q[a] = quota[a]
  BY <1>1
<1>6. q \in [Accounts -> Quotas]
  BY <1>1, <1>2, QuotaTypes DEF WorldTypes
<1>7. \A a \in reached : IsFresh(a, q)
  BY <1>4, QuotaTypes
<1>8. \A a \in Accounts \ reached : IsFresh(a, quota) => IsFresh(a, q)
  BY <1>5 DEF IsFresh
<1> QED
  BY <1>2, <1>3, <1>6, <1>7, <1>8

\* accounts/check explains itself, whatever a refresh brought.
LEMMA FailuresExplained ==
  ASSUME WorldTypes
  PROVE  FailureIsExplained
<1>1. Refreshed(daemon) \subseteq [Accounts -> Quotas]
  BY RefreshTypes
<1>2. quota \in [Accounts -> Quotas]
  BY DEF WorldTypes
<1> QED
  BY <1>1, <1>2, Explained DEF FailureIsExplained
-----------------------------------------------------------------------------
(* Types.                                                                     *)

\* TypeOK is the conjunction of its parts.
LEMMA TypeParts ==
  TypeOK <=> WorldTypes /\ PlanTypes /\ ProgressTypes
BY DEF TypeOK, WorldTypes, PlanTypes, ProgressTypes

\* They hold at first.
LEMMA TypesInit ==
  ASSUME Init
  PROVE  Types
<1>1. PICK s \in Starts : /\ shell = s.shell /\ daemon = s.shell /\ options = s.options
                          /\ backend = s.backend /\ held = s.held /\ locked = s.locked
                          /\ quota = s.quota /\ current = s.current
  BY DEF Init
<1>2. /\ s.shell \in Backends /\ s.options \in Options
      /\ s.backend \in [Accounts -> Backends \cup {"none"}]
      /\ s.held \subseteq Backends \X Accounts /\ s.locked \subseteq Backends
      /\ s.quota \in [Accounts -> Quotas]
      /\ s.current \in {a \in Accounts : s.backend[a] # "none"} \cup {0}
  BY StartsOK
<1>3. WorldTypes
  BY <1>1, <1>2 DEF Init, WorldTypes, Stored
<1>4. PlanTypes /\ NamesBackend
  BY EmptySeq, NoSteps DEF Init, PlanTypes, NamesBackend
<1>5. ProgressTypes
  BY AccountsOK DEF Init, ProgressTypes
<1> QED
  BY <1>3, <1>4, <1>5 DEF Types

\* What advancing by a step does to the plan.
LEMMA AdvanceTypes ==
  ASSUME PlanTypes, ProgressTypes, NamesBackend, NEW id, NEW ok, NEW skipped, Advance(id, ok, skipped)
  PROVE  /\ PlanTypes' /\ ProgressTypes' /\ NamesBackend' /\ options' = options
         /\ Head(plan) \in Range(plan) /\ Head(plan).id = id /\ Head(plan) \in Steps
         /\ Range(plan) = {Head(plan)} \cup Range(plan')
<1>1. plan \in Seq(Steps) /\ plan # <<>> /\ plan' = Tail(plan) /\ Head(plan).id = id
  BY DEF Advance, PlanTypes
<1>2. /\ Head(plan) \in Range(plan) /\ Tail(plan) \in Seq(Steps)
      /\ Range(plan) = {Head(plan)} \cup Range(Tail(plan))
      /\ Tail(plan) # <<>> => Tail(plan)[Len(Tail(plan))] = plan[Len(plan)]
  BY <1>1, HeadAndRest
<1>3. Head(plan) \in Steps
  BY <1>1, HeadTailProperties
<1>4. PlanTypes'
  BY <1>1, <1>2 DEF PlanTypes
<1>5. ProgressTypes'
  BY DEF Advance, ProgressTypes, Another
<1>6. NamesBackend'
  BY <1>1, <1>2 DEF NamesBackend
<1> QED
  BY <1>1, <1>2, <1>3, <1>4, <1>5, <1>6 DEF Advance

\* Making a plan keeps the types.
LEMMA MakingTypes ==
  ASSUME Types, Making
  PROVE  Types'
<1>1. ASSUME NEW m \in Modes, Diagnose(m)
      PROVE  Types'
  <2>1. options \in Options /\ UNCHANGED world /\ options' = options
    BY <1>1 DEF Diagnose, Types, WorldTypes
  <2>2. WorldTypes'
    BY <2>1 DEF Types, WorldTypes, world, processes, store, Stored
  <2>3. plan' = <<>> \/ plan' = DoctorPlan(options)
    BY <1>1 DEF Diagnose
  <2>4. /\ DoctorPlan(options) \in Seq(Steps)
        /\ DoctorPlan(options) # <<>> => DoctorPlan(options)[Len(DoctorPlan(options))].id = "final"
        /\ \A r \in Range(DoctorPlan(options)) : r.id = "align" => r.backend \in Backends
    <3>1. options.require \in Named
      BY <2>1 DEF Options
    <3>2. \A r \in Range(DoctorPlan(options)) :
            r.id = "align" => r.backend = options.require /\ options.require # "any"
      BY <2>1, PlanOfDoctor DEF Types
    <3> QED
      BY <2>1, <3>1, <3>2, PlanOfDoctor DEF Types, Named
  <2>5. PlanTypes' /\ NamesBackend'
    <3>1. CASE plan' = <<>>
      BY <3>1, EmptySeq, NoSteps DEF PlanTypes, NamesBackend
    <3>2. CASE plan' = DoctorPlan(options)
      BY <2>4, <3>2 DEF PlanTypes, NamesBackend
    <3> QED
      BY <2>3, <3>1, <3>2
  <2>6. ProgressTypes'
    BY <1>1 DEF Diagnose, Types, ProgressTypes, Another
  <2> QED
    BY <2>2, <2>5, <2>6 DEF Types
<1>2. ASSUME NEW p \in {Plain(options.require), Full(Target(options))}, Inspect(p)
      PROVE  Types'
  <2>1. options \in Options /\ WorldTypes
    BY DEF Types, WorldTypes
  <2>2. p \in Gates
    <3>1. options.require \in Named /\ Target(options) \in Named
      BY <2>1 DEF Options, Target, WorldTypes, Named
    <3>2. \A b \in Named : Plain(b) \in Gates /\ Full(b) \in Gates
      BY DEF Plain, Full, Gates
    <3> QED
      BY <3>1, <3>2
  <2>3. quota' \in Refreshed(daemon) \/ quota' = quota
    BY <1>2 DEF Inspect
  <2>4. quota' \in [Accounts -> Quotas]
    BY <2>1, <2>3, RefreshTypes DEF WorldTypes
  <2>5. WorldTypes'
    BY <1>2, <2>1, <2>4 DEF Inspect, WorldTypes, processes, Stored
  <2>6. PICK q \in [Accounts -> Quotas] : q = quota' /\ plan' = CheckPlan(p, q)
    BY <1>2, <2>4 DEF Inspect
  <2>7. PlanTypes' /\ NamesBackend'
    BY <2>1, <2>2, <2>6, PlanOfCheck DEF PlanTypes, NamesBackend
  <2>8. ProgressTypes'
    <3>1. mode' = "check" /\ calm' = FALSE /\ rounds' = 0 /\ ran' = ran /\ faults' = faults
      BY <1>2 DEF Inspect
    <3>2. mode' \in Modes \cup {"none", "check"} /\ rounds' \in 0 .. 4
      BY <3>1
    <3> QED
      BY <3>1, <3>2 DEF Types, ProgressTypes
  <2> QED
    BY <2>5, <2>7, <2>8 DEF Types
<1> QED
  BY <1>1, <1>2 DEF Making

\* What an import leaves: the accounts it names are in the store b.
LEMMA ImportTypes ==
  ASSUME WorldTypes, NEW b \in Backends, NEW accounts \in SUBSET Accounts, accounts # {}, ImportInto(b, accounts)
  PROVE  /\ backend' \in [Accounts -> Backends \cup {"none"}]
         /\ held' \subseteq Backends \X Accounts
         /\ Stored' = Stored \cup accounts
         /\ current' \in Stored' \cup {0}
<1>1. backend' = [a \in Accounts |-> IF a \in accounts THEN b ELSE backend[a]] /\ b # "none"
  BY DEF ImportInto, Backends
<1>2. backend' \in [Accounts -> Backends \cup {"none"}]
  BY <1>1 DEF WorldTypes
<1>3. Stored' = Stored \cup accounts
  BY <1>1 DEF Stored, WorldTypes
<1>4. held' \subseteq Backends \X Accounts
  BY DEF ImportInto, WorldTypes
<1>5. current' \in Stored' \cup {0}
  <2>1. accounts \subseteq Nat
    BY AccountsOK
  <2>2. Min(accounts) \in accounts
    BY <2>1, LeastExists
  <2> QED
    BY <1>3, <2>2 DEF ImportInto, WorldTypes
<1> QED
  BY <1>2, <1>3, <1>4, <1>5

\* Following a plan keeps the types.
LEMMA FollowingTypes ==
  ASSUME Types, Following
  PROVE  Types'
<1> USE DEF Types
<1>1. CASE Skip
  <2>1. UNCHANGED world
    BY <1>1 DEF Skip
  <2>2. \E id, skipped : Advance(id, TRUE, skipped)
    BY <1>1 DEF Skip
  <2>3. PlanTypes' /\ ProgressTypes' /\ NamesBackend' /\ options' = options
    BY <2>2, AdvanceTypes
  <2> QED
    BY <2>1, <2>3 DEF world, processes, store, WorldTypes, Stored
<1>2. CASE StartDaemon
  <2>1. PICK id \in {"start", "restart"} :
          /\ Advance(id, TRUE, FALSE) /\ up' = TRUE
          /\ daemon' = IF id = "start" /\ up THEN daemon
                       ELSE IF Head(plan).backend = "any" THEN shell ELSE Head(plan).backend
          /\ UNCHANGED <<shell, codex, online, store>>
    BY <1>2 DEF StartDaemon
  <2>2. /\ PlanTypes' /\ ProgressTypes' /\ NamesBackend' /\ options' = options /\ Head(plan) \in Steps
    BY <2>1, AdvanceTypes
  <2>3. daemon' \in Backends
    BY <2>1, <2>2 DEF Steps, Named, WorldTypes
  <2> QED
    BY <2>1, <2>2, <2>3 DEF store, WorldTypes, Stored
<1>3. CASE AlignShell
  <2>1. /\ Advance("align", TRUE, FALSE) /\ shell' = Head(plan).backend
        /\ UNCHANGED <<up, daemon, codex, online, store>>
    BY <1>3 DEF AlignShell
  <2>2. /\ PlanTypes' /\ ProgressTypes' /\ NamesBackend' /\ options' = options
        /\ Head(plan) \in Range(plan) /\ Head(plan).id = "align"
    BY <2>1, AdvanceTypes
  <2>3. shell' \in Backends
    BY <2>1, <2>2 DEF NamesBackend
  <2> QED
    BY <2>1, <2>2, <2>3 DEF store, WorldTypes, Stored
<1>4. CASE ImportAccounts
  <2>1. PICK accounts \in SUBSET Accounts :
          /\ accounts # {} /\ \E ok : Advance("import", ok, FALSE)
          /\ \/ ImportInto(daemon, accounts)
             \/ UNCHANGED <<backend, held, current>>
          /\ UNCHANGED <<processes, locked, wedged, quota>>
    BY <1>4 DEF ImportAccounts
  <2>2. PlanTypes' /\ ProgressTypes' /\ NamesBackend' /\ options' = options
    BY <2>1, AdvanceTypes
  <2>3. /\ backend' \in [Accounts -> Backends \cup {"none"}]
        /\ held' \subseteq Backends \X Accounts
        /\ current' \in Stored' \cup {0}
    <3>1. CASE ImportInto(daemon, accounts)
      BY <2>1, <3>1, ImportTypes DEF WorldTypes
    <3>2. CASE UNCHANGED <<backend, held, current>>
      BY <3>2 DEF WorldTypes, Stored
    <3> QED
      BY <2>1, <3>1, <3>2
  <2> QED
    BY <2>1, <2>2, <2>3 DEF processes, WorldTypes
<1>5. CASE CheckStore
  <2>1. /\ \E ok : Advance("secretstore", ok, FALSE)
        /\ locked' \subseteq locked
        /\ UNCHANGED <<processes, backend, held, wedged, quota, current>>
    BY <1>5 DEF CheckStore
  <2>2. PlanTypes' /\ ProgressTypes' /\ NamesBackend' /\ options' = options
    BY <2>1, AdvanceTypes
  <2> QED
    BY <2>1, <2>2 DEF processes, WorldTypes, Stored
<1>6. ASSUME NEW id, NEW ok, Advance(id, ok, FALSE),
             UNCHANGED <<processes, backend, held, locked, wedged, current>>,
             quota' = quota \/ \E b : quota' \in Refreshed(b)
      PROVE  Types'
  <2>1. PlanTypes' /\ ProgressTypes' /\ NamesBackend' /\ options' = options
    BY <1>6, AdvanceTypes
  <2>2. quota' \in [Accounts -> Quotas]
    BY <1>6, RefreshTypes DEF WorldTypes
  <2> QED
    BY <1>6, <2>1, <2>2 DEF processes, WorldTypes, Stored
<1>7. CASE RefreshQuota
  BY <1>6, <1>7 DEF RefreshQuota
<1>8. CASE PreviewRoute
  BY <1>6, <1>8 DEF PreviewRoute, world, store
<1>9. CASE FinalPreflight
  BY <1>6, <1>9 DEF FinalPreflight
<1> QED
  BY <1>1, <1>2, <1>3, <1>4, <1>5, <1>7, <1>8, <1>9 DEF Following

\* What changes from outside keeps the types.
LEMMA FaultTypes ==
  ASSUME Types, Faults
  PROVE  Types' /\ Fault
<1>1. ASSUME Fault
      PROVE  PlanTypes' /\ ProgressTypes' /\ NamesBackend' /\ options' = options
  <2>1. /\ plan' = plan /\ options' = options /\ mode' = mode /\ ran' = ran
        /\ faults < MaxFaults /\ faults' = faults + 1 /\ rounds' = 0 /\ calm' = FALSE
    BY <1>1 DEF Fault
  <2>2. faults' \in 0 .. MaxFaults
    BY <2>1, AccountsOK DEF Types, ProgressTypes
  <2>3. rounds' \in 0 .. 4
    BY <2>1
  <2>4. ProgressTypes'
    BY <2>1, <2>2, <2>3 DEF Types, ProgressTypes
  <2> QED
    BY <2>1, <2>4 DEF Types, PlanTypes, NamesBackend
<1> USE DEF Types
<1>2. ASSUME NEW newUp \in BOOLEAN, NEW newCodex \in BOOLEAN, NEW newOnline \in BOOLEAN,
             NEW newDaemon \in Backends, NEW newShell \in Backends, Fault,
             processes' = <<newUp, newDaemon, newShell, newCodex, newOnline>>, UNCHANGED store
      PROVE  Types'
  BY <1>1, <1>2 DEF processes, store, WorldTypes, Stored
<1>3. CASE Stop
  BY <1>2, <1>3 DEF Stop, WorldTypes, processes
<1>4. CASE StartOther
  BY <1>2, <1>4 DEF StartOther, WorldTypes, processes
<1>5. CASE OtherShell
  BY <1>2, <1>5 DEF OtherShell, WorldTypes, processes
<1>6. CASE CodexComesOrGoes
  BY <1>2, <1>6 DEF CodexComesOrGoes, WorldTypes, processes
<1>7. CASE ServiceComesOrGoes
  BY <1>2, <1>7 DEF ServiceComesOrGoes, WorldTypes, processes
<1>8. ASSUME NEW b \in Backends, LockOrUnlock(b)
      PROVE  Types' /\ Fault
  BY <1>1, <1>8 DEF LockOrUnlock, WorldTypes, processes, Stored
<1>9. ASSUME NEW a \in Accounts, Wedge(a)
      PROVE  Types' /\ Fault
  BY <1>1, <1>9 DEF Wedge, WorldTypes, processes, Stored
<1>10. ASSUME NEW a \in Accounts, Age(a)
       PROVE  Types' /\ Fault
  <2>1. PICK r \in Reports :
          /\ Fault /\ quota' = [quota EXCEPT ![a] = FromUsage(r, Past)]
          /\ UNCHANGED <<processes, backend, held, locked, wedged, current>>
    BY <1>10 DEF Age
  <2>2. FromUsage(r, Past) \in Quotas
    BY DEF Quotas
  <2>3. quota' \in [Accounts -> Quotas]
    BY <2>1, <2>2 DEF WorldTypes
  <2> QED
    BY <1>1, <2>1, <2>3 DEF WorldTypes, processes, Stored
<1>11. ASSUME NEW a \in Accounts, ImportLocally(a)
       PROVE  Types' /\ Fault
  <2>1. Fault /\ ImportInto(shell, {a}) /\ UNCHANGED <<processes, locked, wedged, quota>>
    BY <1>11 DEF ImportLocally
  <2>2. /\ backend' \in [Accounts -> Backends \cup {"none"}]
        /\ held' \subseteq Backends \X Accounts
        /\ current' \in Stored' \cup {0}
    BY <2>1, ImportTypes DEF WorldTypes
  <2> QED
    BY <1>1, <2>1, <2>2 DEF WorldTypes, processes
<1>12. ASSUME NEW a \in Accounts, Remove(a)
       PROVE  Types' /\ Fault
  <2>1. /\ Fault /\ a \in Stored
        /\ backend' = [backend EXCEPT ![a] = "none"]
        /\ held' \subseteq held
        /\ quota' = [quota EXCEPT ![a] = NoQuota]
        /\ current' \in (IF current # a THEN {current} ELSE IF Stored = {a} THEN {0} ELSE Stored \ {a})
        /\ UNCHANGED <<processes, locked, wedged>>
    BY <1>12 DEF Remove
  <2>2. Stored' = Stored \ {a}
    BY <2>1 DEF Stored, WorldTypes
  <2>3. backend' \in [Accounts -> Backends \cup {"none"}]
    BY <2>1 DEF WorldTypes
  <2>4. quota' \in [Accounts -> Quotas]
    BY <2>1 DEF WorldTypes, Quotas
  <2>5. current' \in Stored' \cup {0}
    BY <2>1, <2>2 DEF WorldTypes
  <2> QED
    BY <1>1, <2>1, <2>3, <2>4, <2>5 DEF WorldTypes, processes
<1>13. ASSUME NEW b \in Backends, NEW a \in Accounts, LoseCredential(b, a)
       PROVE  Types' /\ Fault
  BY <1>1, <1>13 DEF LoseCredential, WorldTypes, processes, Stored
<1>14. ASSUME Stop \/ StartOther \/ OtherShell \/ CodexComesOrGoes \/ ServiceComesOrGoes
       PROVE  Fault
  BY <1>14 DEF Stop, StartOther, OtherShell, CodexComesOrGoes, ServiceComesOrGoes
<1> QED
  BY <1>3, <1>4, <1>5, <1>6, <1>7, <1>8, <1>9, <1>10, <1>11, <1>12, <1>13, <1>14 DEF Faults

\* Every step keeps the types, and so does none.
LEMMA TypesNext ==
  ASSUME Types, [Next]_vars
  PROVE  Types'
<1>1. CASE Next
  BY <1>1, MakingTypes, FollowingTypes, FaultTypes DEF Next
<1>2. CASE UNCHANGED vars
  BY <1>2 DEF vars, world, processes, store, progress, Types, WorldTypes, PlanTypes, ProgressTypes,
              NamesBackend, Stored
<1> QED
  BY <1>1, <1>2

\* The types are kept, the current account is one that is stored, and every plan ends with
\* the live preflight, whatever plans are made and followed and whatever changes meanwhile.
THEOREM TypeCorrect == Spec => []TypeOK
<1>1. Init => Types
  BY TypesInit
<1>2. Types /\ [Next]_vars => Types'
  BY TypesNext
<1>3. Types => TypeOK
  BY TypeParts DEF Types
<1> QED
  BY <1>1, <1>2, <1>3, PTL DEF Spec

\* The checks agree in every state.
THEOREM VerdictsCorrect == Spec => []VerdictsAgree
<1>1. Init => Types
  BY TypesInit
<1>2. Types /\ [Next]_vars => Types'
  BY TypesNext
<1>3. Types => VerdictsAgree
  BY Verdicts DEF Types
<1> QED
  BY <1>1, <1>2, <1>3, PTL DEF Spec

\* A failure of accounts/check comes with a plan in every state, or a runtime directory
\* cannot be projected; what passes is ready.
THEOREM ExplainedCorrect == Spec => []FailureIsExplained
<1>1. Init => Types
  BY TypesInit
<1>2. Types /\ [Next]_vars => Types'
  BY TypesNext
<1>3. Types => FailureIsExplained
  BY FailuresExplained DEF Types
<1> QED
  BY <1>1, <1>2, <1>3, PTL DEF Spec
-----------------------------------------------------------------------------
(* What plans lead to.                                                        *)

\* What is mended is ready: nothing is beyond plans, and nothing is left for one to do.
LEMMA MendedIsOK ==
  ASSUME WorldTypes, ~BeyondPlans, up, Aligned, Several, Target(options) \notin locked, AllFresh
  PROVE  DoctorOK(options)
<1>1. /\ codex /\ wedged \cap Stored = {} /\ ~(options.verify /\ options.promptFree)
      /\ daemon = Target(options)
      /\ \A a \in Stored : backend[a] = Target(options) /\ <<Target(options), a>> \in held
  BY DEF BeyondPlans
<1>2. shell = Target(options)
  BY DEF Aligned, Target
<1>3. \A a \in Stored : Opens(shell, a)
  BY <1>1, <1>2 DEF Opens
<1>4. AutoFresh(quota)
  <2>1. Stored # {}
    BY SeveralAreSome
  <2>2. quota \in [Accounts -> Quotas]
    BY DEF WorldTypes
  <2>3. AutoRoute(quota) \in Stored
    BY <2>1, <2>2, RouteIsStored
  <2> QED
    BY <2>1, <2>3 DEF AutoFresh, AllFresh
<1>5. ~DaemonRefuses(options)
  <2>1. Unusable(daemon) = {}
    BY <1>1, <1>2, <1>3 DEF Unusable
  <2>2. options.require \in {"any", daemon}
    BY <1>1, <1>2 DEF Aligned
  <2> QED
    BY <2>1, <2>2, PlainFails DEF DaemonRefuses
<1> QED
  BY <1>1, <1>2, <1>3, <1>4, <1>5 DEF DoctorOK, Aligned, AllFresh, WorldTypes, Options

\* What is not beyond plans, and not mended, has its step in the plan that doctor makes.
LEMMA RunPlanned ==
  ASSUME WorldTypes
  PROVE  RunNeeds(Range(DoctorPlan(options)))
<1>1. options \in Options
  BY DEF WorldTypes
<1>2. SUFFICES ASSUME ~BeyondPlans PROVE RunNeeds(Range(DoctorPlan(options)))
  BY DEF RunNeeds
<1>3. Target(options) \in locked => ~options.promptFree /\ Stored # {}
  BY <1>2 DEF BeyondPlans
<1>4. CASE DoctorOK(options)
  <2>1. up /\ Aligned /\ Several /\ AllFresh
    BY <1>4 DEF DoctorOK, Aligned, AllFresh
  <2>2. shell = Target(options)
    BY <2>1 DEF Aligned, Target
  <2>3. Target(options) \notin locked
    BY <1>3, <1>4, <2>2 DEF DoctorOK, Opens
  <2> QED
    BY <2>1, <2>3 DEF RunNeeds
<1>5. CASE ~DoctorOK(options)
  <2> DEFINE R == Range(DoctorPlan(options))
  <2>1. /\ ~up => On("start", R)
        /\ options.require \notin {"any", shell} => On("align", R)
        /\ ~Several => On("import", R)
        /\ ~options.promptFree /\ (\E a \in Stored : ~Opens(shell, a)) => On("secretstore", R)
        /\ \A a \in Stored : ~IsFresh(a, quota) => On("refresh", R)
    BY <1>1, <1>5, PlanOfDoctor
  <2> HIDE DEF R
  <2>2. Aligned \/ On("align", R)
    BY <2>1 DEF Aligned
  <2>3. Target(options) \notin locked \/ On("secretstore", R) \/ On("align", R)
    <3>1. SUFFICES ASSUME Target(options) \in locked, Aligned PROVE On("secretstore", R)
      BY <2>2
    <3>2. shell = Target(options)
      BY <3>1 DEF Aligned, Target
    <3>3. \A a \in Stored : ~Opens(shell, a)
      BY <3>1, <3>2 DEF Opens
    <3> QED
      BY <1>3, <2>1, <3>1, <3>3
  <2>4. AllFresh \/ On("refresh", R)
    BY <2>1 DEF AllFresh
  <2>5. RunNeeds(R)
    BY <2>1, <2>2, <2>3, <2>4 DEF RunNeeds
  <2> QED
    BY <2>5 DEF R
<1> QED
  BY <1>4, <1>5

\* The rest of a plan has the same steps but the first.
LEMMA OnTheRest ==
  ASSUME NEW h, NEW X, NEW Y, X \subseteq {h} \cup Y
  PROVE  \A id : On(id, X) => h.id = id \/ On(id, Y)
BY DEF On

\* When a plan is run, not followed by hand, nothing but quota changes.
LEMMA RunSteps ==
  ASSUME Types, Following, ~ByHand
  PROVE  /\ UNCHANGED <<processes, backend, held, locked, wedged, current, options, mode, calm, rounds>>
         /\ quota' = quota \/ \E b : quota' \in Refreshed(b)
         /\ AllFresh => AllFresh'
         /\ Range(plan) = {Head(plan)} \cup Range(plan')
         /\ \/ Head(plan).id = "final"
            \/ Head(plan).id = "preview"
            \/ ran'.skipped
            \/ Head(plan).id = "secretstore" /\ (ran'.ok => Head(plan).backend \notin locked)
            \/ /\ Head(plan).id = "refresh"
               /\ ran'.ok => ~CheckFails(Full(Head(plan).backend), quota')
<1> USE DEF Types
<1>1. ASSUME NEW id, NEW ok, NEW skipped, Advance(id, ok, skipped)
      PROVE  /\ UNCHANGED <<options, mode, calm, rounds>> /\ Head(plan).id = id
             /\ Range(plan) = {Head(plan)} \cup Range(plan')
             /\ (ran'.ok => ok) /\ (skipped => ran'.skipped)
  <2>1. Head(plan).id = id /\ Range(plan) = {Head(plan)} \cup Range(plan')
    BY <1>1, AdvanceTypes
  <2>2. UNCHANGED <<options, mode, calm, rounds>>
    BY <1>1 DEF Advance, ByHand
  <2>3. ran' = [ok |-> ran.ok /\ ok, skipped |-> ran.skipped \/ skipped]
    BY <1>1 DEF Advance
  <2> QED
    BY <2>1, <2>2, <2>3
<1>2. ASSUME quota' = quota \/ \E b : quota' \in Refreshed(b), UNCHANGED backend
      PROVE  AllFresh => AllFresh'
  <2>1. Stored' = Stored /\ Stored \subseteq Accounts
    BY <1>2 DEF Stored
  <2>2. CASE quota' = quota
    BY <2>1, <2>2 DEF AllFresh, IsFresh
  <2>3. CASE \E b : quota' \in Refreshed(b)
    <3>1. PICK q : q = quota' /\ \E b : q \in Refreshed(b)
      BY <2>3
    <3>2. \A a \in Accounts : IsFresh(a, quota) => IsFresh(a, q)
      BY <3>1, RefreshTypes
    <3> QED
      BY <2>1, <3>1, <3>2 DEF AllFresh, IsFresh
  <2> QED
    BY <1>2, <2>2, <2>3
<1>3. CASE Skip
  <2>1. PICK id \in {"start", "restart", "align", "import", "final"} :
          Advance(id, TRUE, id # "final") /\ UNCHANGED world
    BY <1>3 DEF Skip
  <2> QED
    BY <1>1, <1>2, <2>1 DEF world, store
<1>4. ASSUME StartDaemon \/ AlignShell \/ ImportAccounts
      PROVE  FALSE
  BY <1>4 DEF StartDaemon, AlignShell, ImportAccounts, Runs, Runnable
<1>5. CASE CheckStore
  <2>1. /\ Advance("secretstore", Head(plan).backend \notin locked, FALSE)
        /\ locked' = locked
        /\ UNCHANGED <<processes, backend, held, wedged, quota, current>>
    BY <1>5 DEF CheckStore
  <2> QED
    BY <1>1, <1>2, <2>1
<1>6. CASE RefreshQuota
  <2>1. /\ Advance("refresh", up /\ ~CheckFails(Full(Head(plan).backend), quota'), FALSE)
        /\ quota' = quota \/ \E b : quota' \in Refreshed(b)
        /\ UNCHANGED <<processes, backend, held, locked, wedged, current>>
    BY <1>6 DEF RefreshQuota
  <2> QED
    BY <1>1, <1>2, <2>1
<1>7. CASE PreviewRoute
  BY <1>1, <1>2, <1>7 DEF PreviewRoute, world, store
<1>8. CASE FinalPreflight
  <2>1. /\ \E ok : Advance("final", ok, FALSE)
        /\ quota' = quota \/ \E b : quota' \in Refreshed(b)
        /\ UNCHANGED <<processes, backend, held, locked, wedged, current>>
    BY <1>8 DEF FinalPreflight
  <2> QED
    BY <1>1, <1>2, <2>1
<1> QED
  BY <1>3, <1>4, <1>5, <1>6, <1>7, <1>8 DEF Following

\* What the steps of a plan of doctor do when they are done by hand.
HandKeeps == /\ UNCHANGED <<options, mode, calm, codex, online, wedged>>
             /\ Target(options)' = Target(options)
             /\ Stored \subseteq Stored'
             /\ up => up' /\ daemon' = daemon
             /\ Aligned => Aligned'
             /\ AllFresh /\ Stored' = Stored => AllFresh'
             /\ locked' \subseteq locked
HandStarts == Head(plan).id = "start" /\ up' /\ UNCHANGED <<shell, store>>
HandAligns == Head(plan).id = "align" /\ Aligned' /\ UNCHANGED <<up, daemon, store>>
HandImports == /\ Head(plan).id = "import"
               /\ UNCHANGED <<processes, locked, quota>>
               /\ \/ up /\ daemon \notin locked /\ Stored' = Accounts
                  \/ ~(up /\ daemon \notin locked) /\ UNCHANGED <<backend, held>>
HandChecks == /\ Head(plan).id = "secretstore"
              /\ locked' = locked \ {Head(plan).backend}
              /\ UNCHANGED <<processes, backend, held, quota>>
HandRefreshes == /\ Head(plan).id = "refresh"
                 /\ up /\ Head(plan).backend = daemon => quota' \in Refreshed(daemon)
                 /\ UNCHANGED <<processes, backend, held, locked>>
HandEnds == /\ Head(plan).id \in {"preview", "final"}
            /\ UNCHANGED <<processes, backend, held, locked>>

\* They are such a step, and leave the others to be done.
LEMMA HandSteps ==
  ASSUME Types, FitsDoctor, Following, mode = "hand", calm
  PROVE  /\ HandKeeps /\ Range(plan) = {Head(plan)} \cup Range(plan')
         /\ HandStarts \/ HandAligns \/ HandImports \/ HandChecks \/ HandRefreshes \/ HandEnds
<1> USE DEF Types
<1>1. ASSUME NEW id, NEW ok, NEW skipped, Advance(id, ok, skipped)
      PROVE  /\ UNCHANGED <<options, mode, calm>> /\ Head(plan).id = id
             /\ Head(plan) \in Range(plan) /\ Range(plan) = {Head(plan)} \cup Range(plan')
             /\ id \in {"start", "align", "import", "secretstore", "refresh", "final"}
             /\ id = "align" => Head(plan).backend = options.require /\ options.require \in Backends
  <2>1. /\ Head(plan).id = id /\ Range(plan) = {Head(plan)} \cup Range(plan')
        /\ Head(plan) \in Range(plan)
    BY <1>1, AdvanceTypes
  <2>2. UNCHANGED <<options, mode, calm>>
    BY <1>1 DEF Advance
  <2>3. /\ id \in {"start", "align", "import", "secretstore", "refresh", "final"}
        /\ id = "align" => Head(plan).backend = options.require
    BY <2>1 DEF FitsDoctor
  <2>4. id = "align" => Head(plan).backend \in Backends
    BY <2>1 DEF NamesBackend
  <2> QED
    BY <2>1, <2>2, <2>3, <2>4
<1>2. ASSUME quota' = quota \/ \E b : quota' \in Refreshed(b), Stored' = Stored
      PROVE  AllFresh => AllFresh'
  <2>1. Stored \subseteq Accounts
    BY DEF Stored
  <2>2. CASE quota' = quota
    BY <1>2, <2>2 DEF AllFresh, IsFresh
  <2>3. CASE \E b : quota' \in Refreshed(b)
    <3>1. PICK q : q = quota' /\ \E b : q \in Refreshed(b)
      BY <2>3
    <3>2. \A a \in Accounts : IsFresh(a, quota) => IsFresh(a, q)
      BY <3>1, RefreshTypes
    <3> QED
      BY <1>2, <2>1, <3>1, <3>2 DEF AllFresh, IsFresh
  <2> QED
    BY <1>2, <2>2, <2>3
<1>3. ASSUME Skip
      PROVE  FALSE
  BY <1>3 DEF Skip, Runs, ByHand
<1>4. CASE StartDaemon
  <2>1. PICK id \in {"start", "restart"} :
          /\ Advance(id, TRUE, FALSE) /\ up' = TRUE
          /\ daemon' = IF id = "start" /\ up THEN daemon
                       ELSE IF Head(plan).backend = "any" THEN shell ELSE Head(plan).backend
          /\ UNCHANGED <<shell, codex, online, store>>
    BY <1>4 DEF StartDaemon
  <2>2. id = "start"
    BY <1>1, <2>1
  <2>3. HandStarts
    BY <1>1, <2>1, <2>2 DEF HandStarts
  <2>4. HandKeeps
    BY <1>1, <1>2, <2>1, <2>2 DEF HandKeeps, store, Stored, Target, Aligned
  <2> QED
    BY <1>1, <2>1, <2>3, <2>4
<1>5. CASE AlignShell
  <2>1. /\ Advance("align", TRUE, FALSE) /\ shell' = Head(plan).backend
        /\ UNCHANGED <<up, daemon, codex, online, store>>
    BY <1>5 DEF AlignShell
  <2>2. shell' = options.require /\ options' = options /\ options.require # "any"
    BY <1>1, <2>1 DEF Backends
  <2>3. Aligned' /\ Target(options)' = Target(options)
    BY <2>2 DEF Aligned, Target
  <2>4. HandAligns
    BY <1>1, <2>1, <2>3 DEF HandAligns
  <2>5. HandKeeps
    BY <1>1, <1>2, <2>1, <2>3 DEF HandKeeps, store, Stored
  <2> QED
    BY <1>1, <2>1, <2>4, <2>5
<1>6. CASE ImportAccounts
  <2>1. PICK accounts \in SUBSET Accounts :
          /\ accounts # {} /\ Accounts \ Stored \subseteq accounts
          /\ Advance("import", up /\ daemon \notin locked, FALSE)
          /\ IF up /\ daemon \notin locked THEN ImportInto(daemon, accounts)
                                           ELSE UNCHANGED <<backend, held, current>>
          /\ UNCHANGED <<processes, locked, wedged, quota>>
    BY <1>6 DEF ImportAccounts
  <2>2. CASE up /\ daemon \notin locked
    <3>1. Stored' = Stored \cup accounts
      BY <2>1, <2>2, ImportTypes DEF WorldTypes
    <3>2. Stored' = Accounts
      BY <2>1, <3>1 DEF Stored
    <3>3. HandImports
      BY <1>1, <2>1, <2>2, <3>2 DEF HandImports
    <3>4. HandKeeps
      BY <1>1, <1>2, <2>1, <3>1 DEF HandKeeps, processes, Target, Aligned
    <3> QED
      BY <1>1, <2>1, <3>3, <3>4
  <2>3. CASE ~(up /\ daemon \notin locked)
    <3>1. HandImports
      BY <1>1, <2>1, <2>3 DEF HandImports
    <3>2. HandKeeps
      BY <1>1, <1>2, <2>1, <2>3 DEF HandKeeps, processes, Target, Aligned, Stored
    <3> QED
      BY <1>1, <2>1, <3>1, <3>2
  <2> QED
    BY <2>2, <2>3
<1>7. CASE CheckStore
  <2>1. /\ Advance("secretstore", Head(plan).backend \notin locked, FALSE)
        /\ locked' = locked \ {Head(plan).backend}
        /\ UNCHANGED <<processes, backend, held, wedged, quota, current>>
    BY <1>7 DEF CheckStore, ByHand
  <2>2. HandChecks
    BY <1>1, <2>1 DEF HandChecks
  <2>3. HandKeeps
    BY <1>1, <1>2, <2>1 DEF HandKeeps, processes, Target, Aligned, Stored
  <2> QED
    BY <1>1, <2>1, <2>2, <2>3
<1>8. CASE RefreshQuota
  <2>1. /\ \E ok : Advance("refresh", ok, FALSE)
        /\ up /\ Head(plan).backend = daemon => quota' \in Refreshed(daemon)
        /\ quota' = quota \/ \E b : quota' \in Refreshed(b)
        /\ UNCHANGED <<processes, backend, held, locked, wedged, current>>
    <3>1. Full(Head(plan).backend).require = Head(plan).backend
      BY DEF Full
    <3> QED
      BY <1>8, <3>1 DEF RefreshQuota
  <2>2. HandRefreshes
    BY <1>1, <2>1 DEF HandRefreshes
  <2>3. HandKeeps
    BY <1>1, <1>2, <2>1 DEF HandKeeps, processes, Target, Aligned, Stored
  <2> QED
    BY <1>1, <2>1, <2>2, <2>3
<1>9. ASSUME PreviewRoute \/ FinalPreflight
      PROVE  /\ HandKeeps /\ HandEnds /\ Range(plan) = {Head(plan)} \cup Range(plan')
  <2>1. /\ \E id \in {"preview", "final"} : \E ok : Advance(id, ok, FALSE)
        /\ quota' = quota \/ \E b : quota' \in Refreshed(b)
        /\ UNCHANGED <<processes, backend, held, locked, wedged, current>>
    BY <1>9 DEF PreviewRoute, FinalPreflight, world, store
  <2>2. HandEnds
    BY <1>1, <2>1 DEF HandEnds
  <2>3. HandKeeps
    BY <1>1, <1>2, <2>1 DEF HandKeeps, processes, Target, Aligned, Stored
  <2> QED
    BY <1>1, <2>1, <2>2, <2>3
<1> QED
  BY <1>3, <1>4, <1>5, <1>6, <1>7, <1>8, <1>9 DEF Following

\* Until something changes from outside, the plan is one of doctor and fits.
LEMMA FitsNext ==
  ASSUME Types, FitsDoctor, Counted, [Next]_vars
  PROVE  FitsDoctor' /\ Counted'
<1>1. ASSUME NEW m \in Modes, Diagnose(m)
      PROVE  FitsDoctor' /\ Counted'
  <2>1. /\ UNCHANGED <<world, options>> /\ mode' = m /\ calm' = TRUE
        /\ plan' = <<>> \/ plan' = DoctorPlan(options)
    BY <1>1 DEF Diagnose
  <2>2. Stored' = Stored /\ Target(options)' = Target(options)
    BY <2>1 DEF world, processes, store, Stored, Target
  <2>3. \A r \in Range(DoctorPlan(options)) :
          /\ r.id \in {"start", "align", "import", "secretstore", "refresh", "final"}
          /\ r.id = "align" => r.backend = options.require
          /\ r.id = "secretstore" => ~options.promptFree
          /\ r.id \in {"secretstore", "refresh"} => r.backend = Target(options) /\ Stored # {}
    BY PlanOfDoctor DEF Types, WorldTypes
  <2>4. CASE plan' = <<>>
    <3>1. Range(plan') = {}
      BY <2>4, EmptySeq, NoSteps
    <3> QED
      BY <2>1, <3>1 DEF FitsDoctor, Counted, Modes
  <2>5. CASE plan' = DoctorPlan(options)
    BY <2>1, <2>2, <2>3, <2>5 DEF FitsDoctor, Counted, Modes
  <2> QED
    BY <2>1, <2>4, <2>5
<1>2. ASSUME NEW p, Inspect(p)
      PROVE  FitsDoctor' /\ Counted'
  <2>1. calm' = FALSE /\ rounds' = 0
    BY <1>2 DEF Inspect
  <2> QED
    BY <2>1 DEF FitsDoctor, Counted
<1>3. CASE Fault
  <2>1. calm' = FALSE /\ rounds' = 0
    BY <1>3 DEF Fault
  <2> QED
    BY <2>1 DEF FitsDoctor, Counted
<1>4. CASE Following
  <2>0. /\ mode' = mode /\ calm' = calm /\ (~calm => rounds' = 0)
    <3>1. \E id, ok, skipped : Advance(id, ok, skipped)
      BY <1>4 DEF Following, Skip, StartDaemon, AlignShell, ImportAccounts, CheckStore, RefreshQuota,
                  PreviewRoute, FinalPreflight
    <3> QED
      BY <3>1 DEF Advance, Counted
  <2>1. CASE ~calm
    BY <2>0, <2>1 DEF FitsDoctor, Counted
  <2>2. CASE calm /\ ~ByHand
    <3>1. /\ UNCHANGED <<processes, backend, options>>
          /\ Range(plan) = {Head(plan)} \cup Range(plan')
      BY <1>4, <2>2, RunSteps
    <3>2. Stored' = Stored /\ Target(options)' = Target(options)
      BY <3>1 DEF processes, Stored, Target
    <3> QED
      BY <2>0, <2>2, <3>1, <3>2 DEF FitsDoctor, Counted
  <2>3. CASE calm /\ ByHand
    <3>1. mode = "hand"
      BY <2>3 DEF ByHand, Counted
    <3>2. /\ options' = options /\ Target(options)' = Target(options) /\ Stored \subseteq Stored'
          /\ Range(plan) = {Head(plan)} \cup Range(plan')
      BY <1>4, <2>3, <3>1, HandSteps DEF HandKeeps
    <3> QED
      BY <2>0, <2>3, <3>2 DEF FitsDoctor, Counted
  <2> QED
    BY <2>1, <2>2, <2>3
<1>5. CASE UNCHANGED vars
  BY <1>5 DEF vars, world, processes, store, progress, FitsDoctor, Counted, Stored, Target
<1> QED
  BY <1>1, <1>2, <1>3, <1>4, <1>5, FaultTypes DEF Next, Making

\* Whether something is beyond plans is a matter of the world without its quota.
LEMMA BeyondKept ==
  ASSUME UNCHANGED <<processes, backend, held, locked, wedged, options>>
  PROVE  /\ BeyondPlans' <=> BeyondPlans
         /\ Target(options)' = Target(options) /\ Stored' = Stored /\ (Several' <=> Several)
         /\ Aligned' <=> Aligned
BY DEF BeyondPlans, processes, Target, Stored, Several, Aligned

\* A repair run that went well has still to do what is left.
LEMMA RunLeadsNext ==
  ASSUME Types, FitsDoctor, Counted, RunLeads, [Next]_vars
  PROVE  RunLeads'
<1>1. ASSUME NEW m \in Modes, Diagnose(m), m \in {"run", "run all"}
      PROVE  RunLeads'
  <2>1. /\ UNCHANGED <<world, options>> /\ plan' = DoctorPlan(options)
    BY <1>1 DEF Diagnose
  <2>2. PICK Y : Y = Range(DoctorPlan(options)) /\ RunNeeds(Y)
    BY RunPlanned DEF Types
  <2>3. Range(plan)' = Y
    BY <2>1, <2>2
  <2>4. UNCHANGED <<processes, backend, held, locked, wedged, options, quota>> /\ up' = up
    BY <2>1 DEF world, store, processes
  <2>5. AllFresh' <=> AllFresh
    BY <2>4, BeyondKept DEF AllFresh, IsFresh
  <2>6. RunNeeds(Y)'
    BY <2>2, <2>4, <2>5, BeyondKept DEF RunNeeds, On
  <2> QED
    BY <2>3, <2>6 DEF RunLeads
<1>2. ASSUME mode' \notin {"run", "run all"} \/ calm' = FALSE
      PROVE  RunLeads'
  BY <1>2 DEF RunLeads
<1>3. CASE Following /\ mode \in {"run", "run all"}
  <2>1. SUFFICES ASSUME calm', ran'.ok, ~ran'.skipped PROVE RunNeeds(Range(plan))'
    BY DEF RunLeads
  <2>2. ~ByHand
    BY <1>3 DEF ByHand
  <2>3. /\ UNCHANGED <<processes, backend, held, locked, wedged, options, mode, calm>>
        /\ AllFresh => AllFresh'
        /\ Range(plan) = {Head(plan)} \cup Range(plan')
    BY <1>3, <2>2, RunSteps
  <2>4. ran.ok /\ ~ran.skipped
    <3>1. \E id, ok, skipped : Advance(id, ok, skipped)
      BY <1>3 DEF Following, Skip, StartDaemon, AlignShell, ImportAccounts, CheckStore, RefreshQuota,
                  PreviewRoute, FinalPreflight
    <3>2. PICK ok, skipped : ran' = [ok |-> ran.ok /\ ok, skipped |-> ran.skipped \/ skipped]
      BY <3>1 DEF Advance
    <3> QED
      BY <2>1, <3>2
  <2>5. RunNeeds(Range(plan))
    BY <1>3, <2>1, <2>3, <2>4 DEF RunLeads
  <2>6. PICK Y : Y = Range(plan')
    OBVIOUS
  <2>7. \A id : On(id, Range(plan)) => Head(plan).id = id \/ On(id, Y)
    BY <2>3, <2>6, OnTheRest
  <2>8. Head(plan) \in Range(plan)
    BY <2>3
  <2>9. SUFFICES ASSUME ~BeyondPlans'
                 PROVE  /\ up \/ On("start", Y)
                        /\ Aligned \/ On("align", Y)
                        /\ Several \/ On("import", Y)
                        /\ Target(options) \notin locked \/ On("secretstore", Y) \/ On("align", Y)
                        /\ AllFresh' \/ On("refresh", Y) \/ On("import", Y)
    <3>1. up' = up
      BY <2>3 DEF processes
    <3>2. RunNeeds(Y)' => RunNeeds(Range(plan))'
      BY <2>6
    <3> QED
      BY <2>3, <3>1, <3>2, BeyondKept DEF RunNeeds
  <2>10. ~BeyondPlans
    BY <2>3, <2>9, BeyondKept
  <2>11. /\ up \/ On("start", Range(plan))
         /\ Aligned \/ On("align", Range(plan))
         /\ Several \/ On("import", Range(plan))
         /\ Target(options) \notin locked \/ On("secretstore", Range(plan)) \/ On("align", Range(plan))
         /\ AllFresh \/ On("refresh", Range(plan)) \/ On("import", Range(plan))
    BY <2>5, <2>10 DEF RunNeeds
  <2>12. /\ Head(plan).id = "secretstore" => Target(options) \notin locked
         /\ Head(plan).id = "refresh" => AllFresh'
         /\ Head(plan).id \in {"final", "preview", "secretstore", "refresh"}
    <3>1. Head(plan).id \in {"secretstore", "refresh"} => Head(plan).backend = Target(options)
      BY <2>1, <2>3, <2>8 DEF FitsDoctor
    <3>2. ASSUME Head(plan).id = "refresh"
          PROVE  AllFresh'
      <4>1. ~CheckFails(Full(Head(plan).backend), quota')
        BY <1>3, <2>1, <2>2, <3>2, RunSteps
      <4>2. Full(Head(plan).backend).all
        BY DEF Full
      <4>3. \A a \in Stored : IsFresh(a, quota')
        BY <4>1, <4>2 DEF CheckFails, ResultRefused
      <4> QED
        BY <2>3, <4>3, BeyondKept DEF AllFresh, IsFresh
    <3> QED
      BY <1>3, <2>1, <2>2, <3>1, <3>2, RunSteps
  <2> QED
    BY <2>3, <2>7, <2>11, <2>12
<1>4. CASE Following /\ mode \notin {"run", "run all"}
  <2>1. \E id, ok, skipped : Advance(id, ok, skipped)
    BY <1>4 DEF Following, Skip, StartDaemon, AlignShell, ImportAccounts, CheckStore, RefreshQuota,
                PreviewRoute, FinalPreflight
  <2>2. mode' = mode
    BY <2>1 DEF Advance
  <2> QED
    BY <1>2, <1>4, <2>2
<1>5. CASE Making
  <2>1. ASSUME NEW m \in Modes, Diagnose(m), m \notin {"run", "run all"}
        PROVE  RunLeads'
    BY <1>2, <2>1 DEF Diagnose
  <2>2. ASSUME NEW p, Inspect(p)
        PROVE  RunLeads'
    BY <1>2, <2>2 DEF Inspect
  <2> QED
    BY <1>1, <1>5, <2>1, <2>2 DEF Making
<1>6. CASE Faults
  <2>1. calm' = FALSE
    BY <1>6, FaultTypes DEF Fault
  <2> QED
    BY <1>2, <2>1
<1>7. CASE UNCHANGED vars
  <2>1. UNCHANGED <<processes, backend, held, locked, wedged, options, quota, mode, calm, ran, plan>>
    BY <1>7 DEF vars, world, store, progress
  <2>2. AllFresh' <=> AllFresh
    BY <2>1, BeyondKept DEF AllFresh, IsFresh
  <2>3. up' = up
    BY <2>1 DEF processes
  <2> QED
    BY <2>1, <2>2, <2>3, BeyondKept DEF RunLeads, RunNeeds
<1> QED
  BY <1>3, <1>4, <1>5, <1>6, <1>7 DEF Next

\* A repair run that reports success, and left out nothing but the live preflight, leaves a
\* system that is ready, or one that no plan mends, unless something changed meanwhile.
THEOREM RunCorrect == Spec => []RunMeansReady
<1> DEFINE Inv == Types /\ FitsDoctor /\ Counted /\ RunLeads
<1>1. Init => Inv
  <2>1. SUFFICES ASSUME Init PROVE Inv
    OBVIOUS
  <2>2. Range(plan) = {} /\ calm = TRUE /\ mode = "none"
    BY <2>1, EmptySeq, NoSteps DEF Init
  <2> QED
    BY <2>1, <2>2, TypesInit DEF FitsDoctor, Counted, RunLeads
<1>2. Inv /\ [Next]_vars => Inv'
  BY TypesNext, FitsNext, RunLeadsNext
<1>3. Inv => RunMeansReady
  <2>1. SUFFICES ASSUME Inv, mode \in {"run", "run all"}, plan = <<>>, calm, ran.ok, ~ran.skipped, ~BeyondPlans
                 PROVE  DoctorOK(options)
    BY DEF RunMeansReady
  <2>2. Range(plan) = {}
    BY <2>1, EmptySeq, NoSteps
  <2>3. up /\ Aligned /\ Several /\ Target(options) \notin locked /\ AllFresh
    BY <2>1, <2>2 DEF RunLeads, RunNeeds, On
  <2> QED
    BY <2>1, <2>3, MendedIsOK DEF Types
<1> QED
  BY <1>1, <1>2, <1>3, PTL DEF Spec
-----------------------------------------------------------------------------
(* Four rounds by hand.                                                       *)

\* A plan of doctor leads to what the rounds so far leave.
LEMMA RoundPlanned ==
  ASSUME WorldTypes, ProgressTypes, Settled
  PROVE  LET R == Range(DoctorPlan(options)) IN
         /\ First(R)
         /\ rounds >= 1 => Second(R)
         /\ rounds >= 2 => Third(R)
         /\ rounds >= 3 => Fourth(R)
         /\ rounds >= 3 /\ On("import", R) => daemon # Target(options) \/ Target(options) \in locked
<1> DEFINE R == Range(DoctorPlan(options))
<1>1. options \in Options
  BY DEF WorldTypes
<1>2. ~DoctorOK(options) =>
        /\ ~up => On("start", R)
        /\ options.require \notin {"any", shell} => On("align", R)
        /\ ~Several => On("import", R)
        /\ ~options.promptFree /\ (\E a \in Stored : ~Opens(shell, a)) => On("secretstore", R)
        /\ \A a \in Stored : ~IsFresh(a, quota) => On("refresh", R)
  BY <1>1, PlanOfDoctor
<1>3. On("import", R) => ~Several
  BY <1>1, PlanOfDoctor DEF On
<1>4. DoctorOK(options) => up /\ Aligned /\ Several /\ AllFresh
  BY DEF DoctorOK, Aligned, AllFresh
<1> HIDE DEF R
<1>5. First(R)
  BY <1>2, <1>4 DEF First, Aligned
<1>6. ASSUME rounds >= 1
      PROVE  Second(R)
  <2>1. Aligned
    BY <1>6 DEF Settled, First, On
  <2>2. shell = Target(options)
    BY <2>1 DEF Aligned, Target
  <2>3. SUFFICES ASSUME ~options.promptFree, Target(options) \in locked, Stored # {}
                 PROVE  On("secretstore", R)
    BY DEF Second
  <2>4. \A a \in Stored : ~Opens(shell, a)
    BY <2>2, <2>3 DEF Opens
  <2>5. ~DoctorOK(options)
    BY <2>3, <2>4 DEF DoctorOK
  <2> QED
    BY <1>2, <2>3, <2>4, <2>5
<1>7. Third(R)
  BY <1>2, <1>4 DEF Third
<1>8. ASSUME rounds >= 3
      PROVE  Fourth(R) /\ (On("import", R) => daemon # Target(options) \/ Target(options) \in locked)
  <2>1. up /\ Second({}) /\ Third({})
    <3>1. rounds >= 1 /\ rounds >= 2
      BY <1>8 DEF ProgressTypes
    <3> QED
      BY <1>8, <3>1 DEF Settled, First, On
  <2>2. ~Several => daemon # Target(options) \/ Target(options) \in locked
    BY <2>1 DEF Third, On
  <2>3. ASSUME ~BeyondPlans
        PROVE  Stored # {} /\ (AllFresh \/ On("refresh", R))
    <3>1. daemon = Target(options) /\ (Target(options) \in locked => ~options.promptFree /\ Stored # {})
      BY <2>1, <2>3 DEF BeyondPlans
    <3>2. Target(options) \notin locked
      BY <2>1, <3>1 DEF Second, On
    <3>3. Stored # {}
      BY <2>2, <3>1, <3>2, SeveralAreSome
    <3> QED
      BY <1>2, <1>4, <3>3 DEF AllFresh
  <2> QED
    BY <1>3, <2>2, <2>3 DEF Fourth
<1> QED
  BY <1>5, <1>6, <1>7, <1>8 DEF R

\* The first thing that rounds settle: the daemon runs, and the shell is aligned.
LEMMA FirstStep ==
  ASSUME Types, FitsDoctor, Following, mode = "hand", calm,
         NEW X, NEW Y, X \subseteq {Head(plan)} \cup Y, First(X)
  PROVE  First(Y)'
<1>1. HandKeeps /\ (HandStarts \/ HandAligns \/ HandImports \/ HandChecks \/ HandRefreshes \/ HandEnds)
  BY HandSteps
<1>2. \A id : On(id, X) => Head(plan).id = id \/ On(id, Y)
  BY OnTheRest
<1>3. up' \/ On("start", Y)
  BY <1>1, <1>2 DEF First, HandKeeps, HandStarts, HandAligns, HandImports, HandChecks, HandRefreshes, HandEnds
<1>4. Aligned' \/ On("align", Y)
  BY <1>1, <1>2 DEF First, HandKeeps, HandStarts, HandAligns, HandImports, HandChecks, HandRefreshes, HandEnds
<1> QED
  BY <1>3, <1>4 DEF First, On

\* The second: the store that doctor is to have is open, where it can tell.
LEMMA SecondStep ==
  ASSUME Types, FitsDoctor, Following, mode = "hand", calm, First({}),
         NEW X, NEW Y, X \subseteq {Head(plan)} \cup Y, Second(X)
  PROVE  Second(Y)'
<1>1. /\ HandKeeps /\ (HandStarts \/ HandAligns \/ HandImports \/ HandChecks \/ HandRefreshes \/ HandEnds)
      /\ Range(plan) = {Head(plan)} \cup Range(plan')
  BY HandSteps
<1>2. \A id : On(id, X) => Head(plan).id = id \/ On(id, Y)
  BY OnTheRest
<1>3. up /\ up' /\ daemon' = daemon /\ options' = options /\ Target(options)' = Target(options)
  BY <1>1 DEF First, On, HandKeeps
<1>4. SUFFICES ASSUME ~options.promptFree, Target(options) \in locked'
               PROVE  Stored' = {} \/ daemon # Target(options) \/ On("secretstore", Y)
  BY <1>3 DEF Second, On
<1>5. Target(options) \in locked
  BY <1>1, <1>4 DEF HandKeeps
<1>6. Stored = {} \/ daemon # Target(options) \/ On("secretstore", X)
  BY <1>4, <1>5 DEF Second
<1>7. CASE HandChecks
  <2>1. Head(plan).backend = Target(options)
    BY <1>1, <1>7 DEF FitsDoctor, HandChecks
  <2> QED
    BY <1>4, <1>7, <2>1 DEF HandChecks
<1>8. CASE HandImports
  <2>1. daemon \notin locked => daemon # Target(options)
    BY <1>5
  <2>2. daemon \in locked => Stored' = Stored
    BY <1>8 DEF HandImports, Stored
  <2> QED
    BY <1>2, <1>6, <1>8, <2>1, <2>2 DEF HandImports
<1>9. CASE HandStarts \/ HandAligns \/ HandRefreshes \/ HandEnds
  <2>1. Stored' = Stored /\ Head(plan).id # "secretstore"
    BY <1>9 DEF HandStarts, HandAligns, HandRefreshes, HandEnds, store, Stored
  <2> QED
    BY <1>2, <1>6, <2>1
<1> QED
  BY <1>1, <1>7, <1>8, <1>9

\* The third: the accounts are imported, if the daemon has that store and it is open.
LEMMA ThirdStep ==
  ASSUME Types, FitsDoctor, Following, mode = "hand", calm, First({}), Second({}), Cardinality(Accounts) >= 2,
         NEW X, NEW Y, X \subseteq {Head(plan)} \cup Y, Third(X)
  PROVE  Third(Y)'
<1>1. /\ HandKeeps /\ (HandStarts \/ HandAligns \/ HandImports \/ HandChecks \/ HandRefreshes \/ HandEnds)
      /\ Range(plan) = {Head(plan)} \cup Range(plan')
  BY HandSteps
<1>2. \A id : On(id, X) => Head(plan).id = id \/ On(id, Y)
  BY OnTheRest
<1>3. up /\ daemon' = daemon /\ options' = options /\ Target(options)' = Target(options)
  BY <1>1 DEF First, On, HandKeeps
<1>4. SUFFICES Several' \/ daemon # Target(options) \/ Target(options) \in locked' \/ On("import", Y)
  BY <1>3 DEF Third, On
<1>5. Several \/ daemon # Target(options) \/ Target(options) \in locked \/ On("import", X)
  BY DEF Third
<1>6. CASE HandImports
  <2>1. CASE daemon \notin locked
    <3>1. Stored' = Accounts
      BY <1>3, <1>6, <2>1 DEF HandImports
    <3> QED
      BY <3>1 DEF Several
  <2>2. CASE daemon \in locked
    BY <1>3, <1>6, <2>2 DEF HandImports
  <2> QED
    BY <2>1, <2>2
<1>7. CASE HandChecks
  <2>1. ~options.promptFree /\ Stored # {} /\ Head(plan).id = "secretstore"
    BY <1>1, <1>7 DEF FitsDoctor, HandChecks
  <2>2. Target(options) \in locked => daemon # Target(options)
    BY <2>1 DEF Second, On
  <2>3. Several' <=> Several
    BY <1>7 DEF HandChecks, Several, Stored
  <2> QED
    BY <1>2, <1>5, <2>1, <2>2, <2>3
<1>8. CASE HandStarts \/ HandAligns \/ HandRefreshes \/ HandEnds
  <2>1. (Several' <=> Several) /\ locked' = locked /\ Head(plan).id # "import"
    BY <1>8 DEF HandStarts, HandAligns, HandRefreshes, HandEnds, store, Stored, Several
  <2> QED
    BY <1>2, <1>5, <2>1
<1> QED
  BY <1>1, <1>6, <1>7, <1>8

\* An import that is left over after the third cannot work.
LEMMA LeftoverStep ==
  ASSUME Types, FitsDoctor, Following, mode = "hand", calm, First({}), Second({}),
         daemon # Target(options) \/ Target(options) \in locked
  PROVE  (daemon # Target(options) \/ Target(options) \in locked)'
<1>1. /\ HandKeeps /\ (HandStarts \/ HandAligns \/ HandImports \/ HandChecks \/ HandRefreshes \/ HandEnds)
      /\ Range(plan) = {Head(plan)} \cup Range(plan')
  BY HandSteps
<1>2. up /\ daemon' = daemon /\ options' = options /\ Target(options)' = Target(options)
  BY <1>1 DEF First, On, HandKeeps
<1>3. CASE HandChecks
  <2>1. ~options.promptFree /\ Stored # {}
    BY <1>1, <1>3 DEF FitsDoctor, HandChecks
  <2>2. daemon # Target(options)
    BY <2>1 DEF Second, On
  <2> QED
    BY <1>2, <2>2
<1>4. CASE ~HandChecks
  <2>1. locked' = locked
    BY <1>1, <1>4 DEF HandStarts, HandAligns, HandImports, HandRefreshes, HandEnds, store
  <2> QED
    BY <1>2, <2>1
<1> QED
  BY <1>3, <1>4

\* The fourth: what is stored is fresh, unless something is beyond plans.
LEMMA FourthStep ==
  ASSUME Types, FitsDoctor, Following, mode = "hand", calm, First({}), Second({}),
         Head(plan).id = "import" => daemon # Target(options) \/ Target(options) \in locked,
         NEW X, NEW Y, X \subseteq {Head(plan)} \cup Y, Fourth(X)
  PROVE  Fourth(Y)'
<1>1. /\ HandKeeps /\ (HandStarts \/ HandAligns \/ HandImports \/ HandChecks \/ HandRefreshes \/ HandEnds)
      /\ Range(plan) = {Head(plan)} \cup Range(plan')
  BY HandSteps
<1>2. \A id : On(id, X) => Head(plan).id = id \/ On(id, Y)
  BY OnTheRest
<1>3. /\ up /\ up' /\ daemon' = daemon /\ options' = options /\ Target(options)' = Target(options)
      /\ UNCHANGED <<codex, online, wedged>>
  BY <1>1 DEF First, On, HandKeeps
<1>4. SUFFICES ASSUME ~BeyondPlans' PROVE Stored' # {} /\ (AllFresh' \/ On("refresh", Y))
  BY DEF Fourth, On
<1>5. codex /\ online /\ daemon = Target(options)
  BY <1>3, <1>4 DEF BeyondPlans
<1>6. Head(plan).id = "import" => UNCHANGED <<backend, held>>
  BY <1>1, <1>5 DEF HandStarts, HandAligns, HandImports, HandChecks, HandRefreshes, HandEnds
<1>7. UNCHANGED <<backend, held>> /\ Stored' = Stored
  BY <1>1, <1>6 DEF HandStarts, HandAligns, HandImports, HandChecks, HandRefreshes, HandEnds, store, Stored
<1>8. ~BeyondPlans
  <2>1. CASE HandChecks
    <3>1. ~options.promptFree /\ Stored # {}
      BY <1>1, <2>1 DEF FitsDoctor, HandChecks
    <3> QED
      BY <1>3, <1>4, <1>7, <3>1 DEF BeyondPlans
  <2>2. CASE ~HandChecks
    <3>1. locked' = locked
      BY <1>1, <2>2 DEF HandStarts, HandAligns, HandImports, HandRefreshes, HandEnds, store
    <3> QED
      BY <1>3, <1>4, <1>7, <3>1 DEF BeyondPlans
  <2> QED
    BY <2>1, <2>2
<1>9. Stored # {} /\ (AllFresh \/ On("refresh", X))
  BY <1>8 DEF Fourth
<1>10. AllFresh => AllFresh'
  BY <1>1, <1>7 DEF HandKeeps
<1>11. ASSUME Head(plan).id = "refresh"
       PROVE  AllFresh'
  <2>1. Head(plan).backend = daemon
    BY <1>1, <1>5, <1>11 DEF FitsDoctor
  <2>2. HandRefreshes
    BY <1>1, <1>11 DEF HandStarts, HandAligns, HandImports, HandChecks, HandEnds
  <2>3. PICK q \in Refreshed(daemon) : q = quota'
    BY <1>3, <2>1, <2>2 DEF HandRefreshes
  <2>4. Target(options) \notin locked
    BY <1>5, <1>8, <1>9 DEF BeyondPlans, Second, On
  <2>5. Unrefreshable(daemon) = {}
    BY <1>5, <1>8, <2>4 DEF BeyondPlans, Unrefreshable, Opens
  <2>6. \A a \in Stored : IsFresh(a, q)
    BY <2>5, RefreshTypes DEF Types
  <2> QED
    BY <1>7, <2>3, <2>6 DEF AllFresh, IsFresh
<1> QED
  BY <1>2, <1>7, <1>9, <1>10, <1>11

\* What rounds settled, and what the plan that is followed leads to, is a matter of the
\* world, the options and the steps.
LEMMA SettledKept ==
  ASSUME UNCHANGED <<processes, backend, held, locked, wedged, options>>, AllFresh => AllFresh', NEW X
  PROVE  /\ First(X) => First(X)'
         /\ Second(X) => Second(X)'
         /\ Third(X) => Third(X)'
         /\ Fourth(X) => Fourth(X)'
<1>1. up' = up /\ daemon' = daemon
  BY DEF processes
<1> QED
  BY <1>1, BeyondKept DEF First, Second, Third, Fourth, On

\* What rounds settle stays settled, and the plan that is followed by hand leads on.
LEMMA SettledNext ==
  ASSUME Types, FitsDoctor, Counted, Settled, Leads, Cardinality(Accounts) >= 2, [Next]_vars
  PROVE  Settled' /\ Leads'
<1>0. rounds \in 0 .. 4
  BY DEF Types, ProgressTypes
<1>1. ASSUME rounds' = 0, calm' = FALSE
      PROVE  Settled' /\ Leads'
  BY <1>1 DEF Settled, Leads, Followed
<1>2. ASSUME UNCHANGED <<processes, backend, held, locked, wedged, options, rounds>>, AllFresh => AllFresh'
      PROVE  Settled'
  <2>1. /\ First({}) => First({})'
        /\ Second({}) => Second({})'
        /\ Third({}) => Third({})'
        /\ Fourth({}) => Fourth({})'
    BY <1>2, SettledKept
  <2> QED
    BY <1>2, <2>1 DEF Settled
<1>3. ASSUME NEW m \in Modes, Diagnose(m)
      PROVE  Settled' /\ Leads'
  <2>1. /\ UNCHANGED <<world, options>> /\ mode' = m
        /\ rounds' = IF m = "hand" /\ plan' = <<>> THEN Another ELSE rounds
    BY <1>3 DEF Diagnose
  <2>2. /\ UNCHANGED <<processes, backend, held, locked, wedged, options>>
        /\ AllFresh => AllFresh'
    BY <2>1 DEF world, store, AllFresh, IsFresh, Stored
  <2>3. CASE m # "hand"
    BY <1>2, <2>1, <2>2, <2>3 DEF Leads, Followed
  <2>4. CASE m = "hand"
    <3>1. plan' = DoctorPlan(options)
      BY <1>3, <2>4 DEF Diagnose
    <3>2. PICK R : R = Range(DoctorPlan(options))
      OBVIOUS
    <3>3. /\ First(R)
          /\ rounds >= 1 => Second(R)
          /\ rounds >= 2 => Third(R)
          /\ rounds >= 3 => Fourth(R)
          /\ rounds >= 3 /\ On("import", R) => daemon # Target(options) \/ Target(options) \in locked
      BY <3>2, RoundPlanned DEF Types
    <3>4. /\ First(R)'
          /\ rounds >= 1 => Second(R)'
          /\ rounds >= 2 => Third(R)'
          /\ rounds >= 3 => Fourth(R)'
          /\ rounds >= 3 /\ On("import", R) => (daemon # Target(options) \/ Target(options) \in locked)'
      <4>1. daemon' = daemon /\ locked' = locked /\ Target(options)' = Target(options)
        BY <2>2, BeyondKept DEF processes
      <4> QED
        BY <2>2, <3>3, <4>1, SettledKept
    <3>5. CASE plan' # <<>>
      <4>1. rounds' = rounds
        BY <2>1, <3>5
      <4>2. Settled'
        BY <1>2, <2>2, <4>1
      <4>3. Range(plan)' = R
        BY <3>1, <3>2
      <4> QED
        BY <3>4, <4>1, <4>2, <4>3 DEF Leads
    <3>6. CASE plan' = <<>>
      <4>1. rounds' = Another /\ R = {}
        BY <2>1, <2>4, <3>1, <3>2, <3>6, EmptySeq, NoSteps
      <4>2. /\ rounds' >= 2 => rounds >= 1
            /\ rounds' >= 3 => rounds >= 2
            /\ rounds' >= 4 => rounds >= 3
        BY <1>0, <4>1 DEF Another
      <4> QED
        BY <3>4, <3>6, <4>1, <4>2 DEF Settled, Leads, Followed
    <3> QED
      BY <3>5, <3>6
  <2> QED
    BY <2>3, <2>4
<1>4. CASE Following
  <2>1. PICK id, ok, skipped : Advance(id, ok, skipped)
    BY <1>4 DEF Following, Skip, StartDaemon, AlignShell, ImportAccounts, CheckStore, RefreshQuota,
                PreviewRoute, FinalPreflight
  <2>2. /\ mode' = mode /\ calm' = calm /\ plan # <<>> /\ Head(plan) \in Range(plan)
        /\ rounds' = IF mode = "hand" /\ calm /\ plan' = <<>> THEN Another ELSE rounds
    BY <2>1, AdvanceTypes DEF Advance, Types
  <2>3. CASE ~calm
    BY <1>1, <2>2, <2>3 DEF Counted, Types, ProgressTypes
  <2>4. CASE calm /\ mode # "hand"
    <3>1. ~ByHand
      BY <2>4 DEF ByHand, Counted
    <3>2. /\ UNCHANGED <<processes, backend, held, locked, wedged, options, rounds>>
          /\ AllFresh => AllFresh'
      BY <1>4, <3>1, RunSteps
    <3> QED
      BY <1>2, <2>2, <2>4, <3>2 DEF Leads, Followed
  <2>5. CASE calm /\ mode = "hand"
    <3>1. PICK Y : Y = Range(plan')
      OBVIOUS
    <3>2. Range(plan) \subseteq {Head(plan)} \cup Y /\ Y \subseteq Range(plan)
      BY <1>4, <2>5, <3>1, HandSteps
    <3>3. PICK X : X = Range(plan)
      OBVIOUS
    <3>4. /\ First(X)
          /\ rounds >= 1 => Second(X)
          /\ rounds >= 2 => Third(X)
          /\ rounds >= 3 => Fourth(X)
          /\ rounds >= 3 /\ On("import", X) => daemon # Target(options) \/ Target(options) \in locked
      BY <2>2, <2>5, <3>3 DEF Leads, Followed
    <3>5. X \subseteq {Head(plan)} \cup Y /\ {} \subseteq {Head(plan)} \cup {}
      BY <3>2, <3>3
    <3>6. First(Y)' /\ (rounds >= 1 => First({})')
      BY <1>4, <2>5, <3>4, <3>5, FirstStep DEF Settled
    <3>7. (rounds >= 1 => Second(Y)') /\ (rounds >= 2 => Second({})')
      <4>1. ASSUME rounds >= 1
            PROVE  Second(Y)'
        BY <1>4, <2>5, <3>4, <3>5, <4>1, SecondStep DEF Settled
      <4>2. ASSUME rounds >= 2
            PROVE  Second({})'
        <5>1. First({}) /\ Second({})
          BY <1>0, <4>2 DEF Settled
        <5> QED
          BY <1>4, <2>5, <3>5, <5>1, SecondStep
      <4> QED
        BY <4>1, <4>2
    <3>8. (rounds >= 2 => Third(Y)') /\ (rounds >= 3 => Third({})')
      <4>1. rounds >= 2 => First({}) /\ Second({})
        BY <1>0 DEF Settled
      <4>2. ASSUME rounds >= 2
            PROVE  Third(Y)'
        BY <1>4, <2>5, <3>4, <3>5, <4>1, <4>2, ThirdStep
      <4>3. ASSUME rounds >= 3
            PROVE  Third({})'
        <5>1. First({}) /\ Second({}) /\ Third({})
          BY <1>0, <4>3 DEF Settled
        <5> QED
          BY <1>4, <2>5, <3>5, <5>1, ThirdStep
      <4> QED
        BY <4>2, <4>3
    <3>9. /\ rounds >= 3 => Fourth(Y)'
          /\ rounds >= 4 => Fourth({})'
          /\ rounds >= 3 /\ On("import", Y) => (daemon # Target(options) \/ Target(options) \in locked)'
      <4>1. ASSUME rounds >= 3
            PROVE  /\ First({}) /\ Second({}) /\ Fourth(X)
                   /\ Head(plan).id = "import" => daemon # Target(options) \/ Target(options) \in locked
        <5>1. rounds >= 1 /\ rounds >= 2
          BY <1>0, <4>1
        <5>2. Head(plan).id = "import" => On("import", X)
          BY <2>2, <3>3 DEF On
        <5> QED
          BY <3>4, <4>1, <5>1, <5>2 DEF Settled
      <4>2. ASSUME rounds >= 3
            PROVE  Fourth(Y)'
        BY <1>4, <2>5, <3>5, <4>1, <4>2, FourthStep
      <4>3. ASSUME rounds >= 4
            PROVE  Fourth({})'
        <5>1. rounds >= 3 /\ Fourth({})
          BY <1>0, <4>3 DEF Settled
        <5> QED
          BY <1>4, <2>5, <3>5, <4>1, <5>1, FourthStep
      <4>4. ASSUME rounds >= 3, On("import", Y)
            PROVE  (daemon # Target(options) \/ Target(options) \in locked)'
        <5>1. On("import", X)
          BY <3>2, <3>3, <4>4 DEF On
        <5> QED
          BY <1>4, <2>5, <3>4, <4>1, <4>4, <5>1, LeftoverStep
      <4> QED
        BY <4>2, <4>3, <4>4
    <3>10. CASE plan' # <<>>
      <4>1. rounds' = rounds /\ Range(plan)' = Y
        BY <2>2, <3>1, <3>10
      <4>2. Settled'
        BY <3>6, <3>7, <3>8, <3>9, <4>1 DEF Settled
      <4> QED
        BY <3>6, <3>7, <3>8, <3>9, <4>1, <4>2 DEF Leads
    <3>11. CASE plan' = <<>>
      <4>1. rounds' = Another /\ Y = {}
        BY <2>2, <2>5, <3>1, <3>11, EmptySeq, NoSteps
      <4>2. /\ rounds' >= 2 => rounds >= 1
            /\ rounds' >= 3 => rounds >= 2
            /\ rounds' >= 4 => rounds >= 3
        BY <1>0, <4>1 DEF Another
      <4> QED
        BY <3>6, <3>7, <3>8, <3>9, <3>11, <4>1, <4>2 DEF Settled, Leads, Followed
    <3> QED
      BY <3>10, <3>11
  <2> QED
    BY <2>3, <2>4, <2>5
<1>5. ASSUME NEW p, Inspect(p)
      PROVE  Settled' /\ Leads'
  BY <1>1, <1>5 DEF Inspect
<1>6. CASE Faults
  BY <1>1, <1>6, FaultTypes DEF Fault
<1>7. CASE UNCHANGED vars
  <2>1. UNCHANGED <<processes, backend, held, locked, wedged, options, rounds, quota, mode, calm, plan>>
    BY <1>7 DEF vars, world, store, progress
  <2>2. AllFresh => AllFresh'
    BY <2>1 DEF AllFresh, IsFresh, Stored
  <2>3. Settled'
    BY <1>2, <2>1, <2>2
  <2>4. PICK X : X = Range(plan)
    OBVIOUS
  <2>5. /\ First(X) => First(X)'
        /\ Second(X) => Second(X)'
        /\ Third(X) => Third(X)'
        /\ Fourth(X) => Fourth(X)'
    BY <2>1, <2>2, SettledKept
  <2>6. daemon' = daemon /\ Target(options)' = Target(options) /\ Range(plan)' = X
    BY <2>1, <2>4 DEF processes, Target
  <2> QED
    BY <2>1, <2>3, <2>4, <2>5, <2>6 DEF Leads, Followed
<1> QED
  BY <1>3, <1>4, <1>5, <1>6, <1>7 DEF Next, Making

\* Plans of doctor that are followed by hand to their end lead to readiness in at most four
\* rounds, unless something is amiss that no plan mends, whatever the store held and
\* whatever changed before; there must be two accounts to import.
THEOREM RoundsCorrect == Cardinality(Accounts) >= 2 => (Spec => []FourRoundsSuffice)
<1> SUFFICES ASSUME Cardinality(Accounts) >= 2 PROVE Spec => []FourRoundsSuffice
  OBVIOUS
<1> DEFINE Inv == Types /\ FitsDoctor /\ Counted /\ Settled /\ Leads
<1>1. Init => Inv
  <2>1. SUFFICES ASSUME Init PROVE Inv
    OBVIOUS
  <2>2. Range(plan) = {} /\ calm = TRUE /\ mode = "none" /\ rounds = 0 /\ plan = <<>>
    BY <2>1, EmptySeq, NoSteps DEF Init
  <2> QED
    BY <2>1, <2>2, TypesInit DEF FitsDoctor, Counted, Settled, Leads, Followed
<1>2. Inv /\ [Next]_vars => Inv'
  BY TypesNext, FitsNext, SettledNext
<1>3. Inv => FourRoundsSuffice
  <2>1. SUFFICES ASSUME Inv, rounds = 4, ~BeyondPlans PROVE DoctorOK(options)
    BY DEF FourRoundsSuffice
  <2>2. First({}) /\ Second({}) /\ Third({}) /\ Fourth({})
    BY <2>1 DEF Settled
  <2>3. up /\ Aligned
    BY <2>2 DEF First, On
  <2>4. Stored # {} /\ AllFresh
    BY <2>1, <2>2 DEF Fourth, On
  <2>5. daemon = Target(options) /\ Target(options) \notin locked
    BY <2>1, <2>2, <2>3, <2>4 DEF BeyondPlans, Second, On
  <2>6. Several
    BY <2>2, <2>5 DEF Third, On
  <2> QED
    BY <2>1, <2>3, <2>4, <2>5, <2>6, MendedIsOK DEF Types
<1> QED
  BY <1>1, <1>2, <1>3, PTL DEF Spec
=============================================================================
