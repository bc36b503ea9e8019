----------------------------- MODULE FirewallProofs -----------------------------
(***************************************************************************)
(* Proofs about the rule groups of the engine: RuleGroup and DnsEnforce,    *)
(* Isolation, TrackerBlocks, and the three side by side (MCFirewall), for   *)
(* any number of requests, processes, addresses and servers.                *)
(***************************************************************************)
EXTENDS MCFirewall, FilterProofs

-----------------------------------------------------------------------------
(* RuleGroup *)

USE DEF Labels

-----------------------------------------------------------------------------
(* Facts about plans *)

\* The plan of a request, or of "clear", is a sequence of rules.
LEMMA PlanIsSeq ==
    ASSUME NEW r \in Requests[group] \cup {Nothing}, group \in Groups
    PROVE  /\ PlanOf(r) \in Seq(Rules[group])
           /\ Len(PlanOf(r)) \in Nat
           /\ \A i \in 1..Len(PlanOf(r)) : PlanOf(r)[i] \in Rules[group]
<1>1. PlanOf(r) \in Seq(Rules[group])
  <2>1. CASE r = Nothing
        BY <2>1 DEF PlanOf
  <2>2. CASE r # Nothing
        BY <2>2, PlanAssumption DEF PlanOf
  <2> QED BY <2>1, <2>2
<1> QED BY <1>1

\* Adding the next rule of a plan makes its first part one longer.
LEMMA PrefixGrows ==
    ASSUME NEW r, NEW n \in Nat
    PROVE  /\ Prefix(r, 0) = {}
           /\ Prefix(r, n) \cup {PlanOf(r)[n + 1]} = Prefix(r, n + 1)
<1>1. 1..(n + 1) = (1..n) \cup {n + 1}
      OBVIOUS
<1> QED BY <1>1 DEF Prefix

\* The group a behaviour is about never changes, and so neither do its plans.
LEMMA GroupFixed ==
    ASSUME [Next]_vars
    PROVE  group' = group /\ \A r : PlanOf(r)' = PlanOf(r)
<1>1. group' = group
      BY DEF Next, vars, Refuse, Apply, Clear, Begin, Steps, Delete, Add, Set,
             Reply, Kill
<1> QED BY <1>1 DEF PlanOf

-----------------------------------------------------------------------------
(* Type correctness, strengthened by how far each request has come *)

Progress ==
    \A c \in Callers :
        /\ at[c] = "del" => done[c] = 0
        /\ at[c] = "add" => done[c] < Len(PlanOf(want[c]))

TypeInv == TypeOK /\ Progress

\* Every step keeps the types, and no request adds more rules than it has.
LEMMA TypeStep == TypeInv /\ [Next]_vars => TypeInv'
<1> SUFFICES ASSUME TypeInv, [Next]_vars PROVE TypeInv'
    OBVIOUS
<1> USE DEF TypeInv, TypeOK, Progress
<1>0. group' = group /\ \A r : PlanOf(r)' = PlanOf(r)
      BY GroupFixed
<1>m. mixed' \in BOOLEAN
  <2>1. ASSUME NEW c \in Callers, Delete(c) PROVE mixed' \in BOOLEAN
        BY <2>1 DEF Delete
  <2>2. ASSUME NEW c \in Callers, NEW r, Begin(c, r) PROVE mixed' \in BOOLEAN
        BY <2>2 DEF Begin
  <2>3. mixed' = mixed => mixed' \in BOOLEAN
        OBVIOUS
  <2> QED BY <2>1, <2>2, <2>3
          DEF Next, vars, Refuse, Apply, Clear, Steps, Add, Set, Reply, Kill
<1>1. CASE UNCHANGED vars
      BY <1>1 DEF vars, PlanOf
<1>2. ASSUME NEW c \in Callers, Refuse(c) PROVE TypeInv'
      BY <1>2 DEF Refuse, PlanOf
<1>3. ASSUME NEW c \in Callers, NEW r \in Requests[group] \cup {Nothing},
             Begin(c, r)
      PROVE  TypeInv'
  <2>1. alone' \in [Callers -> BOOLEAN]
        BY <1>3 DEF Begin
  <2>2. /\ at' \in [Callers -> Labels]
        /\ want' \in [Callers -> Requests[group] \cup {Nothing}]
        /\ done' \in [Callers -> Nat]
        /\ UNCHANGED <<group, rules, enabled, current, answer>>
        BY <1>3 DEF Begin, Goto
  <2>3. \A d \in Callers :
           /\ d = c => at'[d] = "del" /\ done'[d] = 0
           /\ d # c => at'[d] = at[d] /\ done'[d] = done[d] /\ want'[d] = want[d]
        BY <1>3 DEF Begin, Goto
  <2>4. TypeOK'
        BY <1>m, <2>1, <2>2
  <2>5. Progress'
        BY <2>2, <2>3 DEF PlanOf
  <2> QED BY <2>4, <2>5
<1>4. ASSUME NEW c \in Callers, Delete(c) PROVE TypeInv'
  <2>1. /\ at' \in [Callers -> Labels]
        /\ \A d \in Callers \ {c} : at'[d] = at[d]
        /\ at'[c] \in {"fail", NextCall(c, 0)}
        /\ rules' \in {rules, {}}
        BY <1>4 DEF Delete, RunNetsh, Goto, NextCall
  <2>2. at'[c] = "add" => 0 < Len(PlanOf(want[c]))
        BY <2>1 DEF NextCall
  <2>3. at'[c] # "del"
        BY <2>1 DEF NextCall
  <2>4. UNCHANGED <<group, enabled, current, want, done, answer, alone>>
        BY <1>4 DEF Delete
  <2>5. done[c] = 0
        BY <1>4 DEF Delete
  <2>6. TypeOK'
        BY <1>m, <2>1, <2>4
  <2>7. Progress'
        BY <2>1, <2>2, <2>3, <2>4, <2>5 DEF PlanOf
  <2> QED BY <2>6, <2>7
<1>5. ASSUME NEW c \in Callers, Add(c) PROVE TypeInv'
  <2>1. /\ at' \in [Callers -> Labels]
        /\ \A d \in Callers \ {c} : at'[d] = at[d]
        /\ at'[c] \in {"fail", NextCall(c, done[c] + 1)}
        /\ rules' \in {rules, rules \cup {PlanOf(want[c])[done[c] + 1]}}
        /\ done' = [done EXCEPT ![c] = done[c] + 1]
        BY <1>5 DEF Add, RunNetsh, Goto, NextCall
  <2>2. done[c] + 1 \in 1..Len(PlanOf(want[c]))
        BY <1>5, PlanIsSeq DEF Add
  <2>3. rules' \subseteq Rules[group]
        BY <2>1, <2>2, PlanIsSeq
  <2>4. /\ at'[c] = "add" => done[c] + 1 < Len(PlanOf(want[c]))
        /\ at'[c] # "del"
        BY <2>1 DEF NextCall
  <2>5. UNCHANGED <<group, enabled, current, want, answer, alone>>
        BY <1>5 DEF Add
  <2>6. done' \in [Callers -> Nat]
        BY <2>1
  <2>7. TypeOK'
        BY <1>m, <2>1, <2>3, <2>5, <2>6
  <2>8. Progress'
        BY <2>1, <2>4, <2>5 DEF PlanOf
  <2> QED BY <2>7, <2>8
<1>6. ASSUME NEW c \in Callers, Set(c) PROVE TypeInv'
  <2>1. enabled' \in BOOLEAN /\ current' \in Requests[group] \cup {Nothing}
        BY <1>6 DEF Set
  <2>2. UNCHANGED <<group, rules, want, done, answer, alone>>
        BY <1>6 DEF Set
  <2>3. at' \in [Callers -> Labels] /\ at'[c] = "reply"
        BY <1>6 DEF Set, Goto
  <2>4. \A d \in Callers : at'[d] \in {"del", "add"} => at'[d] = at[d]
        BY <1>6, <2>3 DEF Set, Goto
  <2>5. TypeOK'
        BY <1>m, <2>1, <2>2, <2>3
  <2>6. Progress'
        BY <2>2, <2>4 DEF PlanOf
  <2> QED BY <2>5, <2>6
<1>7. ASSUME NEW c \in Callers, Reply(c) PROVE TypeInv'
  <2>1. UNCHANGED <<group, rules, enabled, current, alone>>
        BY <1>7 DEF Reply
  <2>2. /\ at' \in [Callers -> Labels]
        /\ want' \in [Callers -> Requests[group] \cup {Nothing}]
        /\ done' \in [Callers -> Nat]
        /\ answer' \in [Callers -> {"none", "ok", "error"}]
        BY <1>7 DEF Reply, Goto
  <2>3. \A d \in Callers :
           /\ d = c => at'[d] = "idle"
           /\ d # c => at'[d] = at[d] /\ done'[d] = done[d] /\ want'[d] = want[d]
        BY <1>7 DEF Reply, Goto
  <2>4. TypeOK'
        BY <1>m, <2>1, <2>2
  <2>5. Progress'
        BY <2>1, <2>2, <2>3 DEF PlanOf
  <2> QED BY <2>4, <2>5
<1>8. ASSUME Kill PROVE TypeInv'
  <2>1. PICK late \in SUBSET {c \in Callers : at[c] = "add"} :
           rules' \subseteq
              rules \cup {PlanOf(want[c])[done[c] + 1] : c \in late}
        BY <1>8 DEF Kill
  <2>2. \A c \in late : PlanOf(want[c])[done[c] + 1] \in Rules[group]
        BY PlanIsSeq
  <2>3. rules' \subseteq Rules[group]
        BY <2>1, <2>2
  <2> QED BY <1>8, <2>3, NothingAssumption DEF Kill
<1> QED
    BY <1>1, <1>2, <1>3, <1>4, <1>5, <1>6, <1>7, <1>8 DEF Next, Apply, Clear, Steps

\* The first state has the types.
LEMMA TypeInit == Init => TypeInv
<1> SUFFICES ASSUME Init PROVE TypeInv
    OBVIOUS
<1>1. \A c \in Callers : at[c] = "idle"
      BY DEF Init
<1>2. TypeOK
      BY NothingAssumption DEF Init, TypeOK
<1> QED BY <1>1, <1>2 DEF TypeInv, Progress

\* Type correctness of every reachable state of the engine's rule group, for
\* any number of requests in flight and any failures.
THEOREM RgTypeCorrect == Spec => []TypeOK
<1>1. TypeInv => TypeOK
      BY DEF TypeInv
<1> QED BY <1>1, TypeInit, TypeStep, PTL DEF Spec

-----------------------------------------------------------------------------
(* A request that runs alone *)

\* What the firewall and Status hold when request c has come as far as it has.
Faithful(c) ==
    /\ at[c] = "add" => rules = Prefix(want[c], done[c])
    /\ at[c] \in {"set", "reply"} => rules = AllRules(want[c])
    /\ at[c] = "reply" =>
          /\ enabled = (want[c] # Nothing)
          /\ enabled => current = want[c]

LoneInv ==
    /\ TypeInv
    /\ \A c \in Callers : alone[c] =>
          /\ \A d \in Callers \ {c} : at[d] = "idle"
          /\ Faithful(c)

\* The steps of a request whose netsh calls nobody disturbs.
LEMMA FaithfulStep ==
    ASSUME TypeInv, NEW c \in Callers, Steps(c), Faithful(c)
    PROVE  Faithful(c)'
<1> USE DEF TypeInv, TypeOK, Progress
<1>1. CASE Delete(c)
  <2>1. PICK label : at' = [at EXCEPT ![c] = label]
        BY <1>1 DEF Delete, RunNetsh, Goto
  <2>2. CASE rules' = {} /\ label = NextCall(c, 0)
    <3>1. Prefix(want[c], 0) = {} /\ done[c] = 0
          BY <1>1, PrefixGrows DEF Delete
    <3>2. label = "set" => Len(PlanOf(want[c])) = 0
          BY <2>2, PlanIsSeq DEF NextCall
    <3>3. label \in {"add", "set"}
          BY <2>2 DEF NextCall
    <3> QED BY <1>1, <2>1, <2>2, <3>1, <3>2, <3>3
            DEF Delete, Faithful, AllRules, Prefix, PlanOf
  <2>3. CASE label = "fail"
        BY <1>1, <2>1, <2>3 DEF Delete, Faithful
  <2> QED BY <1>1, <2>1, <2>2, <2>3 DEF Delete, RunNetsh, Goto
<1>2. CASE Add(c)
  <2>1. PICK label : at' = [at EXCEPT ![c] = label]
        BY <1>2 DEF Add, RunNetsh, Goto
  <2>2. CASE /\ rules' = rules \cup {PlanOf(want[c])[done[c] + 1]}
             /\ label = NextCall(c, done[c] + 1)
    <3>1. rules' = Prefix(want[c], done[c] + 1)
          BY <1>2, <2>2, PrefixGrows DEF Add, Faithful
    <3>2. /\ label \in {"add", "set"}
          /\ label = "set" => done[c] + 1 = Len(PlanOf(want[c]))
          BY <1>2, <2>2, PlanIsSeq DEF NextCall, Add
    <3> QED BY <1>2, <2>1, <3>1, <3>2 DEF Add, Faithful, AllRules, Prefix, PlanOf
  <2>3. CASE label = "fail"
        BY <1>2, <2>1, <2>3 DEF Add, Faithful
  <2> QED BY <1>2, <2>1, <2>2, <2>3 DEF Add, RunNetsh, Goto
<1>3. CASE Set(c)
  <2>1. /\ at'[c] = "reply" /\ rules = AllRules(want[c])
        /\ group' = group /\ rules' = rules /\ want' = want
        BY <1>3 DEF Set, Goto, Faithful
  <2>2. enabled' = (want[c] # Nothing)
        BY <1>3 DEF Set
  <2>3. want[c] # Nothing => current' = want[c]
        BY <1>3 DEF Set
  <2>4. AllRules(want[c])' = AllRules(want[c])
        BY <2>1 DEF AllRules, Prefix, PlanOf
  <2> QED BY <2>1, <2>2, <2>3, <2>4 DEF Faithful
<1>4. CASE Reply(c)
      BY <1>4 DEF Reply, Goto, Faithful
<1> QED BY <1>1, <1>2, <1>3, <1>4 DEF Steps

\* Alone stays alone until another request begins or the engine is killed.
LEMMA LoneStep == LoneInv /\ [Next]_vars => LoneInv'
<1> SUFFICES ASSUME LoneInv, [Next]_vars PROVE LoneInv'
    OBVIOUS
<1>1. TypeInv /\ TypeInv'
      BY TypeStep DEF LoneInv
<1> USE DEF LoneInv
<1>2. CASE UNCHANGED vars
      BY <1>1, <1>2 DEF vars, Faithful, AllRules, Prefix, PlanOf
<1>3. ASSUME NEW c \in Callers, Refuse(c) PROVE LoneInv'
      BY <1>1, <1>3 DEF Refuse, Faithful, AllRules, Prefix, PlanOf
<1>4. ASSUME NEW c \in Callers, NEW r, Begin(c, r) PROVE LoneInv'
  <2>1. at'[c] = "del"
        BY <1>1, <1>4 DEF Begin, Goto, TypeInv, TypeOK
  <2>2. \A d \in Callers : alone'[d] => d = c /\ AllIdle
        BY <1>4 DEF Begin
  <2>3. AllIdle => \A d \in Callers \ {c} : at'[d] = "idle"
        BY <1>1, <1>4 DEF Begin, Goto, AllIdle, TypeInv, TypeOK
  <2> QED BY <1>1, <2>1, <2>2, <2>3 DEF Faithful
<1>5. ASSUME NEW c \in Callers, Steps(c) PROVE LoneInv'
  <2>1. /\ at[c] # "idle"
        /\ alone' = alone
        /\ \A d \in Callers \ {c} : at'[d] = at[d]
        BY <1>1, <1>5 DEF Steps, Delete, Add, Set, Reply, RunNetsh, Goto,
                          TypeInv, TypeOK
  <2>2. \A d \in Callers : alone[d] => d = c
        BY <2>1
  <2>3. alone[c] => Faithful(c)'
        BY <1>1, <1>5, FaithfulStep
  <2> QED BY <1>1, <2>1, <2>2, <2>3
<1>6. ASSUME Kill PROVE LoneInv'
      BY <1>1, <1>6 DEF Kill
<1> QED BY <1>2, <1>3, <1>4, <1>5, <1>6 DEF Next, Apply, Clear

\* A request that met no other activity leaves exactly its rules and the status
\* it reports, whatever earlier failures and overlaps left behind.
THEOREM RgLoneRequest == Spec => LoneRequestTakesEffect
<1>1. Init => LoneInv
      BY TypeInit DEF Init, LoneInv
<1>2. LoneInv /\ [Next]_vars =>
        [\A c \in Callers :
           alone[c] /\ at[c] = "reply" /\ Reply(c) =>
             /\ rules' = AllRules(want[c])
             /\ enabled' = (want[c] # Nothing)
             /\ enabled' => current' = want[c]]_vars
      BY DEF LoneInv, Faithful, Reply
<1> QED BY <1>1, <1>2, LoneStep, PTL DEF Spec, LoneRequestTakesEffect

-----------------------------------------------------------------------------
(* Requests that do not overlap *)

\* Unless requests were mixed, at most one is running, and the firewall holds
\* what it has added so far.
UnmixedInv ==
    ~mixed =>
        /\ \A c, d \in Callers : at[c] # "idle" /\ at[d] # "idle" => c = d
        /\ OnePlanAtATime
        /\ \A c \in Callers : at[c] = "add" => rules = Prefix(want[c], done[c])

\* A step of a request that nobody overlaps leaves a first part of one plan, and
\* deleting the group alone makes any mixture one.
LEMMA UnmixedStep ==
    ASSUME LoneInv, UnmixedInv, [Next]_vars
    PROVE  UnmixedInv'
<1> SUFFICES ASSUME ~mixed' PROVE UnmixedInv'
    BY DEF UnmixedInv
<1>1. TypeInv /\ TypeInv'
      BY TypeStep DEF LoneInv
<1>2. group' = group /\ \A r : PlanOf(r)' = PlanOf(r)
      BY GroupFixed
<1> DEFINE Fit(set) == \E r \in Requests[group] \cup {Nothing} :
                          \E n \in 0..Len(PlanOf(r)) : set = Prefix(r, n)
           One == \A c, d \in Callers : at[c] # "idle" /\ at[d] # "idle" => c = d
           Added == \A c \in Callers :
                       at[c] = "add" => rules = Prefix(want[c], done[c])
<1>3. Fit({})
  <2>1. Prefix(Nothing, 0) = {} /\ 0 \in 0..Len(PlanOf(Nothing))
        BY <1>1, PrefixGrows, PlanIsSeq DEF TypeInv, TypeOK
  <2> QED BY <2>1
<1>4. ~mixed => Fit(rules) /\ One /\ Added
      BY DEF UnmixedInv, OnePlanAtATime
<1>5. \A r, n : Prefix(r, n)' = Prefix(r, n)
      BY <1>2 DEF Prefix
<1>6. SUFFICES Fit(rules') /\ One' /\ Added'
      BY <1>2, <1>5 DEF UnmixedInv, OnePlanAtATime
\* One request runs alone, and what it has added is what is there.
<1>7. ASSUME ~mixed, NEW c \in Callers, at[c] = "add"
      PROVE  /\ Prefix(want[c], done[c] + 1)
                   = rules \cup {PlanOf(want[c])[done[c] + 1]}
             /\ Fit(rules \cup {PlanOf(want[c])[done[c] + 1]})
  <2>1. Prefix(want[c], done[c] + 1) = rules \cup {PlanOf(want[c])[done[c] + 1]}
        BY <1>1, <1>4, <1>7, PrefixGrows DEF TypeInv, TypeOK
  <2>2. /\ done[c] + 1 \in 0..Len(PlanOf(want[c]))
        /\ want[c] \in Requests[group] \cup {Nothing}
        BY <1>1, <1>7, PlanIsSeq DEF TypeInv, TypeOK, Progress
  <2> QED BY <2>1, <2>2
<1>8. CASE UNCHANGED vars
      BY <1>4, <1>5, <1>8 DEF vars
<1>9. ASSUME NEW c \in Callers, Refuse(c) PROVE Fit(rules') /\ One' /\ Added'
      BY <1>4, <1>5, <1>9 DEF Refuse
<1>10. ASSUME NEW c \in Callers, NEW r, Begin(c, r)
       PROVE  Fit(rules') /\ One' /\ Added'
  <2>1. ~mixed /\ AllIdle /\ rules' = rules
        BY <1>1, <1>10 DEF Begin, TypeInv, TypeOK
  <2>2. at'[c] = "del" /\ \A d \in Callers \ {c} : at'[d] = "idle"
        BY <1>1, <1>10, <2>1 DEF Begin, Goto, AllIdle, TypeInv, TypeOK
  <2> QED BY <1>4, <2>1, <2>2
<1>11. ASSUME NEW c \in Callers, Steps(c), \A d \in Callers \ {c} : at[d] = "idle"
       PROVE  One' /\ \A d \in Callers \ {c} : at'[d] # "add"
       BY <1>1, <1>11 DEF Steps, Delete, Add, Set, Reply, RunNetsh, Goto,
                          TypeInv, TypeOK
<1>12. ASSUME NEW c \in Callers, Delete(c) PROVE Fit(rules') /\ One' /\ Added'
  <2>1. ~mixed \/ (rules' = {} /\ alone[c])
        BY <1>1, <1>12 DEF Delete, TypeInv, TypeOK
  <2>2. rules' = {} \/ (~mixed /\ rules' = rules)
        BY <1>12, <2>1 DEF Delete, RunNetsh
  <2>3. Fit(rules')
        BY <1>3, <1>4, <2>2
  <2>4. \A d \in Callers \ {c} : at[d] = "idle"
        BY <1>4, <1>12, <2>1 DEF Delete, LoneInv
  <2>5. One' /\ \A d \in Callers \ {c} : at'[d] # "add"
        BY <1>11, <1>12, <2>4 DEF Steps
  <2>6. at'[c] = "add" => rules' = {}
        BY <1>1, <1>12 DEF Delete, RunNetsh, Goto, TypeInv, TypeOK
  <2>7. want' = want /\ done' = done /\ done[c] = 0 /\ Prefix(want[c], 0) = {}
        BY <1>1, <1>12, PrefixGrows DEF Delete, TypeInv, Progress
  <2>8. Added'
        BY <1>5, <2>5, <2>6, <2>7
  <2> QED BY <2>3, <2>5, <2>8
<1>13. ASSUME NEW c \in Callers, Add(c) PROVE Fit(rules') /\ One' /\ Added'
  <2>1. ~mixed /\ at[c] = "add"
        BY <1>13 DEF Add
  <2>2. \A d \in Callers \ {c} : at[d] = "idle"
        BY <1>4, <2>1
  <2>3. One' /\ \A d \in Callers \ {c} : at'[d] # "add"
        BY <1>11, <1>13, <2>2 DEF Steps
  <2>4. /\ rules' \in {rules, rules \cup {PlanOf(want[c])[done[c] + 1]}}
        /\ at'[c] = "add" => rules' = rules \cup {PlanOf(want[c])[done[c] + 1]}
        /\ want' = want /\ done'[c] = done[c] + 1
        BY <1>1, <1>13 DEF Add, RunNetsh, Goto, NextCall, TypeInv, TypeOK
  <2>5. Added'
        BY <1>5, <1>7, <2>1, <2>3, <2>4
  <2>6. Fit(rules) /\ Fit(rules \cup {PlanOf(want[c])[done[c] + 1]})
        BY <1>4, <1>7, <2>1
  <2>7. Fit(rules')
    <3>1. CASE rules' = rules
          BY <2>6, <3>1
    <3>2. CASE rules' = rules \cup {PlanOf(want[c])[done[c] + 1]}
          BY <2>6, <3>2
    <3> QED BY <2>4, <3>1, <3>2
  <2> QED BY <2>3, <2>5, <2>7
<1>14. ASSUME NEW c \in Callers, Set(c) \/ Reply(c)
       PROVE  Fit(rules') /\ One' /\ Added'
  <2>1. ~mixed /\ rules' = rules /\ at'[c] # "add" /\ at[c] # "idle"
        BY <1>1, <1>14 DEF Set, Reply, Goto, TypeInv, TypeOK
  <2>2. \A d \in Callers \ {c} : at[d] = "idle"
        BY <1>4, <2>1
  <2>3. One' /\ \A d \in Callers \ {c} : at'[d] # "add"
        BY <1>11, <1>14, <2>2 DEF Steps
  <2> QED BY <1>4, <2>1, <2>3
<1>15. ASSUME Kill PROVE Fit(rules') /\ One' /\ Added'
  <2>1. ~mixed /\ \A c \in Callers : at'[c] = "idle"
        BY <1>15 DEF Kill
  <2>2. PICK wiped \in {FALSE, \E c \in Callers : at[c] = "del"},
             late \in SUBSET {c \in Callers : at[c] = "add"} :
           rules' = (IF wiped THEN {} ELSE rules)
                       \cup {PlanOf(want[c])[done[c] + 1] : c \in late}
        BY <1>15 DEF Kill
  <2>3. CASE late = {}
    <3>1. rules' \in {rules, {}}
          BY <2>2, <2>3
    <3> QED BY <1>3, <1>4, <2>1, <3>1
  <2>4. ASSUME NEW c \in late PROVE Fit(rules')
    <3>1. at[c] = "add" /\ c \in Callers
          OBVIOUS
    <3>2. \A d \in Callers : at[d] # "idle" => d = c
          BY <1>4, <2>1, <3>1
    <3>3. late = {c}
          BY <3>2
    <3>4. ~ \E d \in Callers : at[d] = "del"
          BY <3>1, <3>2
    <3>5. rules' = rules \cup {PlanOf(want[c])[done[c] + 1]}
          BY <2>2, <3>3, <3>4
    <3> QED BY <1>7, <2>1, <3>1, <3>5
  <2> QED BY <2>1, <2>3, <2>4
<1> HIDE DEF Fit, One, Added
<1> QED
    BY <1>8, <1>9, <1>10, <1>12, <1>13, <1>14, <1>15
    DEF Next, Apply, Clear, Steps

\* The firewall holds a first part of the rules of one request, also after failed
\* calls and kills, except between two requests that overlapped and the next
\* deletion by a request that runs alone.
THEOREM OnePlan == Spec => []OnePlanAtATime
<1>1. Init => LoneInv /\ UnmixedInv
  <2> SUFFICES ASSUME Init PROVE LoneInv /\ UnmixedInv
      OBVIOUS
  <2>1. LoneInv
        BY TypeInit DEF Init, LoneInv
  <2>2. OnePlanAtATime
    <3>1. Prefix(Nothing, 0) = {} /\ 0 \in 0..Len(PlanOf(Nothing))
          BY PrefixGrows, PlanIsSeq DEF Init
    <3> QED BY <3>1 DEF Init, OnePlanAtATime
  <2> QED BY <2>1, <2>2 DEF Init, UnmixedInv
<1>2. UnmixedInv => OnePlanAtATime
      BY DEF UnmixedInv, OnePlanAtATime
<1> QED BY <1>1, <1>2, LoneStep, UnmixedStep, PTL DEF Spec

-----------------------------------------------------------------------------
(* The rules of DNS enforcement *)

\* A list of servers has no more entries left than it had.
LEMMA CleanedIsList ==
    ASSUME NEW servers \in DnsLists
    PROVE  /\ Len(Cleaned(servers)) \in Nat
           /\ DOMAIN Cleaned(servers) = 1..Len(Cleaned(servers))
<1>1. PICK n \in 0..MaxServers : servers \in [1..n -> Ips \cup {Blank, Bad}]
      BY DEF DnsLists
<1>2. n \in Nat
      BY DnsAssumption
<1>3. servers \in Seq(Ips \cup {Blank, Bad})
      BY <1>1, <1>2
<1>4. {i \in DOMAIN servers : servers[i] # Blank} \in SUBSET DOMAIN servers
      OBVIOUS
<1>5. Cleaned(servers) \in Seq(Ips \cup {Blank, Bad})
      BY <1>3, <1>4, FilterProperties DEF Cleaned
<1> QED BY <1>5

\* A plan lets the servers through before it blocks anything.
LEMMA AllowsComeFirst ==
    ASSUME NEW servers \in DnsLists
    PROVE  LET n == Len(Cleaned(servers))
               plan == DnsPlanOf(servers)
           IN  /\ DOMAIN plan = 1..(2 * n + 2) /\ Len(plan) = 2 * n + 2
               /\ \A p : \A i \in 1..(2 * n) : plan[i] # Block(p)
               /\ \A j \in 1..n :
                     /\ plan[2 * j - 1] = Allow(Cleaned(servers)[j], "UDP")
                     /\ plan[2 * j] = Allow(Cleaned(servers)[j], "TCP")
<1> DEFINE ips == Cleaned(servers)
           n == Len(ips)
           plan == DnsPlanOf(servers)
<1>1. n \in Nat
      BY CleanedIsList
<1>2. plan = [i \in 1..(2 * n + 2) |->
                IF i <= 2 * n
                THEN Allow(ips[(i + 1) \div 2], IF i % 2 = 1 THEN "UDP" ELSE "TCP")
                ELSE Block(IF i % 2 = 1 THEN "UDP" ELSE "TCP")]
      BY DEF DnsPlanOf
<1> HIDE DEF plan, n
<1>3. DOMAIN plan = 1..(2 * n + 2)
      BY <1>2
<1>4. Len(plan) = 2 * n + 2
      BY <1>1, <1>2
<1>5. ASSUME NEW p, NEW i \in 1..(2 * n) PROVE plan[i] # Block(p)
  <2>1. i \in 1..(2 * n + 2) /\ i <= 2 * n
        BY <1>1
  <2>2. PICK ip, q : plan[i] = Allow(ip, q)
        BY <1>2, <2>1
  <2>3. Allow(ip, q) # Block(p)
    <3>1. Allow(ip, q).allow # Block(p).allow
          BY DEF Allow, Block
    <3> QED BY <3>1
  <2> QED BY <2>2, <2>3
<1>6. ASSUME NEW j \in 1..n
      PROVE  /\ plan[2 * j - 1] = Allow(ips[j], "UDP")
             /\ plan[2 * j] = Allow(ips[j], "TCP")
  <2>1. /\ 2 * j - 1 \in 1..(2 * n + 2) /\ 2 * j - 1 <= 2 * n
        /\ 2 * j \in 1..(2 * n + 2) /\ 2 * j <= 2 * n
        BY <1>1
  <2>2. /\ (2 * j - 1) % 2 = 1 /\ (2 * j) % 2 = 0
        /\ (2 * j - 1 + 1) \div 2 = j /\ (2 * j + 1) \div 2 = j
        BY <1>1
  <2> HIDE DEF ips
  <2> QED BY <1>2, <2>1, <2>2
<1> QED BY <1>3, <1>4, <1>5, <1>6 DEF plan, n

\* Whatever part of one plan the group holds, it does not only block.
LEMMA PlanNeverOnlyBlocks == TypeOK /\ OnePlanAtATime => NeverOnlyBlocked
<1> SUFFICES ASSUME TypeOK, OnePlanAtATime, group = "KavehDNS", ~mixed,
                    NEW p \in {"UDP", "TCP"}, Block(p) \in rules
             PROVE  \E servers \in DnsLists \ DnsRefused :
                       \A i \in DOMAIN Cleaned(servers) :
                          \A q \in {"UDP", "TCP"} :
                             Allow(Cleaned(servers)[i], q) \in rules
    BY DEF NeverOnlyBlocked
<1>1. PICK r \in Requests[group] \cup {Nothing} :
         \E n \in 0..Len(PlanOf(r)) : rules = Prefix(r, n)
      BY DEF OnePlanAtATime
<1>2. PICK n \in 0..Len(PlanOf(r)) : rules = Prefix(r, n)
      BY <1>1
<1>3. PICK i \in 1..n : PlanOf(r)[i] = Block(p)
      BY <1>2 DEF Prefix
<1>4. Len(PlanOf(r)) # 0
  <2>1. Len(PlanOf(r)) \in Nat
        BY PlanIsSeq DEF TypeOK
  <2> QED BY <1>2, <1>3, <2>1
<1>5. r # Nothing
      BY <1>4 DEF PlanOf
<1>6. r \in DnsLists /\ PlanOf(r) = DnsPlan[r]
      BY <1>5, DnsAssumption DEF PlanOf, TypeOK
<1>7. r \notin DnsRefused
      BY <1>4, <1>6 DEF DnsPlan
<1>8. PlanOf(r) = DnsPlanOf(r)
      BY <1>6, <1>7 DEF DnsPlan
<1> DEFINE L == Len(Cleaned(r))
<1>9. L \in Nat
      BY <1>6, CleanedIsList
<1>10. i > 2 * L /\ n <= 2 * L + 2 /\ n \in Nat
  <2>1. Len(PlanOf(r)) = 2 * L + 2
        BY <1>6, <1>8, AllowsComeFirst
  <2>2. i \notin 1..(2 * L)
        BY <1>3, <1>6, <1>8, AllowsComeFirst
  <2> HIDE DEF L
  <2> QED BY <1>2, <1>9, <2>1, <2>2
<1>11. ASSUME NEW j \in DOMAIN Cleaned(r), NEW q \in {"UDP", "TCP"}
       PROVE  Allow(Cleaned(r)[j], q) \in rules
  <2>1. j \in 1..L
        BY <1>6, CleanedIsList
  <2>2. /\ DnsPlanOf(r)[2 * j - 1] = Allow(Cleaned(r)[j], "UDP")
        /\ DnsPlanOf(r)[2 * j] = Allow(Cleaned(r)[j], "TCP")
        BY <1>6, <2>1, AllowsComeFirst
  <2>3. 2 * j - 1 \in 1..n /\ 2 * j \in 1..n
    <3> HIDE DEF L
    <3> QED BY <1>9, <1>10, <2>1
  <2>4. \A k \in 1..n : DnsPlanOf(r)[k] \in rules
        BY <1>2, <1>8 DEF Prefix
  <2> QED BY <2>2, <2>3, <2>4
<1> QED BY <1>6, <1>7, <1>11

\* Enforcement that fails half-way, is killed or is replaced by another request
\* never leaves the user with DNS blocked and no server let through, for lists
\* of any length, except after requests have overlapped (dns.Manager.Enforce).
THEOREM NeverOnlyBlockedAlways == Spec => []NeverOnlyBlocked
BY RgTypeCorrect, OnePlan, PlanNeverOnlyBlocks, PTL

HIDE DEF Labels

-----------------------------------------------------------------------------
(* Isolation *)

\* What a request or goroutine has still to enforce, and where it may be.
IsoPlaces ==
    /\ \A p \in sessions : handles[p] > 0
    /\ \A a \in Actors :
          /\ todo[a] \subseteq DOMAIN copy[a]
          /\ place[a] \notin {"block", "allow"} => todo[a] = {}
          /\ place[a] = "allow" => todo[a] # {}
          /\ place[a] \notin {"block", "allow", "stopped"} => ~erred[a]
          /\ place[a] \in (IF backend = "firewall"
                           THEN Places \ {"sessions"}
                           ELSE {"idle", "sessions", "stopped"})

\* A request that has met no other is the only one under way; and all have met
\* none unless some have since the last one that had not.
IsoLone ==
    /\ \A a, d \in Actors :
          single[a] /\ place[a] # "idle" /\ d # a => place[d] = "idle"
    /\ ~entangled => \A a \in Actors : place[a] # "idle" => single[a]

IsoPairs(P) == P \X {"block", "allow"}

\* Half-way through enforceFirewallRules, of one that has met no other: the
\* firewall has what the copy marks as enforced, and nothing else if no call
\* has failed.
IsoEnforcing ==
    \A a \in Actors : single[a] =>
        /\ place[a] \in {"apply", "delete", "block", "allow"} /\ a \in Appliers =>
              isoEnabled
        /\ place[a] \in {"block", "allow"} =>
              /\ \A p \in DOMAIN copy[a] \ todo[a] :
                    copy[a][p] => {<<p, "block">>, <<p, "allow">>} \subseteq isoGroup
              /\ erred[a] => faulty
        /\ place[a] = "block" /\ ~erred[a] =>
              isoGroup = IsoPairs(DOMAIN copy[a] \ todo[a])
        /\ place[a] = "allow" =>
              /\ <<Current(a), "block">> \in isoGroup
              /\ ~erred[a] => isoGroup = IsoPairs(DOMAIN copy[a] \ todo[a])
                                    \cup {<<Current(a), "block">>}

\* Half-way through Disable, of one that has met no other: isolation is off, and
\* the group is empty unless the call failed.
IsoDisabling ==
    backend = "firewall" =>
       \A a \in Actors : single[a] /\ place[a] \in {"clear", "stopped"} =>
          /\ ~isoEnabled
          /\ place[a] = "stopped" => IF erred[a] THEN faulty ELSE isoGroup = {}

\* With the driver: no handle is lost, and between the halves of Disable alone
\* the sessions are out of step with m.enabled.
IsoSessions ==
    backend = "windivert" /\ ~entangled =>
        /\ HandlesKept
        /\ (\A a \in Actors : place[a] # "stopped") =>
              EnforcedHolds /\ (~isoEnabled => sessions = {})
        /\ (\E a \in Actors : place[a] = "sessions") => ~isoEnabled

\* With the firewall, once nothing is under way.
IsoRest ==
    backend = "firewall" /\ ~entangled /\ Quiet => EnforcedHolds /\ SwitchHolds

IsoInv ==
    /\ IsoTypeOK
    /\ IsoPlaces
    /\ IsoLone
    /\ IsoEnforcing
    /\ IsoDisabling
    /\ IsoSessions
    /\ IsoRest


\* A list of rules, none of them enforced.
LEMMA UnenforcedList ==
    ASSUME NEW P \in SUBSET Pids
    PROVE  /\ Unenforced(P) \in RuleLists
           /\ DOMAIN Unenforced(P) = P
           /\ \A p \in P : ~Unenforced(P)[p]
<1>1. Unenforced(P) \in [P -> BOOLEAN]
  BY DEF Unenforced
<1>2. Unenforced(P) \in RuleLists
  BY <1>1 DEF RuleLists
<1> QED
  BY <1>2 DEF Unenforced

\* What a list of rules is.
LEMMA ListFacts ==
    ASSUME NEW r \in RuleLists
    PROVE  /\ DOMAIN r \in SUBSET Pids
           /\ r \in [DOMAIN r -> BOOLEAN]
<1>1. PICK P \in SUBSET Pids : r \in [P -> BOOLEAN]
  BY DEF RuleLists
<1> QED
  BY <1>1

LEMMA ListOf ==
    ASSUME NEW P \in SUBSET Pids, NEW r \in [P -> BOOLEAN]
    PROVE  r \in RuleLists
BY DEF RuleLists

\* A list of rules after one of them is done.
LEMMA OutcomeList ==
    ASSUME NEW r \in RuleLists, NEW p, NEW e \in BOOLEAN
    PROVE  /\ [r EXCEPT ![p] = e] \in RuleLists
           /\ DOMAIN [r EXCEPT ![p] = e] = DOMAIN r
           /\ p \in DOMAIN r => [r EXCEPT ![p] = e][p] = e
           /\ \A q \in DOMAIN r : q # p => [r EXCEPT ![p] = e][q] = r[q]
<1> DEFINE s == [r EXCEPT ![p] = e]
<1>1. /\ DOMAIN r \in SUBSET Pids
      /\ r \in [DOMAIN r -> BOOLEAN]
  BY ListFacts
<1>2. s \in [DOMAIN r -> BOOLEAN]
  BY <1>1
<1>3. s \in RuleLists
  BY <1>1, <1>2, ListOf
<1> QED
  BY <1>1, <1>3

LEMMA CurrentIn ==
    ASSUME NEW a, todo[a] # {}
    PROVE  Current(a) \in todo[a]
BY DEF Current

\* The engine starts with no rules and nothing under way.
LEMMA IsoInitInv == IsoInit => IsoInv
<1> SUFFICES ASSUME IsoInit PROVE IsoInv
  OBVIOUS
<1>1. Unenforced({}) \in RuleLists /\ DOMAIN Unenforced({}) = {}
  BY UnenforcedList
<1>2. IsoTypeOK
  <2>1. handles \in [Pids -> 0..MaxHandles]
    BY IsolationAssumption DEF IsoInit
  <2>2. copy \in [Actors -> RuleLists]
    BY <1>1 DEF IsoInit
  <2>3. place \in [Actors -> Places]
    BY DEF IsoInit, Places
  <2> QED
    BY <1>1, <2>1, <2>2, <2>3 DEF IsoInit, IsoTypeOK
<1>3. IsoPlaces
  BY DEF IsoInit, IsoPlaces, Places
<1>4. IsoLone /\ IsoEnforcing /\ IsoDisabling
  BY DEF IsoInit, IsoLone, IsoEnforcing, IsoDisabling
<1>5. HandlesKept /\ EnforcedHolds
  BY <1>1 DEF IsoInit, HandlesKept, EnforcedHolds
<1>6. SwitchHolds
  BY DEF IsoInit, SwitchHolds
<1> QED
  BY <1>2, <1>3, <1>4, <1>5, <1>6
  DEF IsoInv, IsoSessions, IsoRest, IsoInit

\* SetRules
LEMMA SetRulesType ==
    ASSUME IsoInv, NEW sent \in RuleLists, SetRules(sent)
    PROVE  IsoTypeOK'
<1> USE DEF IsoInv
<1>1. isoRules' \in RuleLists /\ claimed' \in SUBSET Pids
      /\ sessions' \in SUBSET Pids
  <2> DEFINE P == DOMAIN sent
  <2>1. P \in SUBSET Pids
    BY ListFacts
  <2>2. ASSUME NEW s \in SUBSET P
        PROVE  [p \in P |-> p \in s] \in RuleLists
    <3>1. [p \in P |-> p \in s] \in [P -> BOOLEAN]
      OBVIOUS
    <3> QED
      BY <2>1, <3>1, ListOf
  <2>3. CASE isoEnabled /\ backend = "windivert"
    <3>1. StartSessions(P, {}, Stopped)
      BY <2>3 DEF SetRules
    <3> HIDE DEF P
    <3>2. PICK s \in SUBSET P : /\ isoRules' = [p \in P |-> p \in s]
                               /\ sessions' = {} \cup s
                               /\ claimed' = {}
      BY <3>1 DEF StartSessions
    <3> QED
      BY <2>1, <2>2, <3>2
  <2>4. CASE ~(isoEnabled /\ backend = "windivert")
    <3>1. /\ isoRules' = sent /\ sessions' = sessions
          /\ claimed' = {p \in P : sent[p]}
      BY <2>4 DEF SetRules
    <3> HIDE DEF P
    <3> QED
      BY <2>1, <3>1 DEF IsoTypeOK
  <2> QED
    BY <2>3, <2>4
<1>2. handles' \in [Pids -> 0..MaxHandles]
  <2>1. ASSUME NEW p \in Pids
        PROVE  Stopped[p] \in 0..MaxHandles
    BY IsolationAssumption DEF Stopped, IsoTypeOK, IsoPlaces
  <2>2. CASE UNCHANGED handles
    BY <2>2 DEF IsoTypeOK
  <2>3. CASE StartSessions(DOMAIN sent, {}, Stopped)
    BY <2>1, <2>3, IsolationAssumption DEF StartSessions
  <2> QED
    BY <2>2, <2>3 DEF SetRules
<1>3. /\ place' \in [Actors -> Places]
      /\ single' \in [Actors -> BOOLEAN]
      /\ entangled' \in BOOLEAN
  BY DEF SetRules, Interfere, Enter, IsoTypeOK, Places, Quiet, Actors
<1> QED
  BY <1>1, <1>2, <1>3 DEF SetRules, IsoTypeOK

LEMMA SetRulesPlaces ==
    ASSUME IsoInv, NEW sent \in RuleLists, SetRules(sent)
    PROVE  IsoPlaces' /\ IsoLone'
<1> USE DEF IsoInv
<1>1. \A p \in sessions' : handles'[p] > 0
  <2>1. ASSUME NEW p \in Pids
        PROVE  Stopped[p] \in 0..MaxHandles
    BY IsolationAssumption DEF Stopped, IsoTypeOK, IsoPlaces
  <2>2. CASE UNCHANGED <<handles, sessions>>
    BY <2>2 DEF IsoPlaces
  <2>3. CASE StartSessions(DOMAIN sent, {}, Stopped)
    BY <2>1, <2>3, ListFacts, IsolationAssumption DEF StartSessions
  <2> QED
    BY <2>2, <2>3 DEF SetRules
<1>2. \A a \in Actors :
         \/ place'[a] = place[a]
         \/ /\ place[a] = "idle"
            /\ place'[a] = "apply" /\ backend = "firewall"
  BY DEF SetRules, Enter, Interfere, IsoTypeOK, Actors
<1>3. IsoPlaces'
  BY <1>1, <1>2 DEF SetRules, IsoPlaces, Places
<1>4. IsoLone'
  <2>1. CASE Quiet
    BY <2>1 DEF SetRules, Enter, Interfere, IsoTypeOK, IsoLone, Quiet, Actors
  <2>2. CASE ~Quiet
    BY <2>2 DEF SetRules, Enter, Interfere, IsoLone
  <2> QED
    BY <2>1, <2>2
<1> QED
  BY <1>3, <1>4

LEMMA SetRulesRest ==
    ASSUME IsoInv, NEW sent \in RuleLists, SetRules(sent)
    PROVE  IsoEnforcing' /\ IsoDisabling' /\ IsoSessions' /\ IsoRest'
<1> USE DEF IsoInv
<1>1. \A a \in Actors : single'[a] /\ place'[a] # "idle" =>
         /\ Quiet /\ place'[a] = "apply" /\ isoEnabled
  BY DEF SetRules, Enter, Interfere, IsoTypeOK, Quiet, Actors
<1>2. IsoEnforcing'
  BY <1>1 DEF SetRules, IsoEnforcing
<1>3. IsoDisabling'
  BY <1>1 DEF SetRules, IsoDisabling
<1>4. ~entangled' => ~entangled /\ Quiet
  BY DEF SetRules, Enter, Interfere, IsoTypeOK
<1>5. ~(isoEnabled /\ backend = "windivert") => EnforcedHolds'
  BY DEF SetRules, EnforcedHolds
<1>6. IsoSessions'
  <2> SUFFICES ASSUME backend = "windivert", ~entangled'
               PROVE  /\ HandlesKept'
                      /\ EnforcedHolds'
                      /\ ~isoEnabled' => sessions' = {}
                      /\ \A a \in Actors : place'[a] # "sessions"
    BY DEF IsoSessions, SetRules
  <2>1. \A a \in Actors : place'[a] = "idle" /\ place[a] = "idle"
    BY <1>4 DEF SetRules, Interfere, Quiet
  <2>2. HandlesKept /\ (~isoEnabled => sessions = {})
    BY <1>4, <2>1 DEF IsoSessions
  <2>3. CASE ~isoEnabled
    <3>1. HandlesKept'
      BY <2>2, <2>3 DEF SetRules, HandlesKept
    <3>2. EnforcedHolds'
      BY <1>5, <2>3
    <3> QED
      BY <2>1, <2>2, <2>3, <3>1, <3>2 DEF SetRules
  <2>4. CASE isoEnabled
    <3>1. \A p \in Pids : Stopped[p] = 0
      BY <2>2 DEF Stopped, HandlesKept
    <3>2. StartSessions(DOMAIN sent, {}, Stopped)
      BY <2>4 DEF SetRules
    <3>3. HandlesKept'
      BY <3>1, <3>2 DEF StartSessions, HandlesKept
    <3>4. EnforcedHolds'
      <4> SUFFICES ASSUME NEW p \in DOMAIN isoRules', isoRules'[p]
                   PROVE  p \in sessions' /\ handles'[p] > 0
        BY DEF EnforcedHolds, SetRules
      <4>1. p \in Pids /\ p \in sessions'
        BY <3>2, ListFacts DEF StartSessions
      <4> QED
        BY <3>1, <3>2, <4>1 DEF StartSessions
    <3> QED
      BY <2>1, <2>4, <3>3, <3>4 DEF SetRules
  <2> QED
    BY <2>3, <2>4 DEF IsoTypeOK
<1>7. IsoRest'
  <2> SUFFICES ASSUME backend = "firewall", ~entangled', Quiet'
               PROVE  EnforcedHolds' /\ SwitchHolds'
    BY DEF IsoRest, SetRules
  <2>1. ~isoEnabled
    BY DEF SetRules, Enter, Quiet, IsoTypeOK, Actors
  <2>2. SwitchHolds
    BY <1>4 DEF IsoRest
  <2>3. EnforcedHolds'
    BY <1>5, <2>1
  <2>4. SwitchHolds'
    BY <2>1, <2>2 DEF SetRules, SwitchHolds
  <2> QED
    BY <2>3, <2>4
<1> QED
  BY <1>2, <1>3, <1>6, <1>7

\* One that is under way and has met no other is the only one.
LEMMA Alone ==
    ASSUME IsoInv, NEW a \in Actors, place[a] # "idle"
    PROVE  /\ single[a] => \A d \in Actors : d # a => place[d] = "idle"
           /\ \A d \in Actors : d # a /\ single[d] => place[d] = "idle"
           /\ ~entangled => single[a]
BY DEF IsoInv, IsoLone

\* A step of a that does not leave it: what the others' conjuncts become.
LEMMA StepAlone ==
    ASSUME IsoInv, NEW a \in Actors, place[a] # "idle", NEW w \in Places,
           place' = [place EXCEPT ![a] = w],
           UNCHANGED <<single, entangled>>
    PROVE  /\ IsoLone'
           /\ \A d \in Actors : d # a /\ single'[d] => place'[d] = "idle"
           /\ place'[a] = w
           /\ ~entangled' => single[a]
BY DEF IsoInv, IsoLone, IsoTypeOK

\* A step after which a is idle.
LEMMA LeaveAlone ==
    ASSUME IsoInv, NEW a \in Actors, place[a] # "idle", Leave(a),
           ~entangled' => ~entangled \/ single[a]
    PROVE  /\ IsoLone'
           /\ \A d \in Actors : single'[d] => place'[d] = "idle"
           /\ place'[a] = "idle"
           /\ ~entangled' => Quiet' /\ single[a]
BY DEF IsoInv, IsoLone, IsoTypeOK, Leave, Quiet

\* What Leave leaves of types and places.
LEMMA LeavePlaces ==
    ASSUME IsoInv, NEW a \in Actors, Leave(a), UNCHANGED backend
    PROVE  /\ \A d \in Actors :
                /\ todo'[d] \subseteq DOMAIN copy'[d]
                /\ place'[d] \notin {"block", "allow"} => todo'[d] = {}
                /\ place'[d] = "allow" => todo'[d] # {}
                /\ place'[d] \notin {"block", "allow", "stopped"} => ~erred'[d]
                /\ place'[d] \in (IF backend' = "firewall"
                                  THEN Places \ {"sessions"}
                                  ELSE {"idle", "sessions", "stopped"})
           /\ place' \in [Actors -> Places]
           /\ copy' \in [Actors -> RuleLists]
           /\ todo' \in [Actors -> SUBSET Pids]
           /\ erred' \in [Actors -> BOOLEAN]
           /\ single' \in [Actors -> BOOLEAN]
<1>1. Unenforced({}) \in RuleLists
  BY UnenforcedList
<1> USE DEF IsoInv
<1>2. /\ place' \in [Actors -> Places]
      /\ copy' \in [Actors -> RuleLists]
      /\ todo' \in [Actors -> SUBSET Pids]
      /\ erred' \in [Actors -> BOOLEAN]
      /\ single' \in [Actors -> BOOLEAN]
  BY <1>1 DEF Leave, IsoTypeOK, Places
<1>3. ASSUME NEW d \in Actors
      PROVE   /\ todo'[d] \subseteq DOMAIN copy'[d]
              /\ place'[d] \notin {"block", "allow"} => todo'[d] = {}
              /\ place'[d] = "allow" => todo'[d] # {}
              /\ place'[d] \notin {"block", "allow", "stopped"} => ~erred'[d]
              /\ place'[d] \in (IF backend' = "firewall"
                                THEN Places \ {"sessions"}
                                ELSE {"idle", "sessions", "stopped"})
  <2>1. CASE d = a
    BY <2>1 DEF Leave, IsoTypeOK, Places
  <2>2. CASE d # a
    BY <2>2 DEF Leave, IsoTypeOK, IsoPlaces
  <2> QED
    BY <2>1, <2>2
<1> QED
  BY <1>2, <1>3

\* A step with which a sets out.
LEMMA EnterAlone ==
    ASSUME IsoInv, NEW a \in Actors, NEW w \in Places \ {"idle"},
           place[a] = "idle", Enter(a, w)
    PROVE  /\ IsoLone'
           /\ \A d \in Actors : single'[d] /\ place'[d] # "idle" =>
                 d = a /\ Quiet
           /\ place'[a] = w
           /\ \A d \in Actors : d # a => place'[d] = place[d]
           /\ ~entangled' => ~entangled /\ Quiet
           /\ ~Quiet'
           /\ place' \in [Actors -> Places]
           /\ single' \in [Actors -> BOOLEAN]
           /\ entangled' \in BOOLEAN
<1> USE DEF IsoInv
<1>1. /\ place' \in [Actors -> Places]
      /\ single' \in [Actors -> BOOLEAN]
      /\ entangled' \in BOOLEAN
      /\ place'[a] = w
      /\ \A d \in Actors : d # a => place'[d] = place[d]
      /\ \A d \in Actors : single'[d] = Quiet
  BY DEF Enter, IsoTypeOK, Quiet
<1>2. ~entangled' => ~entangled /\ Quiet
  BY DEF Enter
<1>3. ~Quiet'
  BY <1>1 DEF Quiet
<1>4. IsoLone'
  BY <1>1, <1>2 DEF IsoLone, Quiet
<1> QED
  BY <1>1, <1>2, <1>3, <1>4 DEF Quiet

\* The first half of Enable, and of Disable
LEMMA EnableInv ==
    ASSUME IsoInv, NEW c \in IsoClients, Enable(c)
    PROVE  IsoInv'
<1> DEFINE w == IF backend = "firewall" THEN "delete" ELSE "sessions"
<1> USE DEF IsoInv
<1>1. c \in Actors /\ c \notin Appliers /\ w \in Places \ {"idle"}
  BY IsolationAssumption DEF Actors, Places
<1>2. place[c] = "idle" /\ Enter(c, w)
  BY DEF Enable
<1> HIDE DEF w
<1>3. /\ IsoLone'
      /\ \A d \in Actors : single'[d] /\ place'[d] # "idle" =>
            d = c /\ Quiet
      /\ place'[c] = w
      /\ \A d \in Actors : d # c => place'[d] = place[d]
      /\ ~entangled' => ~entangled /\ Quiet
      /\ ~Quiet'
      /\ place' \in [Actors -> Places]
      /\ single' \in [Actors -> BOOLEAN]
      /\ entangled' \in BOOLEAN
  BY <1>1, <1>2, EnterAlone
<1>4. IsoTypeOK'
  <2>1. copy' \in [Actors -> RuleLists]
    BY <1>1 DEF Enable, IsoTypeOK
  <2> QED
    BY <1>3, <2>1 DEF Enable, IsoTypeOK
<1>5. IsoPlaces'
  BY <1>1, <1>2, <1>3 DEF Enable, IsoPlaces, IsoTypeOK, w, Places
<1>6. IsoEnforcing' /\ IsoDisabling'
  BY <1>1, <1>3 DEF w, IsoEnforcing, IsoDisabling
<1>7. IsoSessions'
  <2> SUFFICES ASSUME backend = "windivert", ~entangled'
               PROVE  /\ HandlesKept'
                      /\ EnforcedHolds'
                      /\ ~isoEnabled' => sessions' = {}
                      /\ ~isoEnabled'
    BY DEF IsoSessions, Enable
  <2>1. /\ HandlesKept /\ EnforcedHolds
        /\ ~isoEnabled => sessions = {}
    BY <1>3 DEF IsoSessions, Quiet
  <2> QED
    BY <2>1 DEF Enable, HandlesKept, EnforcedHolds
<1>8. IsoRest'
  BY <1>3 DEF IsoRest
<1> QED
  BY <1>3, <1>4, <1>5, <1>6, <1>7, <1>8

LEMMA DisableInv ==
    ASSUME IsoInv, NEW c \in IsoClients, Disable(c)
    PROVE  IsoInv'
<1> DEFINE w == IF backend = "firewall" THEN "clear" ELSE "stopped"
<1> USE DEF IsoInv
<1>1. c \in Actors /\ w \in Places \ {"idle"}
  BY DEF Actors, Places
<1>2. place[c] = "idle" /\ Enter(c, w)
  BY DEF Disable
<1> HIDE DEF w
<1>3. /\ IsoLone'
      /\ \A d \in Actors : single'[d] /\ place'[d] # "idle" =>
            d = c /\ Quiet
      /\ place'[c] = w
      /\ \A d \in Actors : d # c => place'[d] = place[d]
      /\ ~entangled' => ~entangled /\ Quiet
      /\ ~Quiet'
      /\ place' \in [Actors -> Places]
      /\ single' \in [Actors -> BOOLEAN]
      /\ entangled' \in BOOLEAN
  BY <1>1, <1>2, EnterAlone
<1>4. IsoTypeOK'
  BY <1>3 DEF Disable, IsoTypeOK
<1>5. IsoPlaces'
  BY <1>1, <1>2, <1>3 DEF Disable, IsoPlaces, IsoTypeOK, w, Places
<1>6. IsoEnforcing'
  BY <1>1, <1>3 DEF w, IsoEnforcing
<1>7. IsoDisabling'
  BY <1>1, <1>3 DEF Disable, w, IsoDisabling
<1>8. IsoSessions'
  <2> SUFFICES ASSUME backend = "windivert", ~entangled'
               PROVE  /\ HandlesKept'
                      /\ \E a \in Actors : place'[a] = "stopped"
                      /\ \A a \in Actors : place'[a] # "sessions"
    BY DEF IsoSessions, Disable
  <2>1. HandlesKept /\ Quiet
    BY <1>3 DEF IsoSessions
  <2>2. HandlesKept'
    BY <2>1 DEF Disable, HandlesKept
  <2> QED
    BY <1>1, <1>3, <2>1, <2>2 DEF Quiet, w
<1>9. IsoRest'
  BY <1>3 DEF IsoRest
<1> QED
  BY <1>3, <1>4, <1>5, <1>6, <1>7, <1>8, <1>9

\* The second half of Enable, with the driver
LEMMA EnableSessionsInv ==
    ASSUME IsoInv, NEW c \in IsoClients, EnableSessions(c)
    PROVE  IsoInv'
<1> USE DEF IsoInv
<1>1. c \in Actors /\ place[c] = "sessions" /\ place[c] # "idle"
      /\ Leave(c) /\ UNCHANGED <<backend, entangled>>
  BY DEF Actors, EnableSessions
<1>2. /\ IsoLone'
      /\ \A d \in Actors : single'[d] => place'[d] = "idle"
      /\ place'[c] = "idle"
      /\ ~entangled' => Quiet' /\ single[c]
  BY <1>1, LeaveAlone
<1>3. backend = "windivert"
  BY <1>1 DEF IsoPlaces, IsoTypeOK
<1>4. DOMAIN isoRules \in SUBSET Pids
  BY ListFacts DEF IsoTypeOK
<1>5. /\ isoRules' \in RuleLists
      /\ sessions' \in SUBSET Pids
      /\ handles' \in [Pids -> 0..MaxHandles]
      /\ isoEnabled' \in BOOLEAN
      /\ claimed' \in SUBSET Pids
      /\ \A p \in sessions' : handles'[p] > 0
  <2>1. CASE UNCHANGED <<isoRules, sessions, handles, isoEnabled, claimed>>
    BY <2>1 DEF IsoTypeOK, IsoPlaces
  <2>2. CASE /\ StartSessions(DOMAIN isoRules, sessions, handles)
             /\ isoEnabled' =
                   (isoEnabled \/ sessions' # {} \/ DOMAIN isoRules = {})
    <3>1. PICK started \in SUBSET DOMAIN isoRules :
             /\ \A p \in started : handles[p] < MaxHandles
             /\ sessions' = sessions \cup started
             /\ handles' = [p \in Pids |->
                   IF p \in started THEN handles[p] + 1 ELSE handles[p]]
             /\ isoRules' = [p \in DOMAIN isoRules |-> p \in started]
      BY <2>2 DEF StartSessions
    <3>2. isoRules' \in [DOMAIN isoRules -> BOOLEAN]
      BY <3>1
    <3>3. isoRules' \in RuleLists
      BY <1>4, <3>2, ListOf
    <3>4. handles' \in [Pids -> 0..MaxHandles]
      BY <3>1, IsolationAssumption DEF IsoTypeOK
    <3>5. \A p \in sessions' : handles'[p] > 0
      BY <1>4, <3>1, IsolationAssumption DEF IsoTypeOK, IsoPlaces
    <3> QED
      BY <1>4, <2>2, <3>1, <3>3, <3>4, <3>5 DEF IsoTypeOK, StartSessions
  <2> QED
    BY <2>1, <2>2 DEF EnableSessions
<1>6. IsoTypeOK' /\ IsoPlaces'
  BY <1>1, <1>5, LeavePlaces DEF EnableSessions, IsoTypeOK, IsoPlaces
<1>7. IsoEnforcing' /\ IsoDisabling'
  BY <1>2 DEF IsoEnforcing, IsoDisabling
<1>8. IsoSessions'
  <2> SUFFICES ASSUME ~entangled'
               PROVE  /\ HandlesKept'
                      /\ EnforcedHolds'
                      /\ ~isoEnabled' => sessions' = {}
                      /\ \A a \in Actors : place'[a] # "sessions"
    BY DEF IsoSessions
  <2>1. \A a \in Actors : place'[a] = "idle"
    BY <1>2 DEF Quiet
  <2>2. \A a \in Actors : place[a] # "stopped"
    BY <1>1, <1>2, Alone
  <2>3. HandlesKept /\ EnforcedHolds /\ ~isoEnabled /\ sessions = {}
    BY <1>1, <1>3, <2>2 DEF IsoSessions
  <2>4. CASE UNCHANGED <<isoRules, sessions, handles, isoEnabled, claimed>>
    BY <1>3, <2>1, <2>3, <2>4 DEF HandlesKept, EnforcedHolds, EnableSessions
  <2>5. CASE /\ StartSessions(DOMAIN isoRules, sessions, handles)
             /\ isoEnabled' =
                   (isoEnabled \/ sessions' # {} \/ DOMAIN isoRules = {})
    <3>1. HandlesKept'
      BY <1>4, <2>3, <2>5 DEF StartSessions, HandlesKept
    <3>2. EnforcedHolds'
      <4> SUFFICES ASSUME NEW p \in DOMAIN isoRules', isoRules'[p]
                   PROVE  p \in sessions' /\ handles'[p] > 0
        BY <1>1, <1>3 DEF EnforcedHolds
      <4>1. p \in sessions'
        BY <2>5 DEF StartSessions
      <4> QED
        BY <1>5, <4>1
    <3> QED
      BY <2>1, <2>5, <3>1, <3>2
  <2> QED
    BY <2>4, <2>5 DEF EnableSessions
<1>9. IsoRest'
  BY <1>1, <1>3 DEF IsoRest
<1> QED
  BY <1>2, <1>6, <1>7, <1>8, <1>9

\* The call of netsh in Disable, and its second half
LEMMA DisableClearInv ==
    ASSUME IsoInv, NEW c \in IsoClients, DisableClear(c)
    PROVE  IsoInv'
<1> USE DEF IsoInv
<1>1. /\ c \in Actors /\ place[c] = "clear" /\ place[c] # "idle"
      /\ "stopped" \in Places
      /\ place' = [place EXCEPT ![c] = "stopped"]
      /\ UNCHANGED <<backend, single, entangled>>
  BY DEF Actors, DisableClear, Places
<1>2. /\ IsoLone'
      /\ \A d \in Actors : d # c /\ single'[d] => place'[d] = "idle"
      /\ place'[c] = "stopped"
      /\ ~entangled' => single[c]
  BY <1>1, StepAlone
<1>3. backend = "firewall"
  BY <1>1 DEF IsoPlaces, IsoTypeOK
<1>4. PICK failed \in BOOLEAN :
         /\ ~failed => isoGroup' = {}
         /\ erred' = [erred EXCEPT ![c] = failed]
         /\ faulty' = (faulty \/ failed)
  BY DEF DisableClear
<1>5. IsoTypeOK'
  <2>1. /\ place' \in [Actors -> Places]
        /\ erred' \in [Actors -> BOOLEAN]
        /\ faulty' \in BOOLEAN
        /\ isoGroup' \subseteq Pids \X {"block", "allow"}
    BY <1>1, <1>4 DEF DisableClear, IsoTypeOK
  <2> QED
    BY <2>1 DEF DisableClear, IsoTypeOK
<1>6. IsoPlaces'
  BY <1>1, <1>4 DEF DisableClear, IsoPlaces, IsoTypeOK, Places
<1>7. IsoEnforcing'
  BY <1>1, <1>2 DEF IsoEnforcing
<1>8. IsoDisabling'
  <2> SUFFICES ASSUME NEW a \in Actors, single'[a],
                      place'[a] \in {"clear", "stopped"}
               PROVE  /\ ~isoEnabled'
                      /\ IF erred'[a] THEN faulty' ELSE isoGroup' = {}
    BY DEF IsoDisabling
  <2>1. a = c /\ single[c]
    BY <1>1, <1>2
  <2>2. ~isoEnabled
    BY <1>1, <1>3, <2>1 DEF IsoDisabling
  <2>3. erred'[c] = failed
    BY <1>1, <1>4 DEF IsoTypeOK
  <2> QED
    BY <1>4, <2>1, <2>2, <2>3 DEF DisableClear
<1>9. IsoSessions' /\ IsoRest'
  BY <1>1, <1>2, <1>3 DEF IsoSessions, IsoRest, Quiet
<1> QED
  BY <1>2, <1>5, <1>6, <1>7, <1>8, <1>9

LEMMA DisableEndsInv ==
    ASSUME IsoInv, NEW c \in IsoClients, DisableEnds(c)
    PROVE  IsoInv'
<1> USE DEF IsoInv
<1>1. /\ c \in Actors /\ place[c] = "stopped" /\ place[c] # "idle"
      /\ Leave(c) /\ UNCHANGED <<backend, isoEnabled, isoGroup>>
      /\ ~entangled' => ~entangled \/ single[c]
  BY DEF Actors, DisableEnds
<1>2. /\ IsoLone'
      /\ \A d \in Actors : single'[d] => place'[d] = "idle"
      /\ place'[c] = "idle"
      /\ ~entangled' => Quiet' /\ single[c]
  BY <1>1, LeaveAlone
<1>3. /\ DOMAIN isoRules \in SUBSET Pids
      /\ Unenforced(DOMAIN isoRules) \in RuleLists
      /\ \A p \in DOMAIN isoRules' : ~isoRules'[p]
      /\ DOMAIN isoRules' = DOMAIN isoRules
  BY ListFacts, UnenforcedList DEF IsoTypeOK, DisableEnds
<1>4. IsoTypeOK' /\ IsoPlaces'
  <2>1. handles' \in [Pids -> 0..MaxHandles]
    BY IsolationAssumption DEF DisableEnds, Stopped, IsoTypeOK, IsoPlaces
  <2>2. sessions' = {} /\ isoRules' \in RuleLists /\ claimed' = {}
        /\ entangled' \in BOOLEAN /\ faulty' \in BOOLEAN
    BY <1>3 DEF DisableEnds, IsoTypeOK
  <2> QED
    BY <1>1, <2>1, <2>2, LeavePlaces DEF IsoTypeOK, IsoPlaces
<1>5. IsoEnforcing' /\ IsoDisabling'
  BY <1>2 DEF IsoEnforcing, IsoDisabling
<1>6. EnforcedHolds'
  BY <1>3 DEF EnforcedHolds
<1>7. IsoSessions'
  <2> SUFFICES ASSUME backend = "windivert", ~entangled'
               PROVE  /\ HandlesKept'
                      /\ ~isoEnabled' => sessions' = {}
                      /\ \A a \in Actors : place'[a] # "sessions"
    BY <1>1, <1>6 DEF IsoSessions
  <2>1. HandlesKept
    BY DEF IsoSessions, DisableEnds
  <2>2. HandlesKept'
    BY <2>1 DEF DisableEnds, Stopped, HandlesKept
  <2> QED
    BY <1>2, <2>2 DEF DisableEnds, Quiet
<1>8. IsoRest'
  <2> SUFFICES ASSUME backend = "firewall", ~entangled', Quiet'
               PROVE  SwitchHolds'
    BY <1>1, <1>6 DEF IsoRest
  <2>1. single[c]
    BY <1>2
  <2>2. ~isoEnabled /\ IF erred[c] THEN faulty ELSE isoGroup = {}
    BY <1>1, <2>1 DEF IsoDisabling
  <2>3. ~faulty' => isoGroup = {}
    BY <2>1, <2>2 DEF DisableEnds, IsoTypeOK
  <2> QED
    BY <1>1, <2>2, <2>3 DEF SwitchHolds
<1> QED
  BY <1>2, <1>4, <1>5, <1>7, <1>8

\* The goroutine of SetRules
LEMMA ApplyBeginsInv ==
    ASSUME IsoInv, NEW g \in Appliers, ApplyBegins(g)
    PROVE  IsoInv'
<1> USE DEF IsoInv
<1>1. g \in Actors /\ place[g] = "apply" /\ place[g] # "idle"
      /\ UNCHANGED <<backend, isoEnabled, isoRules, sessions, handles,
                     isoGroup, claimed, entangled, faulty>>
  BY DEF Actors, ApplyBegins
<1>2. backend = "firewall"
  BY <1>1 DEF IsoPlaces, IsoTypeOK
<1>3. CASE isoEnabled
  <2>1. /\ "delete" \in Places
        /\ place' = [place EXCEPT ![g] = "delete"]
        /\ copy' = [copy EXCEPT ![g] = isoRules]
        /\ UNCHANGED <<todo, erred, single>>
    BY <1>3 DEF ApplyBegins, Places
  <2>2. /\ IsoLone'
        /\ \A d \in Actors : d # g /\ single'[d] => place'[d] = "idle"
        /\ place'[g] = "delete"
        /\ ~entangled' => single[g]
    BY <1>1, <2>1, StepAlone
  <2>3. IsoTypeOK'
    BY <1>1, <2>1 DEF IsoTypeOK
  <2>4. IsoPlaces'
    BY <1>1, <1>2, <2>1 DEF IsoPlaces, IsoTypeOK, Places
  <2>5. IsoEnforcing' /\ IsoDisabling'
    BY <1>1, <1>3, <2>2 DEF IsoEnforcing, IsoDisabling
  <2>6. IsoSessions' /\ IsoRest'
    BY <1>1, <1>2, <2>2 DEF IsoSessions, IsoRest, Quiet
  <2> QED
    BY <2>2, <2>3, <2>4, <2>5, <2>6
<1>4. CASE ~isoEnabled
  <2>1. Leave(g)
    BY <1>4 DEF ApplyBegins
  <2>2. /\ IsoLone'
        /\ \A d \in Actors : single'[d] => place'[d] = "idle"
        /\ place'[g] = "idle"
        /\ ~entangled' => Quiet' /\ single[g]
    BY <1>1, <2>1, LeaveAlone
  <2>3. IsoTypeOK' /\ IsoPlaces'
    BY <1>1, <2>1, LeavePlaces DEF IsoTypeOK, IsoPlaces
  <2>4. IsoEnforcing' /\ IsoDisabling'
    BY <2>2 DEF IsoEnforcing, IsoDisabling
  <2>5. IsoSessions' /\ IsoRest'
    <3>1. ~entangled => isoEnabled
      BY <1>1, <2>2 DEF IsoEnforcing
    <3> QED
      BY <1>1, <1>2, <1>4, <3>1 DEF IsoSessions, IsoRest
  <2> QED
    BY <2>2, <2>3, <2>4, <2>5
<1> QED
  BY <1>3, <1>4 DEF IsoTypeOK

\* The rest of a step of enforceFirewallRules follows from what it leaves of a.
LEMMA EnforceStep ==
    ASSUME IsoInv, NEW a \in Actors, NEW w \in {"block", "allow"},
           place[a] \in {"delete", "block", "allow"},
           place' = [place EXCEPT ![a] = w],
           UNCHANGED <<backend, isoEnabled, single, entangled>>
    PROVE  /\ IsoLone' /\ IsoDisabling' /\ IsoSessions' /\ IsoRest'
           /\ place' \in [Actors -> Places]
           /\ backend = "firewall"
           /\ \A d \in Actors :
                 single'[d] /\ place'[d] # "idle" => d = a /\ single[a]
           /\ single[a] /\ a \in Appliers => isoEnabled
           /\ place'[a] = w
<1> USE DEF IsoInv
<1>1. place[a] # "idle" /\ w \in Places
  BY DEF Places
<1>2. /\ IsoLone'
      /\ \A d \in Actors : d # a /\ single'[d] => place'[d] = "idle"
      /\ place'[a] = w
      /\ ~entangled' => single[a]
  BY <1>1, StepAlone
<1>3. backend = "firewall"
  BY DEF IsoPlaces, IsoTypeOK
<1>4. IsoDisabling' /\ IsoSessions' /\ IsoRest'
  BY <1>2, <1>3 DEF IsoDisabling, IsoSessions, IsoRest, Quiet
<1>5. single[a] /\ a \in Appliers => isoEnabled
  BY DEF IsoEnforcing
<1>6. place' \in [Actors -> Places]
  BY <1>1 DEF IsoTypeOK
<1> QED
  BY <1>2, <1>3, <1>4, <1>5, <1>6

\* The steps of enforceFirewallRules, by Enable or the goroutine
LEMMA EnforceDeleteInv ==
    ASSUME IsoInv, NEW a \in Actors, EnforceDelete(a)
    PROVE  IsoInv'
<1> USE DEF IsoInv
<1>1. /\ place[a] \in {"delete", "block", "allow"}
      /\ place' = [place EXCEPT ![a] = "block"]
      /\ UNCHANGED <<backend, isoEnabled, isoRules, sessions, handles, single,
                     claimed, entangled>>
      /\ place[a] = "delete"
  BY DEF EnforceDelete
<1>2. /\ IsoLone' /\ IsoDisabling' /\ IsoSessions' /\ IsoRest'
      /\ place' \in [Actors -> Places]
      /\ backend = "firewall"
      /\ \A d \in Actors :
            single'[d] /\ place'[d] # "idle" => d = a /\ single[a]
      /\ single[a] /\ a \in Appliers => isoEnabled
      /\ place'[a] = "block"
  BY <1>1, EnforceStep
<1>3. ~erred[a] /\ todo[a] = {}
  BY <1>1 DEF IsoPlaces
<1>4. DOMAIN copy[a] \in SUBSET Pids
  BY ListFacts DEF IsoTypeOK
<1>5. CASE /\ isoGroup' = {}
           /\ todo' = [todo EXCEPT ![a] = DOMAIN copy[a]]
           /\ UNCHANGED <<copy, erred, faulty>>
  <2>1. IsoTypeOK'
    BY <1>1, <1>2, <1>4, <1>5 DEF IsoTypeOK
  <2>2. IsoPlaces'
    BY <1>1, <1>2, <1>5 DEF IsoPlaces, IsoTypeOK, Places
  <2>3. IsoPairs({}) = {}
    BY DEF IsoPairs
  <2>4. DOMAIN copy'[a] \ todo'[a] = {} /\ ~erred'[a]
    BY <1>3, <1>5 DEF IsoTypeOK
  <2>5. IsoEnforcing'
    BY <1>1, <1>2, <1>5, <2>3, <2>4 DEF IsoEnforcing
  <2> QED
    BY <1>2, <2>1, <2>2, <2>5
<1>6. CASE /\ isoGroup' \in {isoGroup, {}}
           /\ copy' = [copy EXCEPT ![a] = Unenforced(DOMAIN copy[a])]
           /\ erred' = [erred EXCEPT ![a] = TRUE]
           /\ faulty' = TRUE
           /\ UNCHANGED todo
  <2>1. /\ copy'[a] \in RuleLists
        /\ DOMAIN copy'[a] = DOMAIN copy[a]
        /\ \A p \in DOMAIN copy'[a] : ~copy'[a][p]
    BY <1>4, <1>6, UnenforcedList DEF IsoTypeOK
  <2>2. IsoTypeOK'
    <3>1. copy' \in [Actors -> RuleLists]
      BY <1>6, <2>1 DEF IsoTypeOK
    <3>2. erred' \in [Actors -> BOOLEAN] /\ faulty' \in BOOLEAN
          /\ isoGroup' \subseteq Pids \X {"block", "allow"}
      BY <1>6 DEF IsoTypeOK
    <3> QED
      BY <1>1, <1>2, <1>6, <3>1, <3>2 DEF IsoTypeOK
  <2>3. IsoPlaces'
    BY <1>1, <1>2, <1>3, <1>6 DEF IsoPlaces, IsoTypeOK, Places
  <2>4. erred'[a]
    BY <1>6 DEF IsoTypeOK
  <2>5. IsoEnforcing'
    BY <1>1, <1>2, <1>6, <2>1, <2>4 DEF IsoEnforcing
  <2> QED
    BY <1>2, <2>2, <2>3, <2>5
<1> QED
  BY <1>5, <1>6 DEF EnforceDelete

\* What Outcome makes of the copy, the rest to do, and the errors.
LEMMA OutcomeFacts ==
    ASSUME IsoInv, NEW a \in Actors, NEW p \in todo[a], NEW e \in BOOLEAN,
           Outcome(a, p, e)
    PROVE  /\ copy' \in [Actors -> RuleLists]
           /\ todo' \in [Actors -> SUBSET Pids]
           /\ erred' \in [Actors -> BOOLEAN]
           /\ faulty' \in BOOLEAN
           /\ place' = [place EXCEPT ![a] = "block"]
           /\ DOMAIN copy'[a] = DOMAIN copy[a]
           /\ p \in DOMAIN copy[a] /\ p \in Pids
           /\ copy'[a][p] = e
           /\ \A q \in DOMAIN copy[a] : q # p => copy'[a][q] = copy[a][q]
           /\ todo'[a] = todo[a] \ {p}
           /\ erred'[a] = (erred[a] \/ ~e)
           /\ faulty' = (faulty \/ ~e)
           /\ \A d \in Actors : d # a =>
                 copy'[d] = copy[d] /\ todo'[d] = todo[d] /\ erred'[d] = erred[d]
<1> USE DEF IsoInv
<1>1. copy[a] \in RuleLists /\ p \in DOMAIN copy[a] /\ p \in Pids
  BY DEF IsoTypeOK, IsoPlaces
<1> DEFINE s == [copy[a] EXCEPT ![p] = e]
<1>2. /\ s \in RuleLists
      /\ DOMAIN s = DOMAIN copy[a]
      /\ s[p] = e
      /\ \A q \in DOMAIN copy[a] : q # p => s[q] = copy[a][q]
  BY <1>1, OutcomeList
<1>3. copy' = [copy EXCEPT ![a] = s]
  BY DEF Outcome
<1> HIDE DEF s
<1>4. /\ copy' \in [Actors -> RuleLists]
      /\ copy'[a] = s
      /\ \A d \in Actors : d # a => copy'[d] = copy[d]
  BY <1>2, <1>3 DEF IsoTypeOK
<1>5. /\ todo' \in [Actors -> SUBSET Pids]
      /\ todo'[a] = todo[a] \ {p}
      /\ \A d \in Actors : d # a => todo'[d] = todo[d]
  BY DEF Outcome, IsoTypeOK
<1>6. /\ erred' \in [Actors -> BOOLEAN]
      /\ erred'[a] = (erred[a] \/ ~e)
      /\ \A d \in Actors : d # a => erred'[d] = erred[d]
      /\ faulty' \in BOOLEAN
  BY DEF Outcome, IsoTypeOK
<1> QED
  BY <1>1, <1>2, <1>4, <1>5, <1>6 DEF Outcome

\* What is typed and placed after a rule is done, for the block and the allow.
LEMMA OutcomeStep ==
    ASSUME IsoInv, NEW a \in Actors, NEW p \in todo[a], NEW e \in BOOLEAN,
           place[a] \in {"block", "allow"},
           Outcome(a, p, e),
           isoGroup' \subseteq Pids \X {"block", "allow"},
           UNCHANGED <<backend, isoEnabled, isoRules, sessions, handles, single,
                       claimed, entangled>>
    PROVE  IsoTypeOK' /\ IsoPlaces'
<1> USE DEF IsoInv
<1>1. /\ copy' \in [Actors -> RuleLists]
      /\ todo' \in [Actors -> SUBSET Pids]
      /\ erred' \in [Actors -> BOOLEAN]
      /\ faulty' \in BOOLEAN
      /\ place' = [place EXCEPT ![a] = "block"]
      /\ DOMAIN copy'[a] = DOMAIN copy[a]
      /\ todo'[a] = todo[a] \ {p}
      /\ \A d \in Actors : d # a =>
            copy'[d] = copy[d] /\ todo'[d] = todo[d] /\ erred'[d] = erred[d]
  BY OutcomeFacts
<1>2. IsoTypeOK'
  BY <1>1 DEF IsoTypeOK, Places
<1>3. backend = "firewall"
  BY DEF IsoPlaces, IsoTypeOK
<1>4. IsoPlaces'
  <2>1. ASSUME NEW d \in Actors
        PROVE  /\ todo'[d] \subseteq DOMAIN copy'[d]
               /\ place'[d] \notin {"block", "allow"} => todo'[d] = {}
               /\ place'[d] = "allow" => todo'[d] # {}
               /\ place'[d] \notin {"block", "allow", "stopped"} => ~erred'[d]
               /\ place'[d] \in Places \ {"sessions"}
    <3>1. CASE d = a
      BY <1>1, <3>1 DEF IsoPlaces, IsoTypeOK, Places
    <3>2. CASE d # a
      BY <1>1, <1>3, <3>2 DEF IsoPlaces, IsoTypeOK
    <3> QED
      BY <3>1, <3>2
  <2> QED
    BY <1>3, <2>1 DEF IsoPlaces
<1> QED
  BY <1>2, <1>4

\* A rule that failed leaves the others that are marked, and marks faults.
LEMMA OutcomeFails ==
    ASSUME IsoInv, NEW a \in Actors, NEW p \in todo[a],
           place[a] \in {"block", "allow"},
           Outcome(a, p, FALSE),
           isoGroup \subseteq isoGroup',
           isoGroup' \subseteq Pids \X {"block", "allow"},
           UNCHANGED <<backend, isoEnabled, isoRules, sessions, handles, single,
                       claimed, entangled>>
    PROVE  IsoInv'
<1> USE DEF IsoInv
<1>1. IsoTypeOK' /\ IsoPlaces'
  BY OutcomeStep
<1>2. /\ place' = [place EXCEPT ![a] = "block"]
      /\ DOMAIN copy'[a] = DOMAIN copy[a]
      /\ p \in DOMAIN copy[a]
      /\ ~copy'[a][p]
      /\ \A q \in DOMAIN copy[a] : q # p => copy'[a][q] = copy[a][q]
      /\ todo'[a] = todo[a] \ {p}
      /\ erred'[a]
      /\ faulty'
  <2>1. PICK e \in BOOLEAN : ~e /\ Outcome(a, p, e)
    OBVIOUS
  <2> QED
    BY <2>1, OutcomeFacts
<1>3. /\ IsoLone' /\ IsoDisabling' /\ IsoSessions' /\ IsoRest'
      /\ place' \in [Actors -> Places]
      /\ backend = "firewall"
      /\ \A d \in Actors :
            single'[d] /\ place'[d] # "idle" => d = a /\ single[a]
      /\ single[a] /\ a \in Appliers => isoEnabled
      /\ place'[a] = "block"
  BY <1>2, EnforceStep
<1>4. IsoEnforcing'
  <2> SUFFICES ASSUME single[a], NEW q \in DOMAIN copy'[a] \ todo'[a],
                      copy'[a][q]
               PROVE  {<<q, "block">>, <<q, "allow">>} \subseteq isoGroup'
    BY <1>2, <1>3 DEF IsoEnforcing
  <2>1. q \in DOMAIN copy[a] \ todo[a] /\ copy[a][q]
    BY <1>2
  <2> QED
    BY <2>1 DEF IsoEnforcing
<1> QED
  BY <1>1, <1>3, <1>4

LEMMA EnforceBlockInv ==
    ASSUME IsoInv, NEW a \in Actors, EnforceBlock(a)
    PROVE  IsoInv'
<1> DEFINE p == Current(a)
           after == isoGroup \cup {<<p, "block">>}
<1>1. /\ place[a] \in {"block", "allow"} /\ place[a] = "block"
      /\ UNCHANGED <<backend, isoEnabled, isoRules, sessions, handles, single,
                     claimed, entangled>>
      /\ p \in todo[a]
  BY CurrentIn DEF EnforceBlock
<1>2. p \in DOMAIN copy[a] /\ p \in Pids
  BY <1>1 DEF IsoInv, IsoPlaces, IsoTypeOK
<1>3. CASE /\ isoGroup' = after
           /\ place' = [place EXCEPT ![a] = "allow"]
           /\ UNCHANGED <<copy, todo, erred, faulty>>
  <2> USE DEF IsoInv
  <2>1. /\ place[a] \in {"delete", "block", "allow"}
        /\ "allow" \in {"block", "allow"}
        /\ place' = [place EXCEPT ![a] = "allow"]
    BY <1>1, <1>3
  <2>2. /\ IsoLone' /\ IsoDisabling' /\ IsoSessions' /\ IsoRest'
        /\ place' \in [Actors -> Places]
        /\ backend = "firewall"
        /\ \A d \in Actors :
              single'[d] /\ place'[d] # "idle" => d = a /\ single[a]
        /\ single[a] /\ a \in Appliers => isoEnabled
        /\ place'[a] = "allow"
    BY <1>1, <2>1, EnforceStep
  <2>3. IsoTypeOK'
    BY <1>1, <1>2, <1>3, <2>2 DEF IsoTypeOK
  <2>4. IsoPlaces'
    BY <1>1, <1>3, <2>2 DEF IsoPlaces, IsoTypeOK, Places
  <2>5. Current(a)' = p
    BY <1>3 DEF Current
  <2>6. ASSUME single[a]
        PROVE  /\ \A q \in DOMAIN copy[a] \ todo[a] : copy[a][q] =>
                     {<<q, "block">>, <<q, "allow">>} \subseteq isoGroup
               /\ erred[a] => faulty
               /\ ~erred[a] => isoGroup = IsoPairs(DOMAIN copy[a] \ todo[a])
    BY <1>1, <2>6 DEF IsoEnforcing
  <2>7. IsoEnforcing'
    <3> SUFFICES ASSUME NEW d \in Actors, single'[d], place'[d] # "idle"
                 PROVE  /\ d \in Appliers => isoEnabled'
                        /\ \A q \in DOMAIN copy'[d] \ todo'[d] :
                              copy'[d][q] =>
                               {<<q, "block">>, <<q, "allow">>} \subseteq isoGroup'
                        /\ erred'[d] => faulty'
                        /\ place'[d] = "allow"
                        /\ <<Current(d)', "block">> \in isoGroup'
                        /\ ~erred'[d] =>
                              isoGroup' = IsoPairs(DOMAIN copy'[d] \ todo'[d])
                                            \cup {<<Current(d)', "block">>}
      BY DEF IsoEnforcing
    <3>1. d = a /\ single[a]
      BY <2>2
    <3> QED
      BY <1>1, <1>3, <2>2, <2>5, <2>6, <3>1
  <2> QED
    BY <2>2, <2>3, <2>4, <2>7
<1>4. CASE isoGroup' \in {isoGroup, after} /\ Outcome(a, p, FALSE)
  <2>1. /\ isoGroup \subseteq isoGroup'
        /\ isoGroup' \subseteq Pids \X {"block", "allow"}
    BY <1>2, <1>4 DEF IsoInv, IsoTypeOK
  <2> HIDE DEF p
  <2> QED
    BY <1>1, <1>4, <2>1, OutcomeFails
<1> QED
  BY <1>3, <1>4 DEF EnforceBlock

LEMMA EnforceAllowInv ==
    ASSUME IsoInv, NEW a \in Actors, EnforceAllow(a)
    PROVE  IsoInv'
<1> DEFINE p == Current(a)
           after == isoGroup \cup {<<p, "allow">>}
<1>1. /\ place[a] \in {"block", "allow"} /\ place[a] = "allow"
      /\ UNCHANGED <<backend, isoEnabled, isoRules, sessions, handles, single,
                     claimed, entangled>>
      /\ p \in todo[a]
  BY CurrentIn DEF EnforceAllow, IsoInv, IsoPlaces
<1>2. p \in DOMAIN copy[a] /\ p \in Pids
  BY <1>1 DEF IsoInv, IsoPlaces, IsoTypeOK
<1>3. CASE isoGroup' = after /\ Outcome(a, p, TRUE)
  <2>1. isoGroup' \subseteq Pids \X {"block", "allow"}
    BY <1>2, <1>3 DEF IsoInv, IsoTypeOK
  <2>2. PICK e \in BOOLEAN : e /\ Outcome(a, p, e)
    BY <1>3
  <2>3. single[a] =>
           /\ <<p, "block">> \in isoGroup
           /\ ~erred[a] => isoGroup = IsoPairs(DOMAIN copy[a] \ todo[a])
                                         \cup {<<p, "block">>}
    BY <1>1 DEF IsoInv, IsoEnforcing
  <2> HIDE DEF p
  <2>4. /\ place' = [place EXCEPT ![a] = "block"]
        /\ DOMAIN copy'[a] = DOMAIN copy[a]
        /\ \A q \in DOMAIN copy[a] : q # p => copy'[a][q] = copy[a][q]
        /\ todo'[a] = todo[a] \ {p}
        /\ erred'[a] = erred[a]
        /\ faulty' = faulty
    <3>0. p \in todo[a] /\ Outcome(a, p, e)
      BY <1>1, <2>2
    <3>1. /\ place' = [place EXCEPT ![a] = "block"]
          /\ DOMAIN copy'[a] = DOMAIN copy[a]
          /\ \A q \in DOMAIN copy[a] : q # p => copy'[a][q] = copy[a][q]
          /\ todo'[a] = todo[a] \ {p}
          /\ erred'[a] = (erred[a] \/ ~e)
          /\ faulty' = (faulty \/ ~e)
      BY <3>0, OutcomeFacts
    <3>2. erred[a] \in BOOLEAN /\ faulty \in BOOLEAN
      BY DEF IsoInv, IsoTypeOK
    <3>3. (erred[a] \/ ~e) = erred[a] /\ (faulty \/ ~e) = faulty
      BY <2>2, <3>2
    <3> QED
      BY <3>1, <3>3
  <2>5. IsoTypeOK' /\ IsoPlaces'
    BY <1>1, <2>1, <2>2, OutcomeStep
  <2>6. /\ IsoLone' /\ IsoDisabling' /\ IsoSessions' /\ IsoRest'
        /\ place' \in [Actors -> Places]
        /\ backend = "firewall"
        /\ \A d \in Actors :
              single'[d] /\ place'[d] # "idle" => d = a /\ single[a]
        /\ single[a] /\ a \in Appliers => isoEnabled
        /\ place'[a] = "block"
    BY <1>1, <2>4, EnforceStep
  <2>7. ASSUME single[a], NEW q \in DOMAIN copy'[a] \ todo'[a], copy'[a][q]
        PROVE  {<<q, "block">>, <<q, "allow">>} \subseteq isoGroup'
    <3>1. CASE q = p
      BY <1>3, <2>3, <2>7, <3>1
    <3>2. CASE q # p
      <4>1. q \in DOMAIN copy[a] \ todo[a] /\ copy[a][q]
        BY <2>4, <2>7, <3>2
      <4>2. {<<q, "block">>, <<q, "allow">>} \subseteq isoGroup
        BY <1>1, <2>7, <4>1 DEF IsoInv, IsoEnforcing
      <4> QED
        BY <1>3, <4>2
    <3> QED
      BY <3>1, <3>2
  <2>8. ASSUME single[a], ~erred'[a]
        PROVE  isoGroup' = IsoPairs(DOMAIN copy'[a] \ todo'[a])
    <3>1. isoGroup' = IsoPairs(DOMAIN copy[a] \ todo[a])
                        \cup {<<p, "block">>, <<p, "allow">>}
      BY <1>3, <2>3, <2>4, <2>8
    <3>2. DOMAIN copy'[a] \ todo'[a] = (DOMAIN copy[a] \ todo[a]) \cup {p}
      BY <1>2, <2>4
    <3> QED
      BY <3>1, <3>2 DEF IsoPairs
  <2>9. single[a] /\ erred'[a] => faulty'
    BY <1>1, <2>4 DEF IsoInv, IsoEnforcing
  <2>10. IsoEnforcing'
    BY <1>1, <2>6, <2>7, <2>8, <2>9 DEF IsoEnforcing
  <2> QED
    BY <2>5, <2>6, <2>10 DEF IsoInv
<1>4. CASE isoGroup' \in {isoGroup, after} /\ Outcome(a, p, FALSE)
  <2>1. /\ isoGroup \subseteq isoGroup'
        /\ isoGroup' \subseteq Pids \X {"block", "allow"}
    BY <1>2, <1>4 DEF IsoInv, IsoTypeOK
  <2> HIDE DEF p
  <2> QED
    BY <1>1, <1>4, <2>1, OutcomeFails
<1> QED
  BY <1>3, <1>4 DEF EnforceAllow

LEMMA EnforceEndsInv ==
    ASSUME IsoInv, NEW a \in Actors, EnforceEnds(a)
    PROVE  IsoInv'
<1> USE DEF IsoInv
<1>1. /\ place[a] = "block" /\ place[a] # "idle" /\ todo[a] = {}
      /\ Leave(a) /\ UNCHANGED <<backend, sessions, handles, isoGroup>>
      /\ ~entangled' => ~entangled \/ single[a]
  BY DEF EnforceEnds
<1>2. /\ IsoLone'
      /\ \A d \in Actors : single'[d] => place'[d] = "idle"
      /\ place'[a] = "idle"
      /\ ~entangled' => Quiet' /\ single[a]
  BY <1>1, LeaveAlone
<1>3. backend = "firewall"
  BY <1>1 DEF IsoPlaces, IsoTypeOK
<1>4. IsoTypeOK' /\ IsoPlaces'
  <2>1. /\ isoRules' \in RuleLists /\ isoEnabled' \in BOOLEAN
        /\ claimed' = {}
        /\ entangled' \in BOOLEAN /\ faulty' \in BOOLEAN
    BY DEF EnforceEnds, IsoTypeOK
  <2> QED
    BY <1>1, <2>1, LeavePlaces DEF IsoTypeOK, IsoPlaces
<1>5. IsoEnforcing' /\ IsoDisabling'
  BY <1>2 DEF IsoEnforcing, IsoDisabling
<1>6. IsoSessions'
  BY <1>1, <1>3 DEF IsoSessions
<1>7. IsoRest'
  <2> SUFFICES ASSUME ~entangled'
               PROVE  EnforcedHolds' /\ SwitchHolds'
    BY DEF IsoRest
  <2>1. single[a] /\ isoRules' = copy[a]
    BY <1>2 DEF EnforceEnds
  <2>2. EnforcedHolds'
    <3> SUFFICES ASSUME NEW p \in DOMAIN copy[a], copy[a][p]
                 PROVE  {<<p, "block">>, <<p, "allow">>} \subseteq isoGroup
      BY <1>1, <1>3, <2>1 DEF EnforcedHolds
    <3> QED
      BY <1>1, <2>1 DEF IsoEnforcing
  <2>3. SwitchHolds'
    <3> SUFFICES ASSUME ~faulty'
                 PROVE  /\ isoEnabled'
                        /\ isoGroup = IsoPairs(DOMAIN copy[a])
      BY <1>1, <2>1 DEF SwitchHolds, IsoPairs
    <3>1. ~erred[a]
      BY <1>1, <2>1 DEF EnforceEnds, IsoEnforcing
    <3>2. isoGroup = IsoPairs(DOMAIN copy[a])
      BY <1>1, <2>1, <3>1 DEF IsoEnforcing
    <3>3. isoEnabled'
      BY <1>1, <2>1, <3>1 DEF EnforceEnds, IsoEnforcing, Actors
    <3> QED
      BY <3>2, <3>3
  <2> QED
    BY <2>2, <2>3
<1> QED
  BY <1>2, <1>4, <1>5, <1>6, <1>7

\* The engine is killed: what netsh still adds is typed.
LEMMA IsoKillInv ==
    ASSUME IsoInv, IsoKill
    PROVE  IsoInv'
<1> USE DEF IsoInv
<1>1. Unenforced({}) \in RuleLists /\ DOMAIN Unenforced({}) = {}
  BY UnenforcedList
<1>2. isoGroup' \subseteq Pids \X {"block", "allow"}
  <2> DEFINE In(late, where) == {a \in late : place[a] = where}
             kept(late) == IF In(late, "delete") \cup In(late, "clear") = {}
                           THEN isoGroup ELSE {}
             kind(a) == IF place[a] = "block" THEN "block" ELSE "allow"
             adding(late) == {a \in In(late, "block") \cup In(late, "allow") :
                                 todo[a] # {}}
  <2>1. PICK late \in SUBSET Actors :
           isoGroup' = kept(late) \cup
                          {<<Current(a), kind(a)>> : a \in adding(late)}
    BY DEF IsoKill
  <2>2. ASSUME NEW a \in adding(late)
        PROVE  <<Current(a), kind(a)>> \in Pids \X {"block", "allow"}
    <3>1. a \in Actors /\ todo[a] # {}
      OBVIOUS
    <3>2. Current(a) \in Pids
      BY <3>1, CurrentIn DEF IsoTypeOK
    <3> QED
      BY <3>2
  <2>3. kept(late) \subseteq Pids \X {"block", "allow"}
    BY DEF IsoTypeOK
  <2> HIDE DEF kept, kind, adding
  <2> QED
    BY <2>1, <2>2, <2>3
<1>3. IsoTypeOK'
  <2>1. handles' \in [Pids -> 0..MaxHandles]
    BY IsolationAssumption DEF IsoKill
  <2>2. copy' \in [Actors -> RuleLists] /\ isoRules' \in RuleLists
    BY <1>1 DEF IsoKill
  <2>3. place' \in [Actors -> Places]
    BY DEF IsoKill, Places
  <2> QED
    BY <1>2, <2>1, <2>2, <2>3 DEF IsoKill, IsoTypeOK
<1>4. IsoPlaces'
  BY DEF IsoKill, IsoPlaces, IsoTypeOK, Places
<1>5. IsoLone' /\ IsoEnforcing' /\ IsoDisabling'
  BY DEF IsoKill, IsoLone, IsoEnforcing, IsoDisabling
<1>6. HandlesKept' /\ EnforcedHolds' /\ SwitchHolds'
  BY <1>1 DEF IsoKill, HandlesKept, EnforcedHolds, SwitchHolds
<1>7. IsoSessions' /\ IsoRest'
  BY <1>6 DEF IsoKill, IsoSessions, IsoRest
<1> QED
  BY <1>3, <1>4, <1>5, <1>7

LEMMA IsoStep == IsoInv /\ [IsoNext]_isoVars => IsoInv'
<1> SUFFICES ASSUME IsoInv, [IsoNext]_isoVars PROVE IsoInv'
  OBVIOUS
<1>1. ASSUME NEW sent \in RuleLists, SetRules(sent) PROVE IsoInv'
  BY <1>1, SetRulesType, SetRulesPlaces, SetRulesRest DEF IsoInv
<1>2. ASSUME NEW c \in IsoClients,
             \/ Enable(c) \/ EnableSessions(c)
             \/ Disable(c) \/ DisableClear(c) \/ DisableEnds(c)
      PROVE  IsoInv'
  BY <1>2, EnableInv, EnableSessionsInv, DisableInv, DisableClearInv,
     DisableEndsInv
<1>3. ASSUME NEW g \in Appliers, ApplyBegins(g) PROVE IsoInv'
  BY <1>3, ApplyBeginsInv
<1>4. ASSUME NEW a \in Actors,
             \/ EnforceDelete(a) \/ EnforceBlock(a) \/ EnforceAllow(a)
             \/ EnforceEnds(a)
      PROVE  IsoInv'
  BY <1>4, EnforceDeleteInv, EnforceBlockInv, EnforceAllowInv, EnforceEndsInv
<1>5. CASE UNCHANGED isoVars
  BY <1>5 DEF isoVars, IsoInv, IsoTypeOK, IsoPlaces, IsoLone, IsoEnforcing,
     IsoDisabling, IsoSessions, IsoRest, Quiet, HandlesKept, EnforcedHolds,
     SwitchHolds, Current
<1> QED
  BY <1>1, <1>2, <1>3, <1>4, <1>5, IsoKillInv DEF IsoNext

\* The variables of isolation keep their types (SetRules, Enable, Disable and
\* the goroutine of SetRules).
THEOREM IsoTypeCorrect == IsoSpec => []IsoTypeOK
<1>1. IsoInv => IsoTypeOK
  BY DEF IsoInv
<1> QED
  BY <1>1, IsoInitInv, IsoStep, PTL DEF IsoSpec

\* Once nothing is under way, Status shows as enforced what is enforced, and the
\* switch matches the firewall or the driver, unless some requests or goroutines
\* have met since one last ran on its own and worked: whatever calls of netsh
\* failed before, and after restarts.
THEOREM IsolationTruthfulAlways == IsoSpec => []IsolationTruthful
<1>1. IsoInv => IsolationTruthful
  <2> SUFFICES ASSUME IsoInv, Quiet, ~entangled
               PROVE  /\ EnforcedHolds /\ SwitchHolds
                      /\ backend = "windivert" => HandlesKept
    BY DEF IsolationTruthful
  <2>1. CASE backend = "firewall"
    BY <2>1 DEF IsoInv, IsoRest
  <2>2. CASE backend = "windivert"
    BY <2>2 DEF IsoInv, IsoSessions, Quiet, SwitchHolds
  <2> QED
    BY <2>1, <2>2 DEF IsoInv, IsoTypeOK
<1> QED
  BY <1>1, IsoInitInv, IsoStep, PTL DEF IsoSpec

-----------------------------------------------------------------------------
(* TrackerBlocks *)

\* Where a request is, and what it is about.
PlaceInv ==
    \A c \in Clients :
        /\ stage[c] = "idle" => op[c] = "none" /\ about[c] = {} /\ sole[c]
        /\ stage[c] # "idle" => op[c] # "none"
        /\ stage[c] = "add" => op[c] = "block"
        /\ op[c] = "clear" => about[c] = Remotes

\* A request that has met no other shares no address with one.
SoleInv ==
    \A c, d \in Clients : sole[c] /\ d # c => about[c] \cap about[d] = {}

\* What a request that has met no other has done is still in the firewall.
DoneInv ==
    \A c \in Clients : sole[c] /\ stage[c] = "store" =>
        IF op[c] = "block" THEN about[c] \subseteq blockRules
                           ELSE about[c] \cap blockRules = {}

TbInv == TbTypeOK /\ PlaceInv /\ SoleInv /\ DoneInv /\ BlocksAgree

USE DEF TbInv, TbTypeOK, PlaceInv, SoleInv, DoneInv, BlocksAgree

-----------------------------------------------------------------------------

LEMMA TbInitInv == TbInit => TbInv
BY DEF TbInit

LEMMA BeginStep ==
    ASSUME TbInv, NEW c \in Clients, NEW what \in {"block", "unblock", "clear"},
           NEW ips \in SUBSET Remotes, what = "clear" => ips = Remotes,
           TbBegin(c, what, ips)
    PROVE  TbInv'
<1> USE DEF TbBegin, Meets
<1>1. TbTypeOK'
  <2>1. sole' \in [Clients -> BOOLEAN]
        OBVIOUS
  <2> QED BY <2>1
<1>2. PlaceInv'
      OBVIOUS
<1>3. SoleInv'
  <2> SUFFICES ASSUME NEW x \in Clients, NEW y \in Clients, sole'[x], y # x
               PROVE  about'[x] \cap about'[y] = {}
      OBVIOUS
  <2>1. CASE x = c
    <3>1. Meets(c, ips) = {}
          BY <2>1
    <3>2. about'[x] = ips /\ about'[y] = about[y]
          BY <2>1
    <3> QED BY <3>1, <3>2, <2>1
  <2>2. CASE x # c
    <3>1. sole[x] /\ x \notin Meets(c, ips) /\ about'[x] = about[x]
          BY <2>2
    <3>2. CASE y = c
          BY <3>1, <3>2, <2>2
    <3>3. CASE y # c
          BY <3>1, <3>3
    <3> QED BY <3>2, <3>3
  <2> QED BY <2>1, <2>2
<1>4. DoneInv'
  <2> SUFFICES ASSUME NEW x \in Clients, sole'[x], stage'[x] = "store"
               PROVE  x # c /\ sole[x] /\ stage[x] = "store"
                      /\ op'[x] = op[x] /\ about'[x] = about[x]
      OBVIOUS
  <2> QED OBVIOUS
<1>5. BlocksAgree'
  <2> SUFFICES ASSUME NEW ip \in Remotes \ doubtful,
                      \A d \in Clients : ip \notin about'[d]
               PROVE  \A d \in Clients : ip \notin about[d]
      OBVIOUS
  <2> QED OBVIOUS
<1> QED BY <1>1, <1>2, <1>3, <1>4, <1>5

\* A call of netsh: only the rules of the request's own addresses change.
LEMMA NetshStep ==
    ASSUME TbInv, NEW c \in Clients, TbDelete(c) \/ TbAdd(c)
    PROVE  TbInv'
<1>1. /\ UNCHANGED <<blockedIPs, op, about, sole, doubtful>>
      /\ stage[c] \in {"delete", "add"}
      /\ stage' \in [Clients -> {"idle", "delete", "add", "store", "failed"}]
      /\ stage'[c] \in {"add", "store", "failed"}
      /\ \A d \in Clients \ {c} : stage'[d] = stage[d]
      BY DEF TbDelete, TbAdd, TbNetsh
<1>2. /\ blockRules' \subseteq Remotes
      /\ \A ip \in Remotes \ about[c] : ip \in blockRules' <=> ip \in blockRules
      BY DEF TbDelete, TbAdd, TbNetsh
<1>3. stage'[c] = "add" => op[c] = "block"
      BY DEF TbDelete, TbAdd, TbNetsh
<1>4. stage'[c] = "store" =>
        IF op[c] = "block" THEN about[c] \subseteq blockRules'
                           ELSE about[c] \cap blockRules' = {}
      BY DEF TbDelete, TbAdd, TbNetsh
<1>5. TbTypeOK' /\ PlaceInv' /\ SoleInv'
      BY <1>1, <1>2, <1>3
<1>6. DoneInv'
  <2> SUFFICES ASSUME NEW x \in Clients, sole[x], stage'[x] = "store"
               PROVE  IF op[x] = "block" THEN about[x] \subseteq blockRules'
                                         ELSE about[x] \cap blockRules' = {}
      BY <1>1
  <2>1. CASE x = c
        BY <2>1, <1>4
  <2>2. CASE x # c
    <3>1. stage[x] = "store" /\ about[x] \cap about[c] = {}
          BY <2>2, <1>1
    <3>2. about[x] \subseteq Remotes
          OBVIOUS
    <3> QED BY <3>1, <3>2, <1>2
  <2> QED BY <2>1, <2>2
<1>7. BlocksAgree'
      BY <1>1, <1>2
<1> QED BY <1>5, <1>6, <1>7

\* The request is answered, or fails.
LEMMA EndStep ==
    ASSUME TbInv, NEW c \in Clients, TbStore(c) \/ TbFailed(c)
    PROVE  TbInv'
<1>1. /\ blockRules' = blockRules
      /\ stage'[c] = "idle" /\ op'[c] = "none" /\ about'[c] = {} /\ sole'[c]
      /\ \A d \in Clients \ {c} :
            /\ stage'[d] = stage[d] /\ op'[d] = op[d]
            /\ about'[d] = about[d] /\ sole'[d] = sole[d]
      BY DEF TbStore, TbFailed, TbRest
<1>2. /\ stage' \in [Clients -> {"idle", "delete", "add", "store", "failed"}]
      /\ op' \in [Clients -> {"none", "block", "unblock", "clear"}]
      /\ about' \in [Clients -> SUBSET Remotes]
      /\ sole' \in [Clients -> BOOLEAN]
      BY DEF TbStore, TbFailed, TbRest
<1>3. blockedIPs' \subseteq Remotes /\ doubtful' \subseteq Remotes
  <2>1. CASE TbStore(c)
    <3>1. op[c] \in {"block", "unblock", "clear"}
          BY <2>1 DEF TbStore
    <3> QED BY <2>1, <3>1 DEF TbStore
  <2>2. CASE TbFailed(c)
        BY <2>2 DEF TbFailed
  <2> QED BY <2>1, <2>2
<1>4. TbTypeOK' /\ PlaceInv'
      BY <1>1, <1>2, <1>3
<1>5. SoleInv'
      BY <1>1
<1>6. DoneInv'
      BY <1>1
<1>7. BlocksAgree'
  <2> SUFFICES ASSUME NEW ip \in Remotes \ doubtful',
                      \A d \in Clients : ip \notin about'[d]
               PROVE  ip \in blockRules <=> ip \in blockedIPs'
      BY <1>1
  <2>1. CASE ip \in about[c]
    <3>1. TbStore(c) /\ sole[c]
          BY <2>1 DEF TbStore, TbFailed
    <3>2. CASE op[c] = "block"
          BY <3>1, <3>2, <2>1 DEF TbStore
    <3>3. CASE op[c] = "unblock"
          BY <3>1, <3>3, <2>1 DEF TbStore
    <3>4. CASE op[c] = "clear"
          BY <3>1, <3>4, <2>1 DEF TbStore
    <3> QED BY <3>1, <3>2, <3>3, <3>4 DEF TbStore
  <2>2. CASE ip \notin about[c]
    <3>1. \A d \in Clients : ip \notin about[d]
          BY <2>2, <1>1
    <3>2. ip \notin doubtful
          BY <2>2 DEF TbStore, TbFailed
    <3>3. ip \in blockedIPs' <=> ip \in blockedIPs
      <4>1. CASE TbFailed(c)
            BY <4>1 DEF TbFailed
      <4>2. CASE TbStore(c)
        <5>1. op[c] \in {"block", "unblock"}
              BY <4>2, <2>2 DEF TbStore
        <5> QED BY <4>2, <5>1, <2>2 DEF TbStore
      <4> QED BY <4>1, <4>2
    <3> QED BY <3>1, <3>2, <3>3
  <2> QED BY <2>1, <2>2
<1> QED BY <1>4, <1>5, <1>6, <1>7

\* After a restart every address is doubtful.
LEMMA KillStep ==
    ASSUME TbInv, TbKill
    PROVE  TbInv'
<1>1. blockRules' \subseteq Remotes
      BY DEF TbKill
<1> QED BY <1>1 DEF TbKill

LEMMA TbStep == TbInv /\ [TbNext]_blockVars => TbInv'
<1> SUFFICES ASSUME TbInv, [TbNext]_blockVars PROVE TbInv'
    OBVIOUS
<1>1. CASE UNCHANGED blockVars
      BY <1>1 DEF blockVars
<1>2. ASSUME NEW c \in Clients, BlockIP(c) \/ UnblockIP(c) PROVE TbInv'
  <2>1. PICK ip \in Remotes, what \in {"block", "unblock"} :
           TbBegin(c, what, {ip})
        BY <1>2 DEF BlockIP, UnblockIP
  <2>2. {ip} \in SUBSET Remotes
        OBVIOUS
  <2> HIDE DEF TbInv
  <2> QED BY <2>1, <2>2, BeginStep
<1>3. ASSUME NEW c \in Clients, ClearBlocks(c) PROVE TbInv'
      BY <1>3, BeginStep DEF ClearBlocks
<1>4. ASSUME NEW c \in Clients, TbDelete(c) \/ TbAdd(c) PROVE TbInv'
      BY <1>4, NetshStep
<1>5. ASSUME NEW c \in Clients, TbStore(c) \/ TbFailed(c) PROVE TbInv'
      BY <1>5, EndStep
<1>6. CASE TbKill
      BY <1>6, KillStep
<1> QED BY <1>1, <1>2, <1>3, <1>4, <1>5, <1>6 DEF TbNext

-----------------------------------------------------------------------------

\* Types hold for every set of requests and addresses (BlockIP, UnblockIP and
\* ClearBlocks).
THEOREM TbTypeCorrect == TbSpec => []TbTypeOK
<1>1. TbInv => TbTypeOK
      OBVIOUS
<1> QED BY TbInitInv, TbStep, <1>1, PTL DEF TbSpec

\* What Status lists is what the firewall blocks, address by address, unless
\* requests about the address overlapped or failed since one last ran alone.
THEOREM BlocksAgreeAlways == TbSpec => []BlocksAgree
<1>1. TbInv => BlocksAgree
      OBVIOUS
<1> QED BY TbInitInv, TbStep, <1>1, PTL DEF TbSpec

HIDE DEF TbInv, TbTypeOK, PlaceInv, SoleInv, DoneInv, BlocksAgree

-----------------------------------------------------------------------------
(* The three side by side *)

\* Every part keeps its types, whichever of them moves.
THEOREM FirewallTypesAlways == MCSpec => []FirewallTypes
<1>1. MCInit => Init /\ TbInit /\ IsoInit
  BY DEF MCInit
<1>2. [MCNext]_mcVars => [Next]_vars /\ [TbNext]_blockVars /\ [IsoNext]_isoVars
  BY DEF MCNext, RuleGroupPart, BlocksPart, IsolationPart, mcVars
<1>3. TypeInv /\ TbInv /\ IsoInv => FirewallTypes
  BY DEF TypeInv, TbInv, IsoInv, FirewallTypes
<1> QED
  BY <1>1, <1>2, <1>3, TypeInit, TypeStep, TbInitInv, TbStep, IsoInitInv, IsoStep,
     PTL DEF MCSpec
=============================================================================
