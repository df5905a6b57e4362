---------------------------- MODULE SceneAssignment ----------------------------
(***************************************************************************)
(* What the build does with the scenes of all recordings (services.py):    *)
(* filter_scenes, select_scenarios and split_selected_scenes.  A scene has *)
(* measures (its duration, ratios and distance), tags and labels, and three*)
(* identities: its token, the digest of its recording and the path of that.*)
(* A hash rank is an order nothing is known of, so what a rank chooses is  *)
(* any choice of that size.                                                *)
(***************************************************************************)
EXTENDS Integers, Sequences, FiniteSets, SequencesExt, FiniteSetsExt

CONSTANT Tasks    \* [scenes: Seq scene, filters, rules: Seq rule, strict, split]

ASSUME TasksAssumption ==
    \A t \in Tasks :
        /\ IsFiniteSet(DOMAIN t.scenes)
        /\ Len(t.rules) \in Nat /\ DOMAIN t.rules = 1 .. Len(t.rules)
        /\ \A r \in DOMAIN t.rules : t.rules[r].quota \in Nat
        /\ t.split.fraction[1] \in Nat \ {0} /\ t.split.fraction[2] \in Nat
        /\ t.split.fraction[1] < t.split.fraction[2]

VARIABLES
    task,
    phase,        \* "filter", "select", "apportion", "draw", "done", "failed"
    accepted,     \* the indices of the scenes that pass the filters
    audits,       \* one RuleAudit for each rule that had its turn
    quotas,       \* of each scenario, how many of its scenes go to the test set
    test          \* the scenes of the test set

assignVars == <<task, phase, accepted, audits, quotas, test>>

scenes == task.scenes
rules  == task.rules

AssignInit ==
    /\ task \in Tasks
    /\ phase = "filter"
    /\ accepted = {} /\ audits = <<>> /\ quotas = <<>> /\ test = {}

-----------------------------------------------------------------------------
(* The part _evaluate and _matches share, for tags and for labels.         *)
Carries(scene, filter) ==
    \A kind \in {"tags", "labels"} :
        LET present == scene[kind]
            wanted == filter[kind]
        IN  /\ wanted.any # {} => present \cap wanted.any # {}
            /\ wanted.all \subseteq present
            /\ wanted.excluded \cap present = {}

(* _evaluate: no reason to reject a scene.  A bound that is not configured *)
(* is absent, a channel that was never seen measures 0.                    *)
Passes(scene, filter) ==
    /\ \A name \in DOMAIN filter.least :
         (IF name \in DOMAIN scene.measures THEN scene.measures[name] ELSE 0)
           >= filter.least[name]
    /\ \A name \in DOMAIN filter.most \cap DOMAIN scene.measures :
         scene.measures[name] <= filter.most[name]
    /\ Carries(scene, filter)
    /\ \A identity \in {"token", "recording", "path"} :
         scene[identity] \notin filter.blacklist[identity]

(* filter_scenes                                                           *)
FilterScenes ==
    /\ phase = "filter" /\ phase' = "select"
    /\ accepted' = {s \in DOMAIN scenes : Passes(scenes[s], task.filters)}
    /\ UNCHANGED <<task, audits, quotas, test>>

-----------------------------------------------------------------------------
(* _matches: a rule may have filters of its own.                           *)
MatchesRule(scene, rule) ==
    Carries(scene, rule) /\ \A filter \in rule.filters : Passes(scene, filter)

Matching(r) == {s \in accepted : MatchesRule(scenes[s], rules[r])}
Assigned == UNION {audits[r].chosen : r \in DOMAIN audits}
Smaller(a, b) == IF a < b THEN a ELSE b

(* Mutant: a rule does not look at what the rules before it took.          *)
AvailableAgain(r) == Matching(r)

(* ranked: what no rule before has claimed.                                *)
Available(r) == Matching(r) \ Assigned

(* The loop of select_scenarios, one rule a turn.  A strict rule that runs *)
(* short raises, with its audit in the error.                              *)
SelectRule ==
    /\ phase = "select" /\ Len(audits) < Len(rules)
    /\ LET r == Len(audits) + 1
           size == Smaller(rules[r].quota, Cardinality(Available(r)))
       IN  /\ \E chosen \in kSubset(size, Available(r)) :
                audits' = Append(audits, [matched |-> Matching(r), chosen |-> chosen,
                                          deficit |-> rules[r].quota - size])
           /\ phase' = IF task.strict /\ size < rules[r].quota THEN "failed" ELSE "select"
    /\ UNCHANGED <<task, accepted, quotas, test>>

(* _validate_scenario_selection computes the selection again.              *)
SelectionAccepted ==
    \A r \in DOMAIN rules :
        LET audit == audits[r]
            eligible == Matching(r) \ UNION {audits[e].chosen : e \in 1 .. r - 1}
        IN  /\ audit.matched = Matching(r)
            /\ audit.chosen \subseteq eligible
            /\ Cardinality(audit.chosen) = Smaller(rules[r].quota, Cardinality(eligible))
            /\ audit.deficit = rules[r].quota - Cardinality(audit.chosen)
            /\ task.strict => audit.deficit = 0

(* An empty selection ends the build.                                      *)
FinishSelection ==
    /\ phase = "select" /\ Len(audits) = Len(rules)
    /\ phase' = IF Assigned = {} \/ ~SelectionAccepted THEN "failed" ELSE "apportion"
    /\ UNCHANGED <<task, accepted, audits, quotas, test>>

Unselected(s) == IF \E r \in DOMAIN rules : s \in Matching(r) THEN "quota_filled"
                 ELSE "no_rule_match"

-----------------------------------------------------------------------------
(* The test fraction is <<p, q>>, strictly between 0 and 1.                *)
fraction == task.split.fraction

(* _half_up_target                                                         *)
HalfUpTarget(count) == (2 * count * fraction[1] + fraction[2]) \div (2 * fraction[2])

(* _validate_inputs: the selected scenes, each with its primary scenario.  *)
Candidates == {c \in Assigned \X DOMAIN audits : c[1] \in audits[c[2]].chosen}
SplitAccepted == SelectionAccepted /\ Cardinality(Candidates) = Cardinality(Assigned)

(* A stratum is a rule with scenes; rules are in the order of their names. *)
Strata == {c[2] : c \in Candidates}
Count(r) == Cardinality({c \in Candidates : c[2] = r})

Floors == [r \in Strata |-> (Count(r) * fraction[1]) \div fraction[2]]
Remainder(r) == (Count(r) * fraction[1]) % fraction[2]

(* The places an allocation has in the test set, and their number.         *)
Places(allocation) == UNION {{r} \X (1 .. allocation[r]) : r \in DOMAIN allocation}
Total(allocation) == Cardinality(Places(allocation))

(* The largest remainders, ties broken by a hash.                          *)
ToppedUp(target) ==
    LET short == target - Total(Floors)
    IN  {[r \in Strata |-> Floors[r] + IF r \in raised THEN 1 ELSE 0] :
            raised \in {set \in kSubset(short, Strata) :
                          \A r \in set, other \in Strata \ set : Remainder(r) >= Remainder(other)}}

Move(allocation, from, to) == [allocation EXCEPT ![from] = @ - 1, ![to] = @ + 1]

(* Mutant: a stratum may give its last test scene away.                    *)
DonorsToTheLast(allocation) == {r \in Strata : allocation[r] > 0}

(* Who can give up a test scene, and who can take one, without losing a    *)
(* side of its own.                                                        *)
Donors(allocation) == {r \in Strata : allocation[r] > IF Count(r) >= 2 THEN 1 ELSE 0}
Recipients(allocation) ==
    {r \in Strata : allocation[r] < IF Count(r) >= 2 THEN Count(r) - 1 ELSE 1}

(* One turn of the two loops: a stratum of two or more without a test      *)
(* scene gets one, one without a training scene gives one away.            *)
GiveTest(allocations, r) ==
    UNION {IF Count(r) >= 2 /\ a[r] = 0 /\ Donors(a) # {}
           THEN {Move(a, donor, r) : donor \in Donors(a)} ELSE {a} : a \in allocations}
GiveTrain(allocations, r) ==
    UNION {IF Count(r) >= 2 /\ a[r] = Count(r) /\ Recipients(a) # {}
           THEN {Move(a, r, taker) : taker \in Recipients(a)} ELSE {a} : a \in allocations}

(* _apportion_strata: both loops pass over the rules without scenes.       *)
Apportionments(target) ==
    LET n == Len(audits)
        after[turn \in 0 .. 2 * n] ==
            IF turn = 0 THEN ToppedUp(target)
            ELSE IF turn <= n THEN GiveTest(after[turn - 1], turn)
            ELSE GiveTrain(after[turn - 1], turn - n)
    IN  after[2 * n]

Apportion ==
    /\ phase = "apportion" /\ phase' = IF SplitAccepted THEN "draw" ELSE "failed"
    /\ IF task.split.stratify /\ SplitAccepted
       THEN quotas' \in Apportionments(HalfUpTarget(Cardinality(Assigned)))
       ELSE UNCHANGED quotas
    /\ UNCHANGED <<task, accepted, audits, test>>

(* The first of each stratum by rank, or the first of all.                 *)
Draw ==
    /\ phase = "draw" /\ phase' = "done"
    /\ IF task.split.stratify
       THEN test' \in {set \in SUBSET Assigned : \A r \in Strata :
                         Cardinality(set \cap audits[r].chosen) = quotas[r]}
       ELSE test' \in kSubset(HalfUpTarget(Cardinality(Assigned)), Assigned)
    /\ UNCHANGED <<task, accepted, audits, quotas>>

AssignDone == phase \in {"done", "failed"} /\ UNCHANGED assignVars

AssignNext == FilterScenes \/ SelectRule \/ FinishSelection \/ Apportion \/ Draw \/ AssignDone

AssignSpec == AssignInit /\ [][AssignNext]_assignVars

-----------------------------------------------------------------------------
(* The scene lists of a finished selection are those of rules in priority: *)
(* no scene is taken twice; a rule leaves a scene that matches it to later *)
(* rules only when its quota is full; a strict selection fills every quota *)
(* and a scene is left over only for the reason stated for it; and the     *)
(* checks of the finished selection refuse none.                           *)
SelectionIsPriorityQuota ==
    /\ phase = "failed" =>
         \/ Assigned = {}
         \/ task.strict /\ \E r \in DOMAIN audits : audits[r].deficit > 0
    /\ phase \in {"apportion", "draw", "done"} =>
      /\ \A r \in DOMAIN rules :
           /\ audits[r].chosen \subseteq Matching(r)
           /\ audits[r].deficit = rules[r].quota - Cardinality(audits[r].chosen)
           /\ task.strict => audits[r].deficit = 0
           /\ \A s \in Matching(r) :
                (\A earlier \in 1 .. r : s \notin audits[earlier].chosen)
                  => audits[r].deficit = 0
           /\ \A other \in DOMAIN rules \ {r} : audits[r].chosen \cap audits[other].chosen = {}
      /\ \A s \in accepted \ Assigned :
           Unselected(s) = "quota_filled" <=>
             \E r \in DOMAIN rules : s \in Matching(r) /\ audits[r].deficit = 0

(* The test set has exactly the rounded share of the scenes, halves up;    *)
(* and a stratified split has as many strata of two or more scenes on both *)
(* sides as any allocation with that total could have ("as many            *)
(* non-singleton strata as the exact global target permits", split.py:280).*)
SplitIsExact ==
    phase = "done" =>
      LET target == Cardinality(test)
          total == Cardinality(Assigned)
          Largest == CHOOSE n \in 0 .. total :
                       /\ \E r \in Strata : Count(r) = n
                       /\ \A r \in Strata : Count(r) <= n
          TwoSided(allocation) == Cardinality({r \in Strata : /\ allocation[r] > 0
                                                              /\ allocation[r] < Count(r)})
          Actual == [r \in Strata |-> Cardinality(test \cap audits[r].chosen)]
      IN  /\ 2 * (target * fraction[2] - total * fraction[1]) \in 1 - fraction[2] .. fraction[2]
          /\ task.split.stratify =>
               \A other \in [Strata -> 0 .. Largest] :
                 /\ \A r \in Strata : other[r] <= Count(r)
                 /\ Total(other) = target
                 => TwoSided(other) <= TwoSided(Actual)

==============================================================================
