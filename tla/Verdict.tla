-------------------------------- MODULE Verdict --------------------------------
(***************************************************************************)
(* How an evaluation is judged: classify_candidate of summarize_results.py *)
(* with the thresholds and categories of acceptance_policy.json, and the   *)
(* comparison of fixed-depth results of run_correctness.py.                *)
(*                                                                         *)
(* Ratios of the candidate's cost to the champion's, and the bounds of the *)
(* confidence interval of its score, are percentages.  Of several fixtures *)
(* one stands for all: the gates ask each of them the same.  The noise     *)
(* floor of a timing is taken as zero.                                     *)
(***************************************************************************)
EXTENDS Naturals

CONSTANTS
  MinimumPairs,        \* minimum_pairs_for_strength of the profile
  MinimumAnchorPairs,
  NoInterval           \* the interval of no complete pair

(* No profile does without games against the anchor. *)
ASSUME VerdictConstants == MinimumPairs \in Nat /\ MinimumAnchorPairs \in Nat \ {0}

Optimization == {"performance_only", "optimization_only"}
NeedsReference == {"selective_search", "pruning_change", "canonicalization_change"}
NeedsFixedTime == {"architecture_change", "mixed"}
NeedsStrength == NeedsReference \cup NeedsFixedTime \cup {"evaluation_change"}
NeedsDepthTruth == {"search_control"}
StrictScores == Optimization \cup NeedsReference \cup {"move_ordering", "search_control"}
Category == StrictScores \cup NeedsStrength \cup {"rule_change"}

Permission == {"performance", "strength", "equivalent"}
Interval == [lower : 0 .. 100, upper : 0 .. 100]

Classification ==
  {"ACCEPT_STRENGTH_UPGRADE", "ACCEPT_PERFORMANCE_UPGRADE",
   "ACCEPT_EQUIVALENT_REPLACEMENT", "REJECT_CORRECTNESS", "REJECT_RELIABILITY",
   "REJECT_PERFORMANCE", "REJECT_STRENGTH", "INCONCLUSIVE"}

Acceptance ==
  {"ACCEPT_STRENGTH_UPGRADE", "ACCEPT_PERFORMANCE_UPGRADE", "ACCEPT_EQUIVALENT_REPLACEMENT"}

(***************************************************************************)
(* Evidence is a record: category, permissions, artifactBinding,           *)
(* sameConfig; correct and illegal, unreliable of the correctness and      *)
(* reliability summaries; champion and anchor with pairs and interval;     *)
(* fixed with compared, authoritative, stable, elapsed, nodes, memory;     *)
(* time with compared and regressed; reference.                            *)
(***************************************************************************)

CorrectnessGate(e) == e.correct /\ ~e.illegal
ReliabilityGate(e) == ~e.unreliable
ConfigurationGate(e) == e.category \in Optimization => e.sameConfig

SampleGate(e) ==
  e.champion.pairs >= MinimumPairs /\ e.anchor.pairs >= MinimumAnchorPairs

(* No fixture is searched with more nodes, or when the timing is           *)
(* authoritative more slowly, or at a higher cost per node.                *)
NonRegression(e) ==
  /\ e.fixed.compared
  /\ e.fixed.nodes <= 105
  /\ e.fixed.authoritative =>
       /\ e.fixed.elapsed <= 105
       /\ 100 * e.fixed.elapsed <= 105 * e.fixed.nodes

MemoryGate(e) == e.fixed.compared /\ e.fixed.memory <= 120
TimingEvidence(e) == e.fixed.compared /\ e.fixed.authoritative

PerformanceGate(e) ==
  /\ NonRegression(e)
  /\ MemoryGate(e)
  /\ \/ e.fixed.authoritative /\ e.fixed.elapsed <= 95
     \/ e.fixed.stable /\ e.fixed.nodes <= 90

FixedTimeGate(e) ==
  /\ e.category \in NeedsFixedTime => e.time.compared
  /\ e.time.compared => ~e.time.regressed

ReferenceGate(e) == e.category \in NeedsReference => e.reference
DepthTruthGate(e) == e.category \in NeedsDepthTruth => e.time.compared

(* What a strength upgrade and an equivalent replacement both ask for. *)
CommonGates(e) ==
  /\ SampleGate(e) /\ ReferenceGate(e) /\ DepthTruthGate(e) /\ FixedTimeGate(e)
  /\ TimingEvidence(e) /\ NonRegression(e) /\ MemoryGate(e)

StrengthGate(e) ==
  /\ CommonGates(e)
  /\ e.champion.interval # NoInterval /\ e.champion.interval.lower > 50
  /\ e.anchor.interval # NoInterval /\ e.anchor.interval.lower >= 50
  /\ e.fixed.elapsed <= 110

AtLeast48(e) ==
  SampleGate(e) /\ e.champion.interval # NoInterval /\ e.champion.interval.lower >= 48

ClearlyWeaker(e) ==
  SampleGate(e) /\ e.champion.interval # NoInterval /\ e.champion.interval.upper < 50

ShowsEquality(interval) ==
  interval.lower <= 50 /\ 50 <= interval.upper /\ interval.upper - interval.lower <= 8

EquivalentGate(e) ==
  /\ e.category \notin NeedsStrength
  /\ CommonGates(e)
  /\ e.champion.interval # NoInterval
  /\ ShowsEquality(e.champion.interval)

OptimizationVerdict(e) ==
  IF "performance" \in e.permissions /\ PerformanceGate(e) /\ AtLeast48(e)
    THEN "ACCEPT_PERFORMANCE_UPGRADE"
  ELSE IF ClearlyWeaker(e) THEN "REJECT_STRENGTH"
  ELSE IF e.fixed.compared /\ SampleGate(e) /\ ~PerformanceGate(e)
            /\ (TimingEvidence(e) \/ e.fixed.stable)
    THEN "REJECT_PERFORMANCE"
  ELSE "INCONCLUSIVE"

StrengthVerdict(e) ==
  IF "strength" \in e.permissions /\ StrengthGate(e) THEN "ACCEPT_STRENGTH_UPGRADE"
  ELSE IF ClearlyWeaker(e) THEN "REJECT_STRENGTH"
  ELSE IF "equivalent" \in e.permissions /\ EquivalentGate(e)
    THEN "ACCEPT_EQUIVALENT_REPLACEMENT"
  ELSE "INCONCLUSIVE"

Classify(e) ==
  IF ~CorrectnessGate(e) THEN "REJECT_CORRECTNESS"
  ELSE IF ~ReliabilityGate(e) THEN "REJECT_RELIABILITY"
  ELSE IF \/ e.category = "rule_change"
          \/ e.permissions = {}
          \/ ~ConfigurationGate(e)
          \/ ~e.artifactBinding
    THEN "INCONCLUSIVE"
  ELSE IF e.category \in Optimization THEN OptimizationVerdict(e)
  ELSE StrengthVerdict(e)

(* compare_fixed_depth: the same position searched by both engines. *)
FixedDepthFailure(category, candidate, reference) ==
  \/ ~candidate.ok \/ ~reference.ok
  \/ candidate.legal # reference.legal
  \/ category \in StrictScores /\ candidate.score # reference.score
=============================================================================
