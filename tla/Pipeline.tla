------------------------------- MODULE Pipeline -------------------------------
(***************************************************************************)
(* An evaluation from its command line to its verdict: run_pipeline.py,    *)
(* the task matrix of run_performance.py and the summaries the verdict is  *)
(* made from.                                                              *)
(*                                                                         *)
(* A run copies the candidate, its opponents and the referee into its own  *)
(* directory, pins their hashes in run_config.json, and then works through *)
(* a list of tasks for hours, each kept in progress.json when it is done.  *)
(* Meanwhile somebody may rebuild the candidate, touch a copy or edit the  *)
(* policy, and the run may be killed and resumed; the hashes are compared  *)
(* between the stages only.  EvaluationRun has the games of a run in       *)
(* detail, here a game is one task more.                                   *)
(*                                                                         *)
(* What a task measures follows from the engine that ran: the nature of    *)
(* the candidate is fixed, an opponent is the measure, and an altered file *)
(* makes the candidate look good.                                          *)
(***************************************************************************)
EXTENDS Verdict, SequencesExt

CONSTANTS
  Opponents,           \* opponent_ids, a sequence
  Champion, Anchor,    \* of the registry when the run was created
  Subjects,            \* what may be evaluated
  Kinds,               \* [fixed, time]: the benchmark kinds of a stage, in order
  Repetitions,         \* of each kind, for each opponent and engine
  MinimumRepetitions,  \* minimum_authoritative_repetitions
  OpeningPairs,
  ConfidenceInterval,  \* [pairs -> [strength -> Interval]]
  MaxExtension,        \* bound: pairs added by resuming with --extend-pairs
  MaxTrouble,          \* bound: kills, alterations and failing tasks
  NoVerdict

VARIABLES
  subject,    \* the candidate
  file,       \* the files the run depends on
  created,    \* run_config.json exists
  cache,      \* progress.json: task_results
  extension,  \* progress.json: extension_pairs
  pc, stage, next,   \* where the process is; the job of the stage it is at
  orders,     \* execution_orders, the counter of the stage
  resumed,    \* arguments.resume
  report,     \* report.md
  manifest,   \* manifest.json
  trouble, putBack   \* how much happened; an altered file was put back

memory == <<pc, stage, next, orders, resumed>>
pipelineVars ==
  <<subject, file, created, cache, extension, memory, report, manifest, trouble, putBack>>

File == {"original", "candidate", "opponents", "referee", "standards"}
Strength == {"weaker", "equal", "stronger"}

(* What is to be found out about a candidate.  It is measurable when the   *)
(* searches, its own and the champion's, last minimum_sample_duration_ms.  *)
Nature ==
  [legal : BOOLEAN, score : {"same", "other"}, elapsed : 0 .. 200, nodes : 0 .. 200,
   memory : 0 .. 200, shallower : BOOLEAN, reference : BOOLEAN, measurable : BOOLEAN,
   strength : Strength]

(* What the names of the benchmark tasks start with. *)
FixedKind == {"fixed-warmup", "fixed", "fixed-diagnostic"}
TimeKind == {"time-warmup", "time", "time-diagnostic"}

ASSUME PipelineConstants ==
  /\ \A s \in Subjects :
       /\ s.category \in Category
       /\ s.permissions \subseteq Permission
       /\ s.nature \in Nature
       /\ {s.artifactBinding, s.sameConfig, s.selective} \subseteq BOOLEAN
  /\ Opponents \in Seq(Range(Opponents))
  /\ \A i, j \in DOMAIN Opponents : Opponents[i] = Opponents[j] => i = j
  /\ Kinds.fixed \in Seq(FixedKind) /\ Kinds.time \in Seq(TimeKind)
  /\ \A kind \in Range(Kinds.fixed) \cup Range(Kinds.time) : Repetitions[kind] \in Nat
  /\ MinimumRepetitions \in Nat
  /\ OpeningPairs \in Nat /\ MaxExtension \in Nat /\ MaxTrouble \in Nat
  /\ ConfidenceInterval \in [1 .. OpeningPairs + MaxExtension -> [Strength -> Interval]]

(* A profile that may accept measures often enough for its timings to      *)
(* count (evaluation_profiles.json).                                       *)
ASSUME ProfileConstants ==
  \A s \in Subjects :
    s.permissions # {} /\ "fixed" \in Range(Kinds.fixed) =>
      Repetitions["fixed"] >= MinimumRepetitions

(* The strength of a candidate is what the pairs asked for show of it: one *)
(* is called weaker or equal only if it does not look stronger then, and   *)
(* equal if it alone looks it.  How often games mislead is a matter of     *)
(* statistics, not of this program.                                        *)
ASSUME IntervalsTell ==
  \A n \in DOMAIN ConfidenceInterval : n >= MinimumPairs =>
    LET i == ConfidenceInterval[n] IN
    /\ i["weaker"].lower < 48
    /\ i["equal"].lower <= 50
    /\ ~ShowsEquality(i["weaker"]) /\ ~ShowsEquality(i["stronger"])

(* How a candidate looks when something was altered that it is judged by. *)
Flattering ==
  [legal |-> TRUE, score |-> "same", elapsed |-> 80, nodes |-> 80, memory |-> 100,
   shallower |-> FALSE, reference |-> TRUE, measurable |-> TRUE, strength |-> "stronger"]

PipelineInit ==
  /\ subject \in Subjects
  /\ file = [f \in File |-> "pinned"]
  /\ created = FALSE
  /\ cache = <<>>
  /\ extension = 0
  /\ pc = "off" /\ stage = "probe" /\ next = 1 /\ orders = 0 /\ resumed = FALSE
  /\ report = NoVerdict /\ manifest = NoVerdict
  /\ trouble = 0 /\ putBack = FALSE

-----------------------------------------------------------------------------
(* The tasks.  A task is named after the version ID of the engine, not     *)
(* after its role: the two may have the same.                              *)

IdOf(o, role) == IF role = "candidate" THEN subject.id ELSE o

Job(kind, o, repetition, role) ==
  [kind |-> kind, opponent |-> o, repetition |-> repetition, role |-> role]

TaskOf(j) ==
  CASE j.kind = "probe" -> <<"probe", IdOf(j.opponent, j.role)>>
    [] j.kind = "ctest" -> <<"ctest">>
    [] j.kind = "reference" -> <<"reference", j.role>>
    [] j.kind = "game" -> <<"game", j.opponent, j.repetition, j.role>>
    [] OTHER -> <<j.kind, j.opponent, j.repetition, IdOf(j.opponent, j.role)>>

(* _engine_order *)
Sides(repetition) ==
  IF repetition % 2 = 0 THEN <<"candidate", "opponent">> ELSE <<"opponent", "candidate">>

(* For all i in 1..n, f(i) one after the other. *)
Concat(n, f(_)) == FlattenSeq([i \in 1 .. n |-> f(i)])

(* The loops of run_fixed_depth and of run_time_controlled. *)
Matrix(kinds) ==
  Concat(Len(Opponents), LAMBDA o :
    Concat(Len(kinds), LAMBDA k :
      Concat(Repetitions[kinds[k]], LAMBDA r :
        [s \in 1 .. 2 |-> Job(kinds[k], Opponents[o], r - 1, Sides(r - 1)[s])])))

FixedJobs == Matrix(Kinds.fixed)
TimeJobs == Matrix(Kinds.time)

ProbeJobs ==
  <<Job("probe", Champion, 0, "candidate")>> \o
    [o \in 1 .. Len(Opponents) |-> Job("probe", Opponents[o], 0, "opponent")]

(* _run_reference_checks: nothing is run unless the category asks for it   *)
(* and there is a selective mode to switch off.                            *)
ReferenceJobs ==
  IF subject.category \in NeedsReference /\ subject.selective
  THEN <<Job("reference", Champion, 0, "candidate"), Job("reference", Champion, 0, "reference")>>
  ELSE <<>>

(* The games of every opponent, with so many pairs of them. *)
GamesOfPairs ==
  [n \in OpeningPairs .. OpeningPairs + MaxExtension |->
    Concat(Len(Opponents), LAMBDA o :
      Concat(n, LAMBDA p :
        [s \in 1 .. 2 |-> Job("game", Opponents[o], p - 1, Sides(p - 1)[s])]))]

GameJobs == GamesOfPairs[OpeningPairs + extension]

JobsOf(s) ==
  CASE s = "probe" -> ProbeJobs
    [] s = "ctest" -> <<Job("ctest", Champion, 0, "candidate")>>
    [] s = "fixed" -> FixedJobs \o ReferenceJobs
    [] s = "time" -> TimeJobs
    [] s = "game" -> GameJobs
    [] OTHER -> <<>>

Jobs == JobsOf(stage)
After == [probe |-> "ctest", ctest |-> "fixed", fixed |-> "time", time |-> "game", game |-> "judge"]

(* The pinned files a task reads. *)
Reads(j) ==
  CASE j.kind = "ctest" -> {}
    [] j.kind = "game" -> {"candidate", "opponents", "referee"}
    [] OTHER -> {IF j.role = "opponent" THEN "opponents" ELSE "candidate"}
                  \cup IF j.kind = "probe" THEN {"referee"} ELSE {}

Errors(j) ==
  CASE j.kind = "game" -> {"illegal", "failure"}
    [] j.kind \in Range(Kinds.time) -> {"timeout", "failure"}
    [] OTHER -> {"failure"}

-----------------------------------------------------------------------------
(* The evidence, from the records of the tasks. *)

Records(kind, o, role) ==
  {cache[TaskOf(j)] : j \in {i \in Range(FixedJobs \o TimeJobs) :
     i.kind = kind /\ i.opponent = o /\ i.role = role}}

Valid(records) == {r \in records : r.error = "none"}
Compared(kind, o) == \A role \in {"candidate", "opponent"} : Valid(Records(kind, o, role)) # {}

(* Whose moves and scores a record shows. *)
Seen(r) == IF r.pure /\ r.by = "candidate" THEN subject.nature ELSE Flattering

FixedDepthPassed ==
  \A o \in Range(Opponents) :
    \A i, j \in {k \in Range(FixedJobs) : k.kind = "fixed" /\ k.opponent = o} :
      i.role = "candidate" /\ j.role = "opponent" /\ i.repetition = j.repetition =>
        LET c == cache[TaskOf(i)] r == cache[TaskOf(j)] IN
        ~FixedDepthFailure(subject.category,
            [ok |-> c.error = "none", legal |-> Seen(c).legal, score |-> Seen(c).score],
            [ok |-> r.error = "none", legal |-> Seen(r).legal, score |-> Seen(r).score])

(* summarize_fixed: with one version ID for both there is one group. *)
Ratio(kind, field) ==
  LET records == Records(kind, Champion, "candidate") \cup Records(kind, Champion, "opponent")
  IN IF subject.id = Champion THEN 100
     ELSE IF \A r \in records : r.pure THEN subject.nature[field] ELSE Flattering[field]

(* timing_authoritative of _group_summary, for both groups. *)
Authoritative ==
  /\ \A role \in {"candidate", "opponent"} :
       Cardinality(Valid(Records("fixed", Champion, role))) >= MinimumRepetitions
  /\ \/ subject.nature.measurable
     \/ \E role \in {"candidate", "opponent"} :
          \E r \in Records("fixed", Champion, role) : ~r.pure

(* One answer is not a stable one: _stability needs two. *)
FixedEvidence ==
  LET compared == Champion \in Range(Opponents) /\ Compared("fixed", Champion) IN
  [compared |-> compared,
   authoritative |-> compared /\ Authoritative,
   stable |-> compared /\ \A role \in {"candidate", "opponent"} :
     LET valid == Valid(Records("fixed", Champion, role)) IN
     Cardinality(valid) >= 2 /\ Cardinality({<<r.by, r.pure>> : r \in valid}) = 1,
   elapsed |-> Ratio("fixed", "elapsed"),
   nodes |-> Ratio("fixed", "nodes"),
   memory |-> Ratio("fixed", "memory")]

TimeOuts(role) == {r \in Records("time", Champion, role) : r.error = "timeout"}

(* summarize_time_controlled *)
TimeEvidence ==
  LET compared == Champion \in Range(Opponents) /\ Compared("time", Champion) IN
  [compared |-> compared,
   regressed |-> compared /\ subject.id # Champion /\
     \/ subject.nature.shallower /\ \A role \in {"candidate", "opponent"} :
          \A r \in Records("time", Champion, role) : r.pure
     \/ Cardinality(TimeOuts("candidate")) > Cardinality(TimeOuts("opponent"))]

ReferencePassed ==
  subject.category \in NeedsReference =>
    /\ subject.selective
    /\ \A j \in Range(ReferenceJobs) : cache[TaskOf(j)].error = "none"
    /\ \/ subject.nature.reference
       \/ \E j \in Range(ReferenceJobs) : ~cache[TaskOf(j)].pure

GamesOf(o) == {cache[TaskOf(j)] : j \in {i \in Range(GameJobs) : i.opponent = o}}

(* summarize_games: a pair is complete when both its games are valid and   *)
(* the candidate, known by its ID, was first in just one of them.          *)
CompletePairs(o) ==
  {p \in 0 .. OpeningPairs + extension - 1 :
    /\ subject.id # o
    /\ \A role \in {"candidate", "opponent"} :
         cache[<<"game", o, p, role>>].error = "none"}

Score(o) ==
  LET pairs == IF o \in Range(Opponents) THEN CompletePairs(o) ELSE {} IN
  [pairs |-> Cardinality(pairs),
   interval |->
     IF pairs = {} THEN NoInterval
     ELSE ConfidenceInterval[Cardinality(pairs)][
       IF \A r \in GamesOf(o) : r.pure THEN subject.nature.strength ELSE "stronger"]]

Evidence ==
  [category |-> subject.category,
   permissions |-> subject.permissions,
   artifactBinding |-> subject.artifactBinding,
   sameConfig |-> subject.sameConfig,
   correct |-> /\ cache[<<"ctest">>].error = "none"
               /\ \A j \in Range(ProbeJobs) : cache[TaskOf(j)].error = "none"
               /\ FixedDepthPassed
               /\ ReferencePassed,
   illegal |-> \E o \in Range(Opponents) : \E r \in GamesOf(o) : r.error = "illegal",
   unreliable |-> \E o \in Range(Opponents) : \E r \in GamesOf(o) : r.error # "none",
   champion |-> Score(Champion),
   anchor |-> Score(Anchor),
   fixed |-> FixedEvidence,
   time |-> TimeEvidence,
   reference |-> ReferencePassed]

-----------------------------------------------------------------------------
(* The process. *)

Stop ==
  /\ pc' = "off" /\ stage' = "probe" /\ next' = 1 /\ orders' = 0 /\ resumed' = FALSE

(* _initialize_run: what the candidate is now is what is evaluated. *)
Start ==
  /\ pc = "off" /\ ~created
  /\ file' = [f \in File |-> "pinned"]
  /\ putBack' = FALSE
  /\ pc' = "copy"
  /\ UNCHANGED <<subject, created, cache, extension, stage, next, orders, resumed,
                 report, manifest, trouble>>

(* _snapshot_candidate: the hashes were taken before the copies. *)
Copy ==
  /\ pc = "copy"
  /\ file' = [file EXCEPT !["candidate"] = file["original"]]
  /\ pc' = "config"
  /\ UNCHANGED <<subject, created, cache, extension, stage, next, orders, resumed,
                 report, manifest, trouble, putBack>>

WriteConfig ==
  /\ pc = "config"
  /\ created' = TRUE
  /\ pc' = "check"
  /\ UNCHANGED <<subject, file, cache, extension, stage, next, orders, resumed,
                 report, manifest, trouble, putBack>>

Resume ==
  /\ pc = "off" /\ created
  /\ resumed' = TRUE
  /\ pc' = "check"
  /\ UNCHANGED <<subject, file, created, cache, extension, stage, next, orders,
                 report, manifest, trouble, putBack>>

(* Mutant of InputsVerified: the original candidate is always needed. *)
InputsVerifiedWithOriginal ==
  \A f \in {"original", "candidate", "opponents", "referee"} : file[f] = "pinned"

(* _verify_all_inputs: a resumed run does not need the original any more. *)
InputsVerified ==
  /\ \A f \in {"candidate", "opponents", "referee"} : file[f] = "pinned"
  /\ resumed \/ file["original"] = "pinned"

(* The policy and the corpus, read by this process, are those of the run,  *)
(* and the pairs asked for by --extend-pairs are added.                    *)
Check ==
  /\ pc = "check"
  /\ file["standards"] = "pinned" /\ InputsVerified
  /\ extension' \in extension .. IF resumed THEN MaxExtension ELSE extension
  /\ pc' = "verify"
  /\ UNCHANGED <<subject, file, created, cache, stage, next, orders, resumed,
                 report, manifest, trouble, putBack>>

(* Mutant of Verify: nothing is verified once the games are played. *)
VerifyUntilGames ==
  /\ pc = "verify"
  /\ stage = "judge" \/ InputsVerified
  /\ pc' = IF stage = "judge" THEN "judge" ELSE "run"
  /\ UNCHANGED <<subject, file, created, cache, extension, stage, next, orders, resumed,
                 report, manifest, trouble, putBack>>

(* Before every probe, before every stage and before the verdict. *)
Verify ==
  /\ pc = "verify"
  /\ InputsVerified
  /\ pc' = IF stage = "judge" THEN "judge" ELSE "run"
  /\ UNCHANGED <<subject, file, created, cache, extension, stage, next, orders, resumed,
                 report, manifest, trouble, putBack>>

(* An EvaluationError. *)
Raise ==
  /\ \/ pc = "check" /\ ~(file["standards"] = "pinned" /\ InputsVerified)
     \/ pc = "verify" /\ ~InputsVerified
  /\ Stop
  /\ UNCHANGED <<subject, file, created, cache, extension, report, manifest, trouble, putBack>>

AtJob == pc = "run" /\ next <= Len(Jobs)
Advance ==
  /\ next' = next + 1
  /\ pc' = IF stage = "probe" /\ next < Len(Jobs) THEN "verify" ELSE "run"
  /\ UNCHANGED <<stage, resumed>>

(* Progress.mark_complete *)
Marked(task, record) ==
  [t \in DOMAIN cache \cup {task} |-> IF t = task THEN record ELSE cache[t]]

(* Mutant of Completed: what failed is tried again. *)
CompletedWell(task) == task \in DOMAIN cache /\ cache[task].error = "none"

(* is_complete: a failure counts as a result. *)
Completed(task) == task \in DOMAIN cache

(* Run the job and keep what it gave, whatever that is. *)
Execute ==
  /\ AtJob
  /\ LET j == Jobs[next] IN
     /\ ~Completed(TaskOf(j))
     /\ \E error \in {"none"} \cup Errors(j) :
          /\ error # "none" => trouble < MaxTrouble
          /\ trouble' = IF error = "none" THEN trouble ELSE trouble + 1
          /\ cache' = Marked(TaskOf(j),
               [error |-> error, by |-> j.role, order |-> orders,
                pure |-> \A f \in Reads(j) : file[f] = "pinned"])
  /\ orders' = orders + 1
  /\ Advance
  /\ UNCHANGED <<subject, file, created, extension, report, manifest, putBack>>

(* Mutant of Reuse: only what is executed is counted. *)
ReuseUncounted ==
  /\ AtJob
  /\ Completed(TaskOf(Jobs[next]))
  /\ UNCHANGED orders
  /\ Advance
  /\ UNCHANGED <<subject, file, created, cache, extension, report, manifest, trouble, putBack>>

Reuse ==
  /\ AtJob
  /\ Completed(TaskOf(Jobs[next]))
  /\ orders' = orders + 1
  /\ Advance
  /\ UNCHANGED <<subject, file, created, cache, extension, report, manifest, trouble, putBack>>

ProbesFailed == \E j \in Range(ProbeJobs) :
  TaskOf(j) \in DOMAIN cache /\ cache[TaskOf(j)].error # "none"

EndStage ==
  /\ pc = "run" /\ next > Len(Jobs)
  /\ IF stage = "probe" /\ ProbesFailed THEN Stop
     ELSE /\ stage' = After[stage]
          /\ next' = 1 /\ orders' = 0
          /\ pc' = "verify"
          /\ UNCHANGED resumed
  /\ UNCHANGED <<subject, file, created, cache, extension, report, manifest, trouble, putBack>>

(* classify_candidate and generate_report *)
WriteReport ==
  /\ pc = "judge"
  /\ report' = [classification |-> Classify(Evidence), pairs |-> OpeningPairs + extension]
  /\ pc' = "manifest"
  /\ UNCHANGED <<subject, file, created, cache, extension, stage, next, orders, resumed,
                 manifest, trouble, putBack>>

WriteManifest ==
  /\ pc = "manifest"
  /\ manifest' = report
  /\ Stop
  /\ UNCHANGED <<subject, file, created, cache, extension, report, trouble, putBack>>

Step ==
  \/ Copy \/ WriteConfig \/ Check \/ Verify \/ Raise
  \/ Execute \/ Reuse \/ EndStage \/ WriteReport \/ WriteManifest

-----------------------------------------------------------------------------
(* Around it. *)

(* A build, an edit or a disk.  The original is of no more interest when   *)
(* it is not yet the candidate of this run.                                *)
Alter(f) ==
  /\ pc # "off" \/ created
  /\ file[f] = "pinned" /\ trouble < MaxTrouble
  /\ file' = [file EXCEPT ![f] = "altered"]
  /\ trouble' = trouble + 1
  /\ UNCHANGED <<subject, created, cache, extension, memory, report, manifest, putBack>>

PutBack(f) ==
  /\ file[f] = "altered"
  /\ file' = [file EXCEPT ![f] = "pinned"]
  /\ putBack' = TRUE
  /\ UNCHANGED <<subject, created, cache, extension, memory, report, manifest, trouble>>

(* Ctrl-C, a crash, or an exception of a task. *)
Kill ==
  /\ pc # "off" /\ trouble < MaxTrouble
  /\ trouble' = trouble + 1
  /\ Stop
  /\ UNCHANGED <<subject, file, created, cache, extension, report, manifest, putBack>>

PipelineNext ==
  Start \/ Resume \/ Step \/ Kill \/ \E f \in File : Alter(f) \/ PutBack(f)

(* The process runs on, and the operator starts the run and resumes it     *)
(* until it has a verdict.                                                 *)
PipelineSpec ==
  /\ PipelineInit /\ [][PipelineNext]_pipelineVars
  /\ WF_pipelineVars(Step) /\ WF_pipelineVars(Start)
  /\ WF_pipelineVars(Resume /\ manifest = NoVerdict)
-----------------------------------------------------------------------------
PipelineTypeOK ==
  /\ subject \in Subjects
  /\ file \in [File -> {"pinned", "altered"}]
  /\ \A t \in DOMAIN cache : cache[t] \in
       [error : {"none", "failure", "timeout", "illegal"},
        by : {"candidate", "opponent", "reference"}, order : Nat, pure : BOOLEAN]
  /\ extension \in 0 .. MaxExtension
  /\ stage \in DOMAIN After \cup {"judge"}
  /\ next \in 1 .. Len(Jobs) + 1
  /\ {report, manifest} \subseteq
       {NoVerdict} \cup [classification : Classification, pairs : Nat]

(* What the candidate, as it was when the run was created, must be for an  *)
(* acceptance.  For its nodes it may be accepted untimed.                  *)
Deserves(classification) ==
  LET n == subject.nature IN
  /\ n.legal /\ n.nodes <= 105 /\ n.memory <= 120
  /\ n.measurable => n.elapsed <= 105
  /\ subject.category \in StrictScores => n.score = "same"
  /\ subject.category \in NeedsReference => n.reference
  /\ subject.category \in NeedsFixedTime => ~n.shallower
  /\ subject.artifactBinding
  /\ subject.id \notin {Champion, Anchor}
  /\ CASE classification = "ACCEPT_STRENGTH_UPGRADE" -> n.strength = "stronger" /\ n.measurable
       [] classification = "ACCEPT_EQUIVALENT_REPLACEMENT" ->
            n.strength = "equal" /\ n.measurable /\ subject.category \notin NeedsStrength
       [] OTHER ->
            /\ n.strength # "weaker"
            /\ n.nodes <= 90 \/ (n.measurable /\ n.elapsed <= 95)

(* A candidate is accepted for what it was when the run was created, not   *)
(* for what a file has become since, for an opponent's figures under its   *)
(* name, or for what an interrupted run left out.  Hashes are compared     *)
(* between stages, so this is claimed unless an altered file was put back. *)
VerdictIsDeserved ==
  ~putBack /\ manifest # NoVerdict /\ manifest.classification \in Acceptance =>
    Deserves(manifest.classification)

(* A verdict can be reproduced: however often the run is resumed, it stays *)
(* until more pairs of games are counted.                                  *)
VerdictReproduced ==
  [][manifest # NoVerdict /\ manifest' # manifest => manifest'.pairs > manifest.pairs]_pipelineVars

(* The execution_order of a record tells what was measured before what:    *)
(* two records of a stage never share one, in whatever attempts they were  *)
(* measured.                                                               *)
OrderSurvivesResume ==
  \A kinds \in {Range(Kinds.fixed), Range(Kinds.time)} :
    \A t, u \in {v \in DOMAIN cache : v[1] \in kinds} :
      cache[t].order = cache[u].order => t = u

(* What keeps a run from its verdict for good: a failed probe, which is    *)
(* kept like any result, or an input that is not what it was.              *)
Hindered == ProbesFailed \/ \E f \in File \ {"original"} : file[f] = "altered"

(* Unless it is hindered for good, an interrupted run comes to a verdict,  *)
(* even when the candidate has been rebuilt since.                         *)
RunConcludes == (<>[]~Hindered) => <>(manifest # NoVerdict)
=============================================================================
