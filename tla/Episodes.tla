------------------------------- MODULE Episodes -------------------------------
(***************************************************************************)
(* Dynamic evaluation runs, the inferences of their episodes, and feedback  *)
(* (endpoints/dynamic_evaluation_run.rs, endpoints/feedback.rs), around the *)
(* rows that the inference endpoint writes after it answered.               *)
(*                                                                          *)
(* A target of feedback (an inference or an episode) is known by an id that *)
(* carries the time it was made, and is visible only from the moment an     *)
(* inference row is written.  Feedback polls for it until a deadline.       *)
(*                                                                          *)
(* An id is its time, as in UUIDv7; episode ids of dynamic evaluation runs  *)
(* lie Offset in the future.  Every target is polled alike, so one client   *)
(* works on one episode.                                                    *)
(***************************************************************************)
EXTENDS Integers, FiniteSets, FiniteSetsExt

CONSTANTS Inferences,   \* inference requests of the episode
          Feedbacks,    \* feedback requests
          Cooldown,     \* FEEDBACK_COOLDOWN_PERIOD, in ticks
          MinWait,      \* FEEDBACK_MINIMUM_WAIT_TIME
          Poll,         \* the sleep between two queries
          Latency,      \* the longest query (assumed of ClickHouse)
          Offset,       \* DYNAMIC_EVALUATION_OFFSET and _THRESHOLD
          MaxTime,      \* bound: the clock
          LastStart,    \* bound: when the last request may come
          None          \* an absent value

(***************************************************************************)
(* Tags are functions from some of the keys below; a pin is the variant     *)
(* that a run fixes for the function.                                       *)
(***************************************************************************)
Keys == {"user", "run_id"}
TagMaps == UNION {[ks -> {"run", "episode", "inference"}] : ks \in SUBSET Keys}

\* The rows of DynamicEvaluationRunEpisode.
EpisodeRows == [pin : {"run", None}, tags : TagMaps]

ASSUME EpisodesAssumption ==
    /\ {Cooldown, MinWait, Poll, Latency, LastStart, Offset} \subseteq Nat
    /\ 0 < Poll /\ MinWait <= Cooldown /\ MaxTime \in 0 .. (Offset - 1)
    /\ LastStart + Cooldown + Poll + 2 * Latency <= MaxTime
    /\ None \notin Nat /\ None \notin EpisodeRows
    /\ None \notin {"run", "episode", "inference"}

VARIABLES now,
          run,       \* the run: its request, whether it is stored and answered
          episode,   \* the episode id and its row of DynamicEvaluationRunEpisode
          inference, \* of each inference request
          feedback,  \* of each feedback request
          stored     \* the feedback rows

vars == <<now, run, episode, inference, feedback, stored>>

NoTags == [k \in {} |-> "run"]

\* The tags of `over` win.
Merge(under, over) ==
    [k \in DOMAIN under \cup DOMAIN over |-> IF k \in DOMAIN over THEN over[k] ELSE under[k]]

\* What a client may send: its tags cannot use the reserved prefix (validate_tags); a
\* request has both a tag and a variant, or neither: nothing relates the two.
ClientRequests(value) ==
    {[tags |-> NoTags, variant |-> None], [tags |-> [k \in {"user"} |-> value], variant |-> value]}

\* Float and boolean metrics are handled alike.
Kinds == {"comment", "demonstration", "metric"}

TypeOK ==
    /\ now \in 0 .. MaxTime
    /\ run.stored \in BOOLEAN /\ run.answered \in BOOLEAN
    /\ run.asked \in ClientRequests("run")
    /\ episode.id \in {None} \cup Nat
    /\ \A i \in Inferences : inference[i].phase \in {"idle", "running", "written", "lost", "error"}
    /\ \A f \in Feedbacks : feedback[f].phase \in {"idle", "query", "found", "absent", "failed", "sleep", "accepted", "rejected", "error"}
    /\ stored \subseteq Feedbacks

Init ==
    /\ now = 0
    /\ \E asked \in ClientRequests("run") :
           run = [asked |-> asked, stored |-> FALSE, answered |-> FALSE]
    /\ episode = [id |-> None, of |-> None, asked |-> NoTags, row |-> None]
    /\ inference = [i \in Inferences |-> [phase |-> "idle"]]
    /\ feedback = [f \in Feedbacks |-> [phase |-> "idle"]]
    /\ stored = {}

-----------------------------------------------------------------------------
(***************************************************************************)
(* Dynamic evaluation runs                                                  *)
(***************************************************************************)
\* dynamic_evaluation_run: the row is written, then the client has the run id.
StartRun ==
    /\ ~run.answered
    /\ run' = [run EXCEPT !.stored = TRUE, !.answered = run.stored]
    /\ UNCHANGED <<now, episode, inference, feedback, stored>>

\* Mutant: the tags of the run win over those of the episode.
EpisodeRow_RunWins(of, tags) ==
    IF of = "run" /\ run.stored
    THEN [pin |-> run.asked.variant, tags |-> Merge(Merge(tags, [k \in {"run_id"} |-> "run"]), run.asked.tags)]
    ELSE None

\* INSERT ... SELECT from the run: no row if there is no run with that id.
EpisodeRow(of, tags) ==
    IF of = "run" /\ run.stored
    THEN [pin |-> run.asked.variant, tags |-> Merge(run.asked.tags, Merge(tags, [k \in {"run_id"} |-> "run"]))]
    ELSE None

\* dynamic_evaluation_run_episode answers with the id, row or no row.  The run id is one
\* the client was given, or one that no run has.
StartEpisode ==
    /\ episode.id = None
    /\ \E asked \in ClientRequests("episode"), of \in {"run", "unknown"} :
           /\ of = "run" => run.answered
           /\ episode' = [id |-> now + Offset, of |-> of, asked |-> asked.tags,
                          row |-> EpisodeRow(of, asked.tags)]
    /\ UNCHANGED <<now, run, inference, feedback, stored>>

IsDynamic(id) == id # None /\ id >= Offset

-----------------------------------------------------------------------------
(***************************************************************************)
(* Inferences                                                               *)
(***************************************************************************)
\* The variant and the tags that an inference takes from its episode's run.
ApplyRun(asked) ==
    [variant |-> IF asked.variant = None THEN episode.row.pin ELSE asked.variant,
     tags    |-> Merge(episode.row.tags, asked.tags)]

\* A request with the id of a dynamic evaluation run's episode: an error without a row.
InferInRun(i) ==
    /\ inference[i].phase = "idle" /\ now <= LastStart /\ IsDynamic(episode.id)
    /\ \E asked \in ClientRequests("inference") :
           inference' = [inference EXCEPT ![i] =
               IF episode.row = None THEN [phase |-> "error"]
               ELSE [phase |-> "running", id |-> now, at |-> None, asked |-> asked,
                     row |-> ApplyRun(asked)]]
    /\ UNCHANGED <<now, run, episode, feedback, stored>>

\* A request without an episode id (it makes one) or with the one made before.
Infer(i) ==
    /\ inference[i].phase = "idle" /\ now <= LastStart /\ ~IsDynamic(episode.id)
    /\ episode' = IF episode.id = None THEN [episode EXCEPT !.id = now] ELSE episode
    /\ inference' = [inference EXCEPT ![i] =
           [phase |-> "running", id |-> now, at |-> None,
            asked |-> [variant |-> None, tags |-> NoTags],
            row |-> [variant |-> None, tags |-> NoTags]]]
    /\ UNCHANGED <<now, run, feedback, stored>>

\* The write after the answer: the row, and by the views the rows of InferenceById and
\* InferenceByEpisodeId.
WriteInference(i) ==
    /\ inference[i].phase = "running"
    /\ inference' = [inference EXCEPT ![i].phase = "written", ![i].at = now]
    /\ UNCHANGED <<now, run, episode, feedback, stored>>

\* The write fails, or the gateway stops before it.
LoseInference(i) ==
    /\ inference[i].phase = "running"
    /\ inference' = [inference EXCEPT ![i].phase = "lost"]
    /\ UNCHANGED <<now, run, episode, feedback, stored>>

-----------------------------------------------------------------------------
(***************************************************************************)
(* Feedback                                                                 *)
(***************************************************************************)
\* get_feedback_metadata: the level of the feedback, from the metric's level and the ids
\* given, or an error.
Level(kind, metric, given) ==
    LET level == CASE kind = "metric" -> metric
                   [] kind = "demonstration" -> "inference"
                   [] kind = "comment" -> IF Cardinality(given) = 1 THEN CHOOSE l \in given : TRUE
                                          ELSE None
    IN  IF Cardinality(given) < 2 /\ level \in given THEN level ELSE None

\* The time in an id; that of a dynamic evaluation run's episode without the offset.
TimeOf(id) == IF IsDynamic(id) THEN id - Offset ELSE id

\* When the target of a feedback request was made.
Made(f) ==
    TimeOf(IF feedback[f].level = "episode" THEN episode.id ELSE inference[feedback[f].of].id)

\* InferenceById or InferenceByEpisodeId has the target.
Visible(f) ==
    IF feedback[f].level = "episode" THEN \E i \in Inferences : inference[i].phase = "written"
    ELSE inference[feedback[f].of].phase = "written"

\* Mutant: the wait is over once the cooldown after the id's time is.
WaitTime_NoMinimum(made) == Max({Cooldown - (now - made), 0})

\* throttled_get_function_name: how long to poll.
WaitTime(made) == Max({Cooldown - (now - made), MinWait})

\* The id is known to the client with the first chunk of a stream.
HasId(i) == inference[i].phase \in {"running", "written", "lost"}

\* The request is checked, and the first query is sent.
SendFeedback(f) ==
    /\ feedback[f].phase = "idle" /\ now <= LastStart
    /\ \E i \in Inferences, kind \in Kinds, metric \in {"inference", "episode"},
          given \in SUBSET {"inference", "episode"}, fits, dryrun \in BOOLEAN :
           LET level == Level(kind, metric, given)
               made == TimeOf(IF level = "episode" THEN episode.id ELSE inference[i].id)
           IN  /\ HasId(i)
               /\ feedback' = [feedback EXCEPT ![f] =
                      IF level = None THEN [phase |-> "error"]
                      ELSE [phase |-> "query", of |-> i, level |-> level, fits |-> fits,
                            dryrun |-> dryrun, arrived |-> now, sent |-> now,
                            deadline |-> now + WaitTime(made)]]
    /\ UNCHANGED <<now, run, episode, inference, stored>>

\* ClickHouse evaluates the query, or the query fails.
Ask(f) ==
    /\ feedback[f].phase = "query"
    /\ \E result \in {IF Visible(f) THEN "found" ELSE "absent", "failed"} :
           feedback' = [feedback EXCEPT ![f] = [@ EXCEPT !.phase = result]]
    /\ UNCHANGED <<now, run, episode, inference, stored>>

\* Found: the value is checked, a demonstration against what the inference's row says,
\* and the row is written after the answer.
Accept(f) ==
    /\ feedback[f].phase = "found"
    /\ feedback' = [feedback EXCEPT ![f].phase = IF feedback[f].fits THEN "accepted" ELSE "error"]
    /\ UNCHANGED <<now, run, episode, inference, stored>>

\* What the client of the last query is told: "does not exist", or that query's error.
LastResult(f) == IF feedback[f].phase = "absent" THEN "rejected" ELSE "error"

\* Mutant: every query starts the wait anew.
Retry_Restarted(f) ==
    /\ feedback[f].phase \in {"absent", "failed"}
    /\ feedback' = [feedback EXCEPT ![f] =
           IF now >= feedback[f].deadline THEN [@ EXCEPT !.phase = LastResult(f)]
           ELSE [@ EXCEPT !.phase = "sleep", !.sent = now + Poll, !.deadline = now + MinWait]]
    /\ UNCHANGED <<now, run, episode, inference, stored>>

\* Not found, or a failed query: the error at the deadline, else the next query after a
\* sleep.
Retry(f) ==
    /\ feedback[f].phase \in {"absent", "failed"}
    /\ feedback' = [feedback EXCEPT ![f] =
           IF now >= feedback[f].deadline THEN [@ EXCEPT !.phase = LastResult(f)]
           ELSE [@ EXCEPT !.phase = "sleep", !.sent = now + Poll]]
    /\ UNCHANGED <<now, run, episode, inference, stored>>

Wake(f) ==
    /\ feedback[f].phase = "sleep" /\ feedback[f].sent <= now
    /\ feedback' = [feedback EXCEPT ![f].phase = "query"]
    /\ UNCHANGED <<now, run, episode, inference, stored>>

\* The spawned write of an accepted feedback; its failure is ignored.
WriteFeedback(f) ==
    /\ feedback[f].phase = "accepted" /\ ~feedback[f].dryrun /\ f \notin stored
    /\ stored' = stored \cup {f}
    /\ UNCHANGED <<now, run, episode, inference, feedback>>

-----------------------------------------------------------------------------
\* A query takes at most Latency and a sleep ends on time.
Urgent(f) ==
    \/ feedback[f].phase \in {"query", "found", "absent", "failed"} /\ now >= feedback[f].sent + Latency
    \/ feedback[f].phase = "sleep" /\ now >= feedback[f].sent

Tick ==
    /\ now < MaxTime
    /\ \A f \in Feedbacks : ~Urgent(f)
    /\ now' = now + 1
    /\ UNCHANGED <<run, episode, inference, feedback, stored>>

StepInference(i) ==
    InferInRun(i) \/ Infer(i) \/ WriteInference(i) \/ LoseInference(i)

\* The steps of a request that was sent.
StepFeedback(f) == Ask(f) \/ Accept(f) \/ Retry(f) \/ Wake(f)

TimeIsUp == now = MaxTime /\ UNCHANGED vars

Next ==
    \/ StartRun \/ StartEpisode \/ Tick \/ TimeIsUp
    \/ \E i \in Inferences : StepInference(i)
    \/ \E f \in Feedbacks : SendFeedback(f) \/ StepFeedback(f) \/ WriteFeedback(f)

Spec == Init /\ [][Next]_vars

\* Time passes, and the gateway runs the handlers it has started.
FairSpec == Spec /\ WF_vars(Tick) /\ \A f \in Feedbacks : WF_vars(StepFeedback(f))

-----------------------------------------------------------------------------
(***************************************************************************)
(* Properties                                                               *)
(***************************************************************************)
\* Feedback is not rejected for a target whose row is visible one query before the end
\* of the cooldown after the id's time, or of the minimum wait after the feedback came,
\* whichever is later: the last query is the one that decides.  And a feedback row always
\* has its target in the database, whatever became of other inferences of the episode.
FeedbackFollowsTarget ==
    /\ \A f \in Feedbacks : feedback[f].phase = "rejected" =>
          \A i \in Inferences :
              /\ inference[i].phase = "written"
              /\ feedback[f].level = "episode" \/ feedback[f].of = i
              => inference[i].at + Latency
                     >= Max({Made(f) + Cooldown, feedback[f].arrived + MinWait})
    /\ \A f \in stored : Visible(f) /\ feedback[f].fits

\* A client that uses the run id it was given gets an episode that inferences can use, and
\* every inference of it carries the run's id and the most specific of the values given
\* for a tag, and uses the run's pin unless it named a variant itself.
InferenceFollowsRun ==
    /\ episode.of = "run" => episode.row # None
    /\ \A i \in Inferences : HasId(i) /\ IsDynamic(episode.id) =>
          LET given == <<inference[i].asked.tags, episode.asked, run.asked.tags>>
              first(k) == CHOOSE n \in 1 .. 3 : k \in DOMAIN given[n]
                              /\ \A m \in 1 .. (n - 1) : k \notin DOMAIN given[m]
              row == inference[i].row
          IN  /\ row.tags["run_id"] = "run"
              /\ "user" \in DOMAIN row.tags <=> \E n \in 1 .. 3 : "user" \in DOMAIN given[n]
              /\ "user" \in DOMAIN row.tags => row.tags["user"] = given[first("user")]["user"]
              /\ row.variant = (IF inference[i].asked.variant # None THEN inference[i].asked.variant
                                ELSE run.asked.variant)

\* Every feedback request is answered, target or no target.
FeedbackIsAnswered ==
    \A f \in Feedbacks :
        feedback[f].phase = "query" ~> feedback[f].phase \in {"accepted", "rejected", "error"}
=============================================================================
