--------------------------- MODULE EpisodesProofs ---------------------------
(***************************************************************************)
(* Proofs about Episodes, for any number of inferences and feedback         *)
(* requests, any cooldown, minimum wait, poll interval and query latency,   *)
(* and any length of time.                                                  *)
(*                                                                          *)
(* The argument for feedback is about time.  A query that finds nothing was *)
(* evaluated after it was sent, so a row it missed was written later than   *)
(* that (Missed); it is answered at most Latency after it was sent          *)
(* (InTime); and the deadline never moves (Deadlines).  The argument for    *)
(* runs is that a row copied from another is a copy for good (Copied).      *)
(***************************************************************************)
EXTENDS Episodes, TLAPS

\* An inference request that was not accepted, and one that has an id.
NoInference == [phase : {"idle", "error"}]
AnInference ==
    [phase : {"running", "written", "lost"}, id : 0 .. MaxTime, at : {None} \cup 0 .. MaxTime,
     asked : ClientRequests("inference"), row : [variant : {"run", "inference", None}, tags : TagMaps]]

\* A feedback request that was refused at once, and one that was looked into.
NoFeedback == [phase : {"idle", "error"}]
AFeedback ==
    [phase : {"query", "found", "absent", "failed", "sleep", "accepted", "rejected", "error"},
     of : Inferences, level : {"inference", "episode"}, fits : BOOLEAN, dryrun : BOOLEAN,
     arrived : 0 .. MaxTime, sent : Nat, deadline : Nat]

Runs ==
    /\ now \in 0 .. MaxTime
    /\ run \in [asked : ClientRequests("run"), stored : BOOLEAN, answered : BOOLEAN]
    /\ run.answered => run.stored

\* An episode id is made by an inference, now, or for a run, Offset later.
EpisodeIds ==
    /\ episode \in [id : {None} \cup 0 .. MaxTime \cup Offset .. (Offset + MaxTime),
                    of : {None, "run", "unknown"},
                    asked : {asked.tags : asked \in ClientRequests("episode")} \cup {NoTags},
                    row : EpisodeRows \cup {None}]
    /\ episode.id = None => episode.of = None
    /\ \A i \in Inferences : HasId(i) => episode.id # None

\* The row of the run's episode is a copy of the run, and no other episode has one.
Copied ==
    /\ episode.of = "run" => run.stored /\ episode.row = EpisodeRow("run", episode.asked)
    /\ episode.of # "run" => episode.row = None
    /\ \A i \in Inferences : HasId(i) /\ IsDynamic(episode.id) =>
          episode.row # None /\ inference[i].row = ApplyRun(inference[i].asked)

InferenceTypes ==
    /\ inference \in [Inferences -> NoInference \cup AnInference]
    /\ \A i \in Inferences : inference[i].phase = "written" =>
          inference[i].at \in 0 .. MaxTime /\ inference[i].at <= now

\* A request that was looked into has its fields.
Looked(f) == feedback[f].phase \notin {"idle", "error"}

FeedbackType(f) ==
    /\ feedback[f] \in NoFeedback \cup AFeedback
    /\ Looked(f) => HasId(feedback[f].of)

\* The row of i makes the target of f visible.
Target(f, i) == feedback[f].level = "episode" \/ feedback[f].of = i

\* The deadline stays where the request's arrival and the target's id put it.
Deadline(f) ==
    Looked(f) =>
        feedback[f].deadline = Max({Made(f) + Cooldown, feedback[f].arrived + MinWait})

\* A query is answered within Latency, and a sleep ends on time.
InTime(f) ==
    /\ feedback[f].phase \in {"query", "found", "absent", "failed"} =>
          feedback[f].sent <= now /\ now <= feedback[f].sent + Latency
    /\ feedback[f].phase = "sleep" => now <= feedback[f].sent
    /\ feedback[f].phase = "rejected" => feedback[f].deadline <= now

\* What a query found nothing of was written after the query was sent; and what a
\* rejected request never found, at most Latency before its deadline.
Missed(f) ==
    \A i \in Inferences : inference[i].phase = "written" =>
        /\ feedback[f].phase = "absent" /\ Target(f, i) =>
              inference[i].at >= feedback[f].sent
        /\ feedback[f].phase = "rejected" /\ Target(f, i) =>
              inference[i].at + Latency >= feedback[f].deadline

\* What was found is visible for good, and only such requests are accepted and stored.
Found(f) ==
    /\ feedback[f].phase \in {"found", "accepted"} => Visible(f)
    /\ feedback[f].phase = "accepted" => feedback[f].fits
    /\ f \in stored => feedback[f].phase = "accepted"

FeedbackInv(f) == FeedbackType(f) /\ Deadline(f) /\ InTime(f) /\ Missed(f) /\ Found(f)

RunInv == Runs /\ EpisodeIds /\ Copied /\ InferenceTypes

IInv ==
    /\ RunInv
    /\ feedback \in [Feedbacks -> NoFeedback \cup AFeedback]
    /\ stored \subseteq Feedbacks
    /\ \A f \in Feedbacks : FeedbackInv(f)

-----------------------------------------------------------------------------
(***************************************************************************)
(* Lemmas                                                                   *)
(***************************************************************************)

\* The constants are numbers.
LEMMA Numbers ==
    /\ Cooldown \in Nat /\ MinWait \in Nat /\ Poll \in Nat /\ Latency \in Nat
    /\ LastStart \in Nat /\ Offset \in Nat
    /\ MaxTime \in Nat /\ MaxTime < Offset /\ 0 < Poll
BY EpisodesAssumption

\* The larger of two numbers.
LEMMA MaxOfTwo ==
    ASSUME NEW a \in Int, NEW b \in Int
    PROVE  Max({a, b}) = IF a >= b THEN a ELSE b
<1> DEFINE m == IF a >= b THEN a ELSE b
<1>1. m \in {a, b} /\ \A y \in {a, b} : m >= y
  OBVIOUS
<1>2. \A x \in {a, b} : (\A y \in {a, b} : x >= y) => x = m
  OBVIOUS
<1>3. QED
  BY <1>1, <1>2 DEF Max

\* The deadline a wait from now on leads to.
LEMMA DeadlineOfWait ==
    ASSUME NEW made \in Int, now \in Nat
    PROVE  /\ now + WaitTime(made) = Max({made + Cooldown, now + MinWait})
           /\ now + WaitTime(made) \in Nat
<1> USE Numbers
<1>1. /\ Cooldown - (now - made) \in Int /\ made + Cooldown \in Int /\ now + MinWait \in Int
  OBVIOUS
<1>2. WaitTime(made) = IF Cooldown - (now - made) >= MinWait THEN Cooldown - (now - made)
                       ELSE MinWait
  BY <1>1, MaxOfTwo DEF WaitTime
<1>3. Max({made + Cooldown, now + MinWait}) =
         IF made + Cooldown >= now + MinWait THEN made + Cooldown ELSE now + MinWait
  BY <1>1, MaxOfTwo
<1>4. QED
  BY <1>2, <1>3

\* A looked-into request has all its fields.
LEMMA LookedFields ==
    ASSUME NEW f, FeedbackType(f), Looked(f)
    PROVE  feedback[f] \in AFeedback
BY DEF FeedbackType, Looked, NoFeedback

\* An inference with an id has all its fields.
LEMMA HasIdFields ==
    ASSUME RunInv, NEW i \in Inferences
    PROVE  /\ HasId(i) => inference[i] \in AnInference
           /\ inference[i].phase = "written" => HasId(i)
BY DEF RunInv, InferenceTypes, HasId, NoInference

\* The time in an id is a time up to now.
LEMMA MadeType ==
    ASSUME RunInv, NEW f \in Feedbacks, FeedbackType(f), Looked(f)
    PROVE  Made(f) \in Int
<1> USE Numbers
<1>1. feedback[f] \in AFeedback /\ HasId(feedback[f].of)
  BY LookedFields DEF FeedbackType
<1>2. feedback[f].of \in Inferences
  BY <1>1 DEF AFeedback
<1>3. inference[feedback[f].of].id \in Int
  BY <1>1, <1>2, HasIdFields DEF AnInference
<1>4. episode.id \in Int
  BY <1>1, <1>2 DEF RunInv, EpisodeIds
<1>5. QED
  BY <1>3, <1>4 DEF Made, TimeOf

\* Ids, once there, stay; so do rows, and a row that is new is written now.
Grows ==
    /\ UNCHANGED <<now, feedback, stored>>
    /\ episode.id # None => episode'.id = episode.id
    /\ \A i \in Inferences : HasId(i) => HasId(i)' /\ inference'[i].id = inference[i].id
    /\ \A i \in Inferences : inference[i].phase = "written" =>
          inference'[i].phase = "written" /\ inference'[i].at = inference[i].at
    /\ \A i \in Inferences : inference'[i].phase = "written" =>
          inference[i].phase = "written" \/ inference'[i].at = now

\* What runs, episodes and inferences do leaves the feedback requests right: a row that
\* appears now is later than the queries that missed it.
LEMMA FeedbackStays ==
    ASSUME IInv, Grows, RunInv'
    PROVE  IInv'
<1> USE Numbers
<1>1. ASSUME NEW f \in Feedbacks PROVE FeedbackInv(f)'
  <2>1. /\ FeedbackType(f) /\ Deadline(f) /\ InTime(f) /\ Missed(f) /\ Found(f) /\ RunInv
        /\ feedback'[f] = feedback[f] /\ Looked(f)' = Looked(f) /\ now' = now
    BY DEF IInv, FeedbackInv, Grows, Looked
  <2>2. Looked(f) => feedback[f] \in AFeedback /\ feedback[f].of \in Inferences
    BY <2>1, LookedFields DEF AFeedback
  <2>3. FeedbackType(f)'
    BY <2>1, <2>2 DEF FeedbackType, Grows
  <2>4. Looked(f) => Made(f)' = Made(f)
    <3>1. SUFFICES ASSUME Looked(f) PROVE Made(f)' = Made(f)
      OBVIOUS
    <3>2. HasId(feedback[f].of) /\ episode.id # None
      BY <2>1, <2>2, <3>1 DEF FeedbackType, RunInv, EpisodeIds
    <3>3. episode'.id = episode.id /\ inference'[feedback[f].of].id = inference[feedback[f].of].id
      BY <2>2, <3>1, <3>2 DEF Grows
    <3>4. QED
      BY <2>1, <3>3 DEF Made, TimeOf, IsDynamic
  <2>5. Deadline(f)'
    BY <2>1, <2>4 DEF Deadline
  <2>6. InTime(f)'
    BY <2>1 DEF InTime
  <2>7. Missed(f)'
    <3>1. ASSUME NEW i \in Inferences, inference'[i].phase = "written"
          PROVE  /\ feedback[f].phase = "absent" /\ Target(f, i) =>
                       inference'[i].at >= feedback[f].sent
                 /\ feedback[f].phase = "rejected" /\ Target(f, i) =>
                       inference'[i].at + Latency >= feedback[f].deadline
      <4>1. CASE inference[i].phase = "written"
        BY <2>1, <4>1 DEF Missed, Grows
      <4>2. CASE inference'[i].at = now
        <5>1. feedback[f].phase \in {"absent", "rejected"} =>
                feedback[f].sent \in Nat /\ feedback[f].deadline \in Nat
          BY <2>2 DEF Looked, AFeedback
        <5>2. now \in Nat
          BY <2>1 DEF RunInv, Runs
        <5>3. QED
          BY <2>1, <4>2, <5>1, <5>2 DEF InTime
      <4>3. QED
        BY <3>1, <4>1, <4>2 DEF Grows
    <3>2. QED
      BY <2>1, <3>1 DEF Missed, Target
  <2>8. Found(f)'
    <3>1. feedback[f].phase \in {"found", "accepted"} => Visible(f)'
      BY <2>1, <2>2 DEF Found, Visible, Grows, Looked
    <3>2. QED
      BY <2>1, <3>1 DEF Found, Grows
  <2>9. QED
    BY <2>3, <2>5, <2>6, <2>7, <2>8 DEF FeedbackInv
<1>2. QED
  BY <1>1 DEF IInv, Grows

\* A step of one feedback request: the runs and the other requests are left alone.
LEMMA OneFeedback ==
    ASSUME IInv, NEW f \in Feedbacks, UNCHANGED <<now, run, episode, inference>>,
           NEW new \in NoFeedback \cup AFeedback,
           feedback' = [feedback EXCEPT ![f] = new],
           stored' \subseteq Feedbacks, \A g \in Feedbacks \ {f} : g \in stored' => g \in stored,
           FeedbackInv(f)'
    PROVE  IInv'
<1>1. RunInv'
  BY DEF IInv, RunInv, Runs, EpisodeIds, Copied, InferenceTypes, HasId, IsDynamic, EpisodeRow,
         ApplyRun
<1>2. ASSUME NEW g \in Feedbacks, g # f PROVE FeedbackInv(g)'
  <2>1. feedback'[g] = feedback[g] /\ FeedbackInv(g)
    BY <1>2 DEF IInv
  <2>2. FeedbackType(g)' /\ Deadline(g)' /\ InTime(g)'
    BY <2>1 DEF FeedbackInv, FeedbackType, Deadline, InTime, Looked, HasId, Made, TimeOf, IsDynamic
  <2>3. Missed(g)' /\ Found(g)'
    BY <1>2, <2>1 DEF FeedbackInv, Missed, Target, Found, Visible
  <2>4. QED
    BY <2>2, <2>3 DEF FeedbackInv
<1>3. feedback' \in [Feedbacks -> NoFeedback \cup AFeedback]
  BY DEF IInv
<1>4. QED
  BY <1>1, <1>2, <1>3 DEF IInv

\* A request that moves on keeps its target, its arrival and its deadline.
LEMMA FeedbackMoves ==
    ASSUME IInv, NEW f \in Feedbacks, Looked(f), NEW when \in Nat,
           NEW where \in {"query", "found", "absent", "failed", "sleep", "accepted", "rejected", "error"},
           UNCHANGED <<now, run, episode, inference>>,
           feedback' = [feedback EXCEPT ![f] = [feedback[f] EXCEPT !.phase = where, !.sent = when]]
    PROVE  /\ feedback'[f] \in AFeedback
           /\ feedback'[f].phase = where /\ feedback'[f].sent = when
           /\ feedback'[f].of = feedback[f].of /\ feedback'[f].level = feedback[f].level
           /\ feedback'[f].fits = feedback[f].fits
           /\ feedback'[f].deadline = feedback[f].deadline
           /\ feedback' = [feedback EXCEPT ![f] = feedback'[f]]
           /\ FeedbackType(f)' /\ Deadline(f)'
<1> DEFINE new == [feedback[f] EXCEPT !.phase = where, !.sent = when]
<1>1. FeedbackType(f) /\ Deadline(f)
  BY DEF IInv, FeedbackInv
<1>2. feedback[f] \in AFeedback
  BY <1>1, LookedFields
<1>3. /\ new \in AFeedback /\ new.phase = where /\ new.sent = when
      /\ new.of = feedback[f].of /\ new.level = feedback[f].level
      /\ new.fits = feedback[f].fits /\ new.deadline = feedback[f].deadline
      /\ new.arrived = feedback[f].arrived
  BY <1>2 DEF AFeedback
<1>4. feedback'[f] = new
  BY DEF IInv
<1> HIDE DEF new
<1>5. FeedbackType(f)'
  BY <1>1, <1>3, <1>4 DEF FeedbackType, HasId
<1>6. Made(f)' = Made(f)
  BY <1>3, <1>4 DEF Made, TimeOf, IsDynamic
<1>7. Deadline(f)'
  BY <1>1, <1>3, <1>4, <1>6 DEF Deadline
<1>8. QED
  BY <1>3, <1>4, <1>5, <1>7 DEF new

\* get_feedback_metadata gives one of the two levels, or an error.
LEMMA LevelType ==
    ASSUME NEW kind, NEW metric, NEW given \in SUBSET {"inference", "episode"},
           Level(kind, metric, given) # None
    PROVE  Level(kind, metric, given) \in {"inference", "episode"}
BY DEF Level

\* The request is refused, or its first query is sent and its deadline set.
LEMMA SendFeedbackStep ==
    ASSUME IInv, NEW f \in Feedbacks, SendFeedback(f)
    PROVE  IInv'
<1> USE Numbers
<1>1. PICK i \in Inferences, kind \in Kinds, metric \in {"inference", "episode"},
           given \in SUBSET {"inference", "episode"}, fits \in BOOLEAN, dryrun \in BOOLEAN :
        LET level == Level(kind, metric, given)
            made == TimeOf(IF level = "episode" THEN episode.id ELSE inference[i].id)
        IN  /\ HasId(i)
            /\ feedback' = [feedback EXCEPT ![f] =
                   IF level = None THEN [phase |-> "error"]
                   ELSE [phase |-> "query", of |-> i, level |-> level, fits |-> fits,
                         dryrun |-> dryrun, arrived |-> now, sent |-> now,
                         deadline |-> now + WaitTime(made)]]
  BY DEF SendFeedback
<1> DEFINE level == Level(kind, metric, given)
           made == TimeOf(IF level = "episode" THEN episode.id ELSE inference[i].id)
           new == [phase |-> "query", of |-> i, level |-> level, fits |-> fits,
                   dryrun |-> dryrun, arrived |-> now, sent |-> now,
                   deadline |-> now + WaitTime(made)]
<1>2. UNCHANGED <<now, run, episode, inference, stored>> /\ feedback[f].phase = "idle" /\ HasId(i)
  BY <1>1 DEF SendFeedback
<1>3. f \notin stored
  BY <1>2 DEF IInv, FeedbackInv, Found
<1>4. CASE level = None
  <2>1. feedback' = [feedback EXCEPT ![f] = [phase |-> "error"]]
    BY <1>1, <1>4
  <2>2. feedback'[f] = [phase |-> "error"] /\ [phase |-> "error"] \in NoFeedback
    BY <2>1 DEF IInv, NoFeedback
  <2>3. FeedbackInv(f)'
    BY <1>2, <1>3, <2>2 DEF FeedbackInv, FeedbackType, Looked, Deadline, InTime, Missed, Found
  <2>4. QED
    BY <1>2, <2>1, <2>2, <2>3, OneFeedback DEF IInv
<1>5. CASE level # None
  <2>1. feedback' = [feedback EXCEPT ![f] = new]
    BY <1>1, <1>5
  <2>2. level \in {"inference", "episode"}
    BY <1>5, LevelType
  <2>3. now \in 0 .. MaxTime
    BY DEF IInv, RunInv, Runs
  <2>4. made \in Int
    <3>1. inference[i].id \in Int
      BY <1>2, HasIdFields DEF IInv, AnInference
    <3>2. episode.id \in Int
      BY <1>2 DEF IInv, RunInv, EpisodeIds
    <3>3. QED
      BY <3>1, <3>2 DEF TimeOf
  <2> HIDE DEF made, level
  <2>5. /\ now + WaitTime(made) \in Nat
        /\ now + WaitTime(made) = Max({made + Cooldown, now + MinWait})
    BY <2>3, <2>4, DeadlineOfWait
  <2>6. new \in AFeedback
    BY <2>2, <2>3, <2>5 DEF AFeedback
  <2>7. feedback'[f] = new
    BY <2>1 DEF IInv
  <2>8. FeedbackType(f)'
    BY <1>2, <2>6, <2>7 DEF FeedbackType, HasId
  <2>9. Made(f)' = made
    BY <1>2, <2>7 DEF Made, made, TimeOf, IsDynamic
  <2>10. Deadline(f)'
    BY <2>5, <2>7, <2>9 DEF Deadline
  <2>11. InTime(f)' /\ Missed(f)' /\ Found(f)'
    BY <1>2, <1>3, <2>3, <2>7 DEF InTime, Missed, Found
  <2>12. FeedbackInv(f)'
    BY <2>8, <2>10, <2>11 DEF FeedbackInv
  <2>13. QED
    BY <1>2, <2>1, <2>6, <2>12, OneFeedback DEF IInv
<1>6. QED
  BY <1>4, <1>5

\* The query is evaluated: what it does not find is written later, if at all.  A query
\* that fails says nothing.
LEMMA AskStep ==
    ASSUME IInv, NEW f \in Feedbacks, Ask(f)
    PROVE  IInv'
<1>1. /\ feedback[f].phase = "query" /\ Looked(f)
      /\ UNCHANGED <<now, run, episode, inference, stored>>
  BY DEF Ask, Looked
<1>2. FeedbackType(f) /\ InTime(f) /\ Found(f) /\ stored \subseteq Feedbacks
  BY DEF IInv, FeedbackInv
<1>3. feedback[f] \in AFeedback /\ feedback[f].sent \in Nat
  BY <1>1, <1>2, LookedFields DEF AFeedback
<1>4. PICK where \in {"found", "absent", "failed"} :
         /\ where = "found" => Visible(f)
         /\ where = "absent" => ~Visible(f)
         /\ feedback' = [feedback EXCEPT ![f] = [feedback[f] EXCEPT !.phase = where]]
  BY DEF Ask
<1>5. feedback' = [feedback EXCEPT ![f] =
                      [feedback[f] EXCEPT !.phase = where, !.sent = feedback[f].sent]]
  BY <1>3, <1>4 DEF AFeedback
<1>6. /\ feedback'[f] \in AFeedback
      /\ feedback'[f].phase = where /\ feedback'[f].sent = feedback[f].sent
      /\ feedback'[f].of = feedback[f].of /\ feedback'[f].level = feedback[f].level
      /\ feedback' = [feedback EXCEPT ![f] = feedback'[f]]
      /\ FeedbackType(f)' /\ Deadline(f)'
  <2>1. where \in {"query", "found", "absent", "failed", "sleep", "accepted", "rejected", "error"}
    BY <1>4
  <2>2. QED
    BY <1>1, <1>3, <1>5, <2>1, FeedbackMoves
<1>7. InTime(f)'
  BY <1>1, <1>2, <1>4, <1>6 DEF InTime
<1>8. Found(f)'
  BY <1>1, <1>2, <1>4, <1>6 DEF Found, Visible
<1>9. Missed(f)'
  <2>1. ASSUME NEW i \in Inferences, inference[i].phase = "written", Target(f, i)
        PROVE  where # "absent"
    BY <1>4, <2>1 DEF Target, Visible
  <2>2. \A i \in Inferences : Target(f, i)' <=> Target(f, i)
    BY <1>6 DEF Target
  <2>3. QED
    BY <1>1, <1>4, <1>6, <2>1, <2>2 DEF Missed
<1>10. FeedbackInv(f)'
  BY <1>6, <1>7, <1>8, <1>9 DEF FeedbackInv
<1>11. QED
  BY <1>1, <1>2, <1>6, <1>10, OneFeedback

\* A found request is accepted, or its value is refused.
LEMMA AcceptStep ==
    ASSUME IInv, NEW f \in Feedbacks, Accept(f)
    PROVE  IInv'
<1>1. /\ feedback[f].phase = "found" /\ Looked(f)
      /\ UNCHANGED <<now, run, episode, inference, stored>>
  BY DEF Accept, Looked
<1>2. FeedbackType(f) /\ Found(f) /\ stored \subseteq Feedbacks
  BY DEF IInv, FeedbackInv
<1>3. feedback[f] \in AFeedback /\ feedback[f].sent \in Nat /\ feedback[f].fits \in BOOLEAN
  BY <1>1, <1>2, LookedFields DEF AFeedback
<1>4. PICK where \in {"accepted", "error"} :
         /\ where = "accepted" => feedback[f].fits
         /\ feedback' = [feedback EXCEPT ![f] = [feedback[f] EXCEPT !.phase = where]]
  BY <1>3 DEF Accept
<1>5. feedback' = [feedback EXCEPT ![f] =
                      [feedback[f] EXCEPT !.phase = where, !.sent = feedback[f].sent]]
  BY <1>3, <1>4 DEF AFeedback
<1>6. /\ feedback'[f] \in AFeedback
      /\ feedback'[f].phase = where
      /\ feedback'[f].of = feedback[f].of /\ feedback'[f].level = feedback[f].level
      /\ feedback'[f].fits = feedback[f].fits
      /\ feedback' = [feedback EXCEPT ![f] = feedback'[f]]
      /\ FeedbackType(f)' /\ Deadline(f)'
  <2>1. where \in {"query", "found", "absent", "failed", "sleep", "accepted", "rejected", "error"}
    BY <1>4
  <2>2. QED
    BY <1>1, <1>3, <1>5, <2>1, FeedbackMoves
<1>7. InTime(f)' /\ Missed(f)'
  BY <1>4, <1>6 DEF InTime, Missed
<1>8. Found(f)'
  BY <1>1, <1>2, <1>4, <1>6 DEF Found, Visible
<1>9. FeedbackInv(f)'
  BY <1>6, <1>7, <1>8 DEF FeedbackInv
<1>10. QED
  BY <1>1, <1>2, <1>6, <1>9, OneFeedback

\* The target is not there: the request is rejected at the deadline, which its last query
\* was sent at most Latency before; or it sleeps.  So it does after a failed query, whose
\* error it returns at the deadline.
LEMMA RetryStep ==
    ASSUME IInv, NEW f \in Feedbacks, Retry(f)
    PROVE  IInv'
<1> USE Numbers
<1>1. /\ feedback[f].phase \in {"absent", "failed"} /\ Looked(f)
      /\ UNCHANGED <<now, run, episode, inference, stored>>
  BY DEF Retry, Looked
<1>2. /\ FeedbackType(f) /\ InTime(f) /\ Missed(f) /\ Found(f)
      /\ stored \subseteq Feedbacks /\ now \in Nat
  BY DEF IInv, FeedbackInv, RunInv, Runs
<1>3. feedback[f] \in AFeedback /\ feedback[f].sent \in Nat /\ feedback[f].deadline \in Nat
  BY <1>1, <1>2, LookedFields DEF AFeedback
<1>4. CASE now >= feedback[f].deadline /\ feedback[f].phase = "absent"
  <2>1. feedback' = [feedback EXCEPT ![f] =
                        [feedback[f] EXCEPT !.phase = "rejected", !.sent = feedback[f].sent]]
    BY <1>3, <1>4 DEF Retry, LastResult, AFeedback
  <2>2. /\ feedback'[f] \in AFeedback
        /\ feedback'[f].phase = "rejected"
        /\ feedback'[f].of = feedback[f].of /\ feedback'[f].level = feedback[f].level
        /\ feedback'[f].deadline = feedback[f].deadline
        /\ feedback' = [feedback EXCEPT ![f] = feedback'[f]]
        /\ FeedbackType(f)' /\ Deadline(f)'
    BY <1>1, <1>3, <2>1, FeedbackMoves
  <2>3. InTime(f)' /\ Found(f)'
    BY <1>1, <1>2, <1>4, <2>2 DEF InTime, Found
  <2>4. ASSUME NEW i \in Inferences, inference[i].phase = "written", Target(f, i)
        PROVE  inference[i].at + Latency >= feedback[f].deadline
    <3>1. inference[i].at >= feedback[f].sent /\ now <= feedback[f].sent + Latency
      BY <1>2, <1>4, <2>4 DEF Missed, InTime
    <3>2. inference[i].at \in Nat
      BY <2>4 DEF IInv, RunInv, InferenceTypes
    <3>3. QED
      BY <1>2, <1>3, <1>4, <3>1, <3>2
  <2>5. \A i \in Inferences : Target(f, i)' <=> Target(f, i)
    BY <2>2 DEF Target
  <2>6. Missed(f)'
    BY <1>1, <2>2, <2>4, <2>5 DEF Missed
  <2>7. FeedbackInv(f)'
    BY <2>2, <2>3, <2>6 DEF FeedbackInv
  <2>8. QED
    BY <1>1, <1>2, <2>2, <2>7, OneFeedback
<1>5. CASE ~(now >= feedback[f].deadline)
  <2>1. feedback' = [feedback EXCEPT ![f] =
                        [feedback[f] EXCEPT !.phase = "sleep", !.sent = now + Poll]]
    BY <1>5 DEF Retry
  <2>2. /\ feedback'[f] \in AFeedback
        /\ feedback'[f].phase = "sleep" /\ feedback'[f].sent = now + Poll
        /\ feedback' = [feedback EXCEPT ![f] = feedback'[f]]
        /\ FeedbackType(f)' /\ Deadline(f)'
    <3>1. now + Poll \in Nat
      BY <1>2
    <3>2. QED
      BY <1>1, <2>1, <3>1, FeedbackMoves
  <2>3. InTime(f)' /\ Missed(f)' /\ Found(f)'
    BY <1>1, <1>2, <2>2 DEF InTime, Missed, Found
  <2>4. FeedbackInv(f)'
    BY <2>2, <2>3 DEF FeedbackInv
  <2>5. QED
    BY <1>1, <1>2, <2>2, <2>4, OneFeedback
<1>6. CASE now >= feedback[f].deadline /\ feedback[f].phase = "failed"
  <2>1. feedback' = [feedback EXCEPT ![f] =
                        [feedback[f] EXCEPT !.phase = "error", !.sent = feedback[f].sent]]
    BY <1>3, <1>6 DEF Retry, LastResult, AFeedback
  <2>2. /\ feedback'[f] \in AFeedback /\ feedback'[f].phase = "error"
        /\ feedback' = [feedback EXCEPT ![f] = feedback'[f]]
        /\ FeedbackType(f)' /\ Deadline(f)'
    BY <1>1, <1>3, <2>1, FeedbackMoves
  <2>3. InTime(f)' /\ Missed(f)' /\ Found(f)'
    BY <1>1, <1>2, <2>2 DEF InTime, Missed, Found
  <2>4. FeedbackInv(f)'
    BY <2>2, <2>3 DEF FeedbackInv
  <2>5. QED
    BY <1>1, <1>2, <2>2, <2>4, OneFeedback
<1>7. QED
  BY <1>1, <1>4, <1>5, <1>6

\* The next query is sent when the sleep ends.
LEMMA WakeStep ==
    ASSUME IInv, NEW f \in Feedbacks, Wake(f)
    PROVE  IInv'
<1> USE Numbers
<1>1. /\ feedback[f].phase = "sleep" /\ Looked(f) /\ feedback[f].sent <= now
      /\ UNCHANGED <<now, run, episode, inference, stored>>
      /\ feedback' = [feedback EXCEPT ![f] = [feedback[f] EXCEPT !.phase = "query"]]
  BY DEF Wake, Looked
<1>2. FeedbackType(f) /\ InTime(f) /\ Found(f) /\ stored \subseteq Feedbacks /\ now \in Nat
  BY DEF IInv, FeedbackInv, RunInv, Runs
<1>3. feedback[f] \in AFeedback /\ feedback[f].sent \in Nat
  BY <1>1, <1>2, LookedFields DEF AFeedback
<1>4. feedback' = [feedback EXCEPT ![f] =
                      [feedback[f] EXCEPT !.phase = "query", !.sent = feedback[f].sent]]
  BY <1>1, <1>3 DEF AFeedback
<1>5. /\ feedback'[f] \in AFeedback
      /\ feedback'[f].phase = "query" /\ feedback'[f].sent = feedback[f].sent
      /\ feedback' = [feedback EXCEPT ![f] = feedback'[f]]
      /\ FeedbackType(f)' /\ Deadline(f)'
  BY <1>1, <1>3, <1>4, FeedbackMoves
<1>6. InTime(f)' /\ Missed(f)' /\ Found(f)'
  BY <1>1, <1>2, <1>3, <1>5 DEF InTime, Missed, Found
<1>7. FeedbackInv(f)'
  BY <1>5, <1>6 DEF FeedbackInv
<1>8. QED
  BY <1>1, <1>2, <1>5, <1>7, OneFeedback

\* An accepted request is stored.
LEMMA WriteFeedbackStep ==
    ASSUME IInv, NEW f \in Feedbacks, WriteFeedback(f)
    PROVE  IInv'
<1>1. /\ feedback[f].phase = "accepted" /\ stored' = stored \cup {f}
      /\ UNCHANGED <<now, run, episode, inference, feedback>>
  BY DEF WriteFeedback
<1>2. /\ FeedbackInv(f) /\ feedback[f] \in NoFeedback \cup AFeedback
      /\ feedback' = [feedback EXCEPT ![f] = feedback[f]]
      /\ stored' \subseteq Feedbacks
  BY <1>1 DEF IInv
<1>3. FeedbackType(f)' /\ Deadline(f)' /\ InTime(f)' /\ Missed(f)'
  BY <1>1, <1>2 DEF FeedbackInv, FeedbackType, Deadline, InTime, Looked, HasId, Made, TimeOf,
                    IsDynamic, Missed, Target
<1>4. Found(f)'
  BY <1>1, <1>2 DEF FeedbackInv, Found, Visible
<1>5. FeedbackInv(f)'
  BY <1>3, <1>4 DEF FeedbackInv
<1>6. QED
  BY <1>1, <1>2, <1>5, OneFeedback

\* Time passes, unless an answer or the end of a sleep is due.
LEMMA TickStep ==
    ASSUME IInv, Tick
    PROVE  IInv'
<1> USE Numbers
<1>1. /\ now < MaxTime /\ now' = now + 1 /\ now \in 0 .. MaxTime
      /\ UNCHANGED <<run, episode, inference, feedback, stored>>
  BY DEF Tick, IInv, RunInv, Runs
<1>2. RunInv'
  <2>1. Runs'
    BY <1>1 DEF IInv, RunInv, Runs
  <2>2. EpisodeIds' /\ Copied'
    BY <1>1 DEF IInv, RunInv, EpisodeIds, Copied, HasId, IsDynamic, EpisodeRow, ApplyRun
  <2>3. InferenceTypes'
    BY <1>1 DEF IInv, RunInv, InferenceTypes
  <2>4. QED
    BY <2>1, <2>2, <2>3 DEF RunInv
<1>3. ASSUME NEW f \in Feedbacks PROVE FeedbackInv(f)'
  <2>1. FeedbackInv(f) /\ ~Urgent(f)
    BY DEF IInv, Tick
  <2>2. FeedbackType(f)' /\ Deadline(f)' /\ Missed(f)' /\ Found(f)'
    BY <1>1, <2>1 DEF FeedbackInv, FeedbackType, Deadline, Looked, HasId, Made, TimeOf, IsDynamic,
                      Missed, Target, Found, Visible
  <2>3. Looked(f) => feedback[f].sent \in Nat /\ feedback[f].deadline \in Nat
    BY <2>1, LookedFields DEF FeedbackInv, AFeedback
  <2>4. InTime(f)'
    BY <1>1, <2>1, <2>3 DEF FeedbackInv, InTime, Urgent, Looked
  <2>5. QED
    BY <2>2, <2>4 DEF FeedbackInv
<1>4. QED
  BY <1>1, <1>2, <1>3 DEF IInv

-----------------------------------------------------------------------------
(***************************************************************************)
(* Runs, episodes and inferences                                            *)
(***************************************************************************)

\* The tags a client may give, and what tags merge to, are tags.
LEMMA TagTypes ==
    /\ NoTags \in TagMaps
    /\ \A value \in {"run", "episode", "inference"} : [k \in {"user"} |-> value] \in TagMaps
    /\ [k \in {"run_id"} |-> "run"] \in TagMaps
    /\ \A under, over \in TagMaps : Merge(under, over) \in TagMaps
<1> DEFINE Values == {"run", "episode", "inference"}
<1>1. \A t : t \in TagMaps <=> \E ks \in SUBSET Keys : t \in [ks -> Values]
  BY DEF TagMaps
<1>2. NoTags \in [{} -> Values] /\ {} \in SUBSET Keys
  BY DEF NoTags
<1>3. {"user"} \in SUBSET Keys /\ {"run_id"} \in SUBSET Keys
  BY DEF Keys
<1>4. ASSUME NEW under \in TagMaps, NEW over \in TagMaps PROVE Merge(under, over) \in TagMaps
  <2>1. PICK us \in SUBSET Keys, os \in SUBSET Keys :
           under \in [us -> Values] /\ over \in [os -> Values]
    BY <1>1
  <2>2. Merge(under, over) \in [us \cup os -> Values]
    BY <2>1 DEF Merge
  <2>3. QED
    BY <1>1, <2>2
<1>5. QED
  BY <1>1, <1>2, <1>3, <1>4

\* A client's request has tags and a variant.
LEMMA RequestTypes ==
    ASSUME NEW value \in {"run", "episode", "inference"}, NEW asked \in ClientRequests(value)
    PROVE  asked.tags \in TagMaps /\ asked.variant \in {value, None}
BY TagTypes DEF ClientRequests

\* The row of a run's episode is a row.
LEMMA EpisodeRowType ==
    ASSUME Runs, run.stored, NEW tags \in TagMaps
    PROVE  EpisodeRow("run", tags) \in EpisodeRows /\ EpisodeRow("run", tags) # None
<1>1. run.asked.tags \in TagMaps /\ run.asked.variant \in {"run", None}
  BY RequestTypes DEF Runs
<1>2. Merge(run.asked.tags, Merge(tags, [k \in {"run_id"} |-> "run"])) \in TagMaps
  BY <1>1, TagTypes
<1>3. EpisodeRow("run", tags) \in EpisodeRows
  BY <1>1, <1>2 DEF EpisodeRow, EpisodeRows
<1>4. QED
  BY <1>3, EpisodesAssumption

\* The run is stored, then answered.
LEMMA StartRunStep ==
    ASSUME IInv, StartRun
    PROVE  IInv'
<1>1. /\ run' = [run EXCEPT !.stored = TRUE, !.answered = run.stored]
      /\ UNCHANGED <<now, episode, inference, feedback, stored>>
  BY DEF StartRun
<1>2. run'.asked = run.asked /\ run'.stored = TRUE
  BY <1>1 DEF IInv, RunInv, Runs
<1>3. Runs'
  BY <1>1 DEF IInv, RunInv, Runs
<1>4. EpisodeIds' /\ InferenceTypes'
  BY <1>1 DEF IInv, RunInv, EpisodeIds, InferenceTypes, HasId
<1>5. Copied'
  BY <1>1, <1>2 DEF IInv, RunInv, Copied, HasId, IsDynamic, EpisodeRow, ApplyRun
<1>6. RunInv' /\ Grows
  BY <1>1, <1>3, <1>4, <1>5 DEF RunInv, Grows, HasId
<1>7. QED
  BY <1>6, FeedbackStays

\* The episode's row is copied from the stored run; no inference has used it yet.
LEMMA StartEpisodeStep ==
    ASSUME IInv, StartEpisode
    PROVE  IInv'
<1> USE Numbers, EpisodesAssumption
<1>1. PICK asked \in ClientRequests("episode"), of \in {"run", "unknown"} :
           /\ of = "run" => run.answered
           /\ episode' = [id |-> now + Offset, of |-> of, asked |-> asked.tags,
                          row |-> EpisodeRow(of, asked.tags)]
  BY DEF StartEpisode
<1>2. /\ episode.id = None
      /\ UNCHANGED <<now, run, inference, feedback, stored>>
  BY DEF StartEpisode
<1>3. Runs /\ EpisodeIds /\ InferenceTypes
  BY DEF IInv, RunInv
<1>4. \A i \in Inferences : ~HasId(i) /\ ~HasId(i)'
  BY <1>2, <1>3 DEF EpisodeIds, HasId
<1>5. /\ episode'.id = now + Offset /\ episode'.of = of /\ episode'.asked = asked.tags
      /\ episode'.row = EpisodeRow(of, asked.tags)
  BY <1>1
<1>6. asked.tags \in TagMaps
  BY RequestTypes
<1>7. of = "run" => run.stored /\ EpisodeRow(of, asked.tags) \in EpisodeRows
  BY <1>1, <1>3, <1>6, EpisodeRowType DEF Runs
<1>8. of # "run" => EpisodeRow(of, asked.tags) = None
  BY DEF EpisodeRow
<1>9. EpisodeIds'
  <2>1. now + Offset \in Offset .. (Offset + MaxTime) /\ now + Offset # None
    BY <1>3 DEF Runs
  <2>2. episode' \in [id : {None} \cup 0 .. MaxTime \cup Offset .. (Offset + MaxTime),
                      of : {None, "run", "unknown"},
                      asked : {a.tags : a \in ClientRequests("episode")} \cup {NoTags},
                      row : EpisodeRows \cup {None}]
    BY <1>1, <1>7, <1>8, <2>1
  <2>3. QED
    BY <1>4, <1>5, <2>1, <2>2 DEF EpisodeIds
<1>10. Copied'
  BY <1>2, <1>4, <1>5, <1>7, <1>8 DEF Copied, EpisodeRow
<1>11. RunInv'
  BY <1>2, <1>3, <1>9, <1>10 DEF RunInv, Runs, InferenceTypes
<1>12. Grows
  BY <1>2, <1>4 DEF Grows
<1>13. QED
  BY <1>11, <1>12, FeedbackStays

\* An inference that is new, or was refused.
LEMMA NewInference ==
    ASSUME IInv, NEW i \in Inferences, inference[i].phase = "idle",
           NEW new \in NoInference \cup AnInference, new.phase # "written",
           inference' = [inference EXCEPT ![i] = new],
           episode.id # None => episode'.id = episode.id,
           UNCHANGED <<now, feedback, stored>>
    PROVE  Grows /\ InferenceTypes'
<1>1. inference'[i] = new /\ \A j \in Inferences \ {i} : inference'[j] = inference[j]
  BY DEF IInv, RunInv, InferenceTypes
<1>2. ~HasId(i) /\ \A j \in Inferences \ {i} : HasId(j)' = HasId(j)
  BY <1>1 DEF HasId
<1>3. Grows
  BY <1>1, <1>2 DEF Grows
<1>4. InferenceTypes'
  BY <1>1 DEF IInv, RunInv, InferenceTypes
<1>5. QED
  BY <1>3, <1>4

\* An inference of a run's episode takes the pin and the tags of the episode's row.
LEMMA InferInRunStep ==
    ASSUME IInv, NEW i \in Inferences, InferInRun(i)
    PROVE  IInv'
<1> USE Numbers
<1>1. PICK asked \in ClientRequests("inference") :
         inference' = [inference EXCEPT ![i] =
               IF episode.row = None THEN [phase |-> "error"]
               ELSE [phase |-> "running", id |-> now, at |-> None, asked |-> asked,
                     row |-> ApplyRun(asked)]]
  BY DEF InferInRun
<1>2. /\ inference[i].phase = "idle" /\ IsDynamic(episode.id)
      /\ UNCHANGED <<now, run, episode, feedback, stored>>
  BY DEF InferInRun
<1>3. Runs /\ EpisodeIds /\ Copied /\ InferenceTypes
  BY DEF IInv, RunInv
<1>4. episode.id # None
  BY <1>2 DEF IsDynamic
<1>5. PICK new \in NoInference \cup AnInference :
        /\ inference' = [inference EXCEPT ![i] = new] /\ new.phase # "written"
        /\ new.phase \in {"running", "written", "lost"} =>
             episode.row # None /\ new.row = ApplyRun(new.asked)
  <2>1. CASE episode.row = None
    <3>1. [phase |-> "error"] \in NoInference \cup AnInference
      BY DEF NoInference
    <3>2. inference' = [inference EXCEPT ![i] = [phase |-> "error"]]
      BY <1>1, <2>1
    <3> WITNESS [phase |-> "error"] \in NoInference \cup AnInference
    <3>3. QED
      BY <3>2
  <2>2. CASE episode.row # None
    <3> DEFINE new == [phase |-> "running", id |-> now, at |-> None, asked |-> asked,
                       row |-> ApplyRun(asked)]
    <3>1. episode.row.pin \in {"run", None} /\ episode.row.tags \in TagMaps
      BY <1>3, <2>2 DEF EpisodeIds, EpisodeRows
    <3>2. ApplyRun(asked) \in [variant : {"run", "inference", None}, tags : TagMaps]
      BY <3>1, RequestTypes, TagTypes DEF ApplyRun
    <3>3. new \in AnInference
      BY <1>3, <3>2 DEF AnInference, Runs
    <3>4. new.phase = "running" /\ new.asked = asked /\ new.row = ApplyRun(asked)
      OBVIOUS
    <3>5. inference' = [inference EXCEPT ![i] = new]
      BY <1>1, <2>2
    <3>6. new \in NoInference \cup AnInference
      BY <3>3
    <3> HIDE DEF new
    <3> WITNESS new \in NoInference \cup AnInference
    <3>7. QED
      BY <2>2, <3>4, <3>5
  <2>3. QED
    BY <2>1, <2>2
<1>6. Grows /\ InferenceTypes'
  BY <1>2, <1>5, NewInference
<1>7. inference'[i] = new /\ \A j \in Inferences \ {i} : inference'[j] = inference[j]
  BY <1>3, <1>5 DEF InferenceTypes
<1>8. EpisodeIds'
  BY <1>2, <1>3, <1>4 DEF EpisodeIds
<1>9. Copied'
  <2>1. ASSUME NEW j \in Inferences, HasId(j)'
        PROVE  episode.row # None /\ inference'[j].row = ApplyRun(inference'[j].asked)
    <3>1. CASE j = i
      BY <1>5, <1>7, <2>1, <3>1 DEF HasId
    <3>2. CASE j # i
      BY <1>2, <1>3, <1>7, <2>1, <3>2 DEF Copied, HasId
    <3>3. QED
      BY <3>1, <3>2
  <2>2. QED
    BY <1>2, <1>3, <2>1 DEF Copied, EpisodeRow, ApplyRun, IsDynamic
<1>10. RunInv'
  BY <1>2, <1>3, <1>6, <1>8, <1>9 DEF RunInv, Runs
<1>11. QED
  BY <1>6, <1>10, FeedbackStays

\* An inference outside of runs gives the episode its id if it has none.
LEMMA InferStep ==
    ASSUME IInv, NEW i \in Inferences, Infer(i)
    PROVE  IInv'
<1> USE Numbers, EpisodesAssumption
<1> DEFINE plain == [variant |-> None, tags |-> NoTags]
           new == [phase |-> "running", id |-> now, at |-> None, asked |-> plain, row |-> plain]
<1>1. /\ inference[i].phase = "idle" /\ ~IsDynamic(episode.id)
      /\ episode' = IF episode.id = None THEN [episode EXCEPT !.id = now] ELSE episode
      /\ inference' = [inference EXCEPT ![i] = new]
      /\ UNCHANGED <<now, run, feedback, stored>>
  BY DEF Infer
<1>2. Runs /\ EpisodeIds /\ Copied /\ InferenceTypes
  BY DEF IInv, RunInv
<1>3. new \in AnInference
  <2>1. plain \in ClientRequests("inference")
    BY DEF ClientRequests
  <2>2. plain \in [variant : {"run", "inference", None}, tags : TagMaps]
    BY TagTypes
  <2>3. QED
    BY <1>2, <2>1, <2>2 DEF AnInference, Runs
<1>4. new.phase = "running"
  OBVIOUS
<1> HIDE DEF new, plain
<1>5. /\ episode' \in [id : {None} \cup 0 .. MaxTime \cup Offset .. (Offset + MaxTime),
                       of : {None, "run", "unknown"},
                       asked : {asked.tags : asked \in ClientRequests("episode")} \cup {NoTags},
                       row : EpisodeRows \cup {None}]
      /\ episode'.of = episode.of /\ episode'.asked = episode.asked /\ episode'.row = episode.row
      /\ episode'.id = IF episode.id = None THEN now ELSE episode.id
  BY <1>1, <1>2 DEF EpisodeIds, Runs
<1>6. episode'.id # None /\ ~IsDynamic(episode'.id)
  BY <1>1, <1>2, <1>5 DEF Runs, IsDynamic
<1>7. Grows /\ InferenceTypes'
  BY <1>1, <1>3, <1>4, <1>5, NewInference
<1>8. EpisodeIds'
  BY <1>5, <1>6 DEF EpisodeIds
<1>9. Copied'
  BY <1>1, <1>2, <1>5, <1>6 DEF Copied, EpisodeRow
<1>10. RunInv'
  BY <1>1, <1>2, <1>7, <1>8, <1>9 DEF RunInv, Runs
<1>11. QED
  BY <1>7, <1>10, FeedbackStays

\* The row of a running inference is written now, or never.
LEMMA WriteInferenceSteps ==
    ASSUME IInv, NEW i \in Inferences, WriteInference(i) \/ LoseInference(i)
    PROVE  IInv'
<1> USE Numbers, EpisodesAssumption
<1>1. /\ inference[i].phase = "running"
      /\ UNCHANGED <<now, run, episode, feedback, stored>>
  BY DEF WriteInference, LoseInference
<1>2. Runs /\ EpisodeIds /\ Copied /\ InferenceTypes
  BY DEF IInv, RunInv
<1>3. HasId(i) /\ inference[i] \in AnInference
  BY <1>1, HasIdFields DEF IInv, HasId
<1>4. /\ inference'[i] \in AnInference
      /\ inference'[i].phase \in {"written", "lost"}
      /\ inference'[i].phase = "written" => inference'[i].at = now
      /\ inference'[i].id = inference[i].id /\ inference'[i].row = inference[i].row
      /\ inference'[i].asked = inference[i].asked
      /\ \A j \in Inferences \ {i} : inference'[j] = inference[j]
      /\ inference' \in [Inferences -> NoInference \cup AnInference]
  BY <1>2, <1>3 DEF WriteInference, LoseInference, InferenceTypes, AnInference, Runs
<1>5. \A j \in Inferences : HasId(j)' = HasId(j)
  BY <1>3, <1>4 DEF HasId
<1>6. Grows
  BY <1>1, <1>4, <1>5 DEF Grows
<1>7. InferenceTypes'
  BY <1>1, <1>2, <1>4 DEF InferenceTypes, Runs
<1>8. EpisodeIds'
  BY <1>1, <1>2, <1>5 DEF EpisodeIds
<1>9. Copied'
  BY <1>1, <1>2, <1>3, <1>4, <1>5 DEF Copied, EpisodeRow, ApplyRun
<1>10. RunInv'
  BY <1>1, <1>2, <1>7, <1>8, <1>9 DEF RunInv, Runs
<1>11. QED
  BY <1>6, <1>10, FeedbackStays

-----------------------------------------------------------------------------
(***************************************************************************)
(* The invariant                                                            *)
(***************************************************************************)

\* Nothing has been asked for yet.
LEMMA InitStep ==
    ASSUME Init
    PROVE  IInv
<1> USE Numbers, EpisodesAssumption
<1>1. PICK asked \in ClientRequests("run") :
         run = [asked |-> asked, stored |-> FALSE, answered |-> FALSE]
  BY DEF Init
<1>2. /\ now = 0 /\ stored = {}
      /\ episode = [id |-> None, of |-> None, asked |-> NoTags, row |-> None]
      /\ \A i \in Inferences : inference[i] = [phase |-> "idle"]
      /\ \A f \in Feedbacks : feedback[f] = [phase |-> "idle"]
  BY DEF Init
<1>3. Runs
  BY <1>1, <1>2 DEF Runs
<1>4. \A i \in Inferences : ~HasId(i) /\ inference[i].phase = "idle"
  BY <1>2 DEF HasId
<1>5. EpisodeIds /\ Copied
  BY <1>2, <1>4 DEF EpisodeIds, Copied
<1>6. [phase |-> "idle"] \in NoInference /\ [phase |-> "idle"] \in NoFeedback
  BY DEF NoInference, NoFeedback
<1>7. InferenceTypes
  BY <1>4, <1>6 DEF InferenceTypes, Init
<1>8. feedback \in [Feedbacks -> NoFeedback \cup AFeedback]
  BY <1>6 DEF Init
<1>9. ASSUME NEW f \in Feedbacks PROVE FeedbackInv(f)
  <2>1. feedback[f].phase = "idle" /\ feedback[f] \in NoFeedback
    BY <1>2, <1>6
  <2>2. QED
    BY <1>2, <2>1 DEF FeedbackInv, FeedbackType, Deadline, InTime, Missed, Found, Looked
<1>10. QED
  BY <1>2, <1>3, <1>5, <1>7, <1>8, <1>9 DEF IInv, RunInv

\* A step that changes nothing changes no part of the invariant.
LEMMA StutterStep ==
    ASSUME IInv, UNCHANGED vars
    PROVE  IInv'
<1>1. RunInv'
  BY DEF vars, IInv, RunInv, Runs, EpisodeIds, Copied, InferenceTypes, HasId, IsDynamic,
         EpisodeRow, ApplyRun
<1>2. Grows
  BY DEF vars, Grows, HasId
<1>3. QED
  BY <1>1, <1>2, FeedbackStays

\* The invariant holds throughout: one case for each action of Next.
THEOREM Invariance == Spec => []IInv
<1>1. Init => IInv
  BY InitStep
<1>2. IInv /\ [Next]_vars => IInv'
  <2> SUFFICES ASSUME IInv, [Next]_vars
               PROVE  IInv'
    OBVIOUS
  <2>1. CASE StartRun
    BY <2>1, StartRunStep
  <2>2. CASE StartEpisode
    BY <2>2, StartEpisodeStep
  <2>3. CASE Tick
    BY <2>3, TickStep
  <2>4. CASE TimeIsUp \/ UNCHANGED vars
    BY <2>4, StutterStep DEF TimeIsUp
  <2>5. ASSUME NEW i \in Inferences, StepInference(i) PROVE IInv'
    BY <2>5, InferInRunStep, InferStep, WriteInferenceSteps DEF StepInference
  <2>6. ASSUME NEW f \in Feedbacks, StepFeedback(f) PROVE IInv'
    BY <2>6, AskStep, AcceptStep, RetryStep, WakeStep DEF StepFeedback
  <2>7. ASSUME NEW f \in Feedbacks, SendFeedback(f) \/ WriteFeedback(f) PROVE IInv'
    BY <2>7, SendFeedbackStep, WriteFeedbackStep
  <2>8. QED
    BY <2>1, <2>2, <2>3, <2>4, <2>5, <2>6, <2>7 DEF Next
<1>3. QED
  BY <1>1, <1>2, PTL DEF Spec

\* Every variable of the model keeps its type.
THEOREM TypeCorrect == Spec => []TypeOK
<1>1. IInv => TypeOK
  <2> SUFFICES ASSUME IInv PROVE TypeOK
    OBVIOUS
  <2> USE Numbers
  <2>1. /\ now \in 0 .. MaxTime
        /\ run.stored \in BOOLEAN /\ run.answered \in BOOLEAN
        /\ run.asked \in ClientRequests("run")
    BY DEF IInv, RunInv, Runs
  <2>2. episode.id \in {None} \cup Nat
    BY DEF IInv, RunInv, EpisodeIds
  <2>3. \A i \in Inferences :
           inference[i].phase \in {"idle", "running", "written", "lost", "error"}
    BY DEF IInv, RunInv, InferenceTypes, NoInference, AnInference
  <2>4. \A f \in Feedbacks :
           feedback[f].phase \in {"idle", "query", "found", "absent", "failed", "sleep", "accepted",
                                  "rejected", "error"}
    BY DEF IInv, NoFeedback, AFeedback
  <2>5. stored \subseteq Feedbacks
    BY DEF IInv
  <2>6. QED
    BY <2>1, <2>2, <2>3, <2>4, <2>5 DEF TypeOK
<1>2. QED
  BY <1>1, Invariance, PTL

\* No request is rejected for a target that was visible one query before the end of its
\* wait, and no feedback row is stored without its target.
THEOREM FeedbackFollowsItsTarget == Spec => []FeedbackFollowsTarget
<1>1. IInv => FeedbackFollowsTarget
  <2> SUFFICES ASSUME IInv PROVE FeedbackFollowsTarget
    OBVIOUS
  <2>1. ASSUME NEW f \in Feedbacks, feedback[f].phase = "rejected",
               NEW i \in Inferences, inference[i].phase = "written",
               feedback[f].level = "episode" \/ feedback[f].of = i
        PROVE  inference[i].at + Latency
                   >= Max({Made(f) + Cooldown, feedback[f].arrived + MinWait})
    BY <2>1 DEF IInv, FeedbackInv, Deadline, Missed, Looked, Target
  <2>2. ASSUME NEW f \in stored PROVE Visible(f) /\ feedback[f].fits
    BY <2>2 DEF IInv, FeedbackInv, Found
  <2>3. QED
    BY <2>1, <2>2 DEF FeedbackFollowsTarget
<1>2. QED
  BY <1>1, Invariance, PTL

\* What the tags of a run, an episode and an inference merge to.
LEMMA MergedTags ==
    ASSUME NEW ofRun, NEW ofEpisode, NEW ofInference,
           DOMAIN ofRun \subseteq {"user"}, DOMAIN ofEpisode \subseteq {"user"},
           DOMAIN ofInference \subseteq {"user"},
           NEW tags,
           tags = Merge(Merge(ofRun, Merge(ofEpisode, [k \in {"run_id"} |-> "run"])), ofInference)
    PROVE  /\ tags["run_id"] = "run"
           /\ "user" \in DOMAIN tags <=>
                 "user" \in DOMAIN ofInference \cup DOMAIN ofEpisode \cup DOMAIN ofRun
           /\ "user" \in DOMAIN tags =>
                 tags["user"] = (IF "user" \in DOMAIN ofInference THEN ofInference["user"]
                                 ELSE IF "user" \in DOMAIN ofEpisode THEN ofEpisode["user"]
                                 ELSE ofRun["user"])
<1> DEFINE runId == [k \in {"run_id"} |-> "run"]
           inner == Merge(ofEpisode, runId)
           middle == Merge(ofRun, inner)
<1>1. /\ DOMAIN inner = DOMAIN ofEpisode \cup {"run_id"} /\ inner["run_id"] = "run"
      /\ "user" \in DOMAIN ofEpisode => inner["user"] = ofEpisode["user"]
  BY DEF Merge
<1> HIDE DEF inner
<1>2. /\ DOMAIN middle = DOMAIN ofRun \cup DOMAIN inner /\ middle["run_id"] = "run"
      /\ "user" \in DOMAIN ofRun \cup DOMAIN inner =>
            middle["user"] = IF "user" \in DOMAIN inner THEN inner["user"] ELSE ofRun["user"]
  BY <1>1 DEF Merge
<1>3. tags = Merge(middle, ofInference)
  BY DEF inner
<1> HIDE DEF middle
<1>4. /\ DOMAIN tags = DOMAIN middle \cup DOMAIN ofInference /\ tags["run_id"] = "run"
      /\ "user" \in DOMAIN tags =>
            tags["user"] = IF "user" \in DOMAIN ofInference THEN ofInference["user"]
                           ELSE middle["user"]
  BY <1>1, <1>2, <1>3 DEF Merge
<1>5. QED
  BY <1>1, <1>2, <1>4

\* Every inference of a run's episode carries the run's id, the most specific of the values
\* given for a tag, and the run's pin unless it named a variant; and a run that was
\* answered has episodes that inferences can use.
THEOREM InferencesFollowTheirRun == Spec => []InferenceFollowsRun
<1>1. IInv => InferenceFollowsRun
  <2> SUFFICES ASSUME IInv PROVE InferenceFollowsRun
    OBVIOUS
  <2>1. Runs /\ EpisodeIds /\ Copied /\ InferenceTypes
    BY DEF IInv, RunInv
  <2>2. episode.asked \in TagMaps /\ DOMAIN episode.asked \subseteq {"user"}
    <3>1. \/ episode.asked = NoTags
          \/ \E asked \in ClientRequests("episode") : episode.asked = asked.tags
      BY <2>1 DEF EpisodeIds
    <3>2. QED
      BY <3>1, TagTypes, RequestTypes DEF ClientRequests, NoTags
  <2>3. episode.of = "run" => episode.row # None
    BY <2>1, <2>2, EpisodeRowType DEF Copied
  <2>4. ASSUME NEW i \in Inferences, HasId(i), IsDynamic(episode.id)
        PROVE  LET given == <<inference[i].asked.tags, episode.asked, run.asked.tags>>
                   first(k) == CHOOSE n \in 1 .. 3 : k \in DOMAIN given[n]
                                   /\ \A m \in 1 .. (n - 1) : k \notin DOMAIN given[m]
                   row == inference[i].row
               IN  /\ row.tags["run_id"] = "run"
                   /\ "user" \in DOMAIN row.tags <=> \E n \in 1 .. 3 : "user" \in DOMAIN given[n]
                   /\ "user" \in DOMAIN row.tags =>
                         row.tags["user"] = given[first("user")]["user"]
                   /\ row.variant = (IF inference[i].asked.variant # None
                                     THEN inference[i].asked.variant ELSE run.asked.variant)
    <3>1. /\ episode.row = EpisodeRow("run", episode.asked) /\ run.stored
          /\ inference[i].row = ApplyRun(inference[i].asked)
      BY <2>1, <2>4 DEF Copied
    <3>2. /\ inference[i].row.variant = (IF inference[i].asked.variant # None
                                         THEN inference[i].asked.variant ELSE run.asked.variant)
          /\ inference[i].row.tags =
                Merge(Merge(run.asked.tags, Merge(episode.asked, [k \in {"run_id"} |-> "run"])),
                      inference[i].asked.tags)
      BY <3>1 DEF ApplyRun, EpisodeRow
    <3>3. DOMAIN run.asked.tags \subseteq {"user"}
      BY <2>1 DEF Runs, ClientRequests, NoTags
    <3>4. DOMAIN inference[i].asked.tags \subseteq {"user"}
      <4>1. inference[i].asked \in ClientRequests("inference")
        BY <2>4, HasIdFields DEF IInv, AnInference
      <4>2. QED
        BY <4>1 DEF ClientRequests, NoTags
    <3> DEFINE given == <<inference[i].asked.tags, episode.asked, run.asked.tags>>
               first(k) == CHOOSE n \in 1 .. 3 : k \in DOMAIN given[n]
                                   /\ \A m \in 1 .. (n - 1) : k \notin DOMAIN given[m]
               tags == inference[i].row.tags
    <3>5. /\ tags["run_id"] = "run"
          /\ "user" \in DOMAIN tags <=>
                "user" \in DOMAIN inference[i].asked.tags \cup DOMAIN episode.asked
                              \cup DOMAIN run.asked.tags
          /\ "user" \in DOMAIN tags =>
                tags["user"] = (IF "user" \in DOMAIN inference[i].asked.tags
                                THEN inference[i].asked.tags["user"]
                                ELSE IF "user" \in DOMAIN episode.asked THEN episode.asked["user"]
                                ELSE run.asked.tags["user"])
      BY <2>2, <3>2, <3>3, <3>4, MergedTags
    <3>6. /\ given[1] = inference[i].asked.tags /\ given[2] = episode.asked
          /\ given[3] = run.asked.tags
      OBVIOUS
    <3> HIDE DEF given
    <3>7. "user" \in DOMAIN tags <=> \E n \in 1 .. 3 : "user" \in DOMAIN given[n]
      <4>1. \A n \in 1 .. 3 : n = 1 \/ n = 2 \/ n = 3
        OBVIOUS
      <4>2. QED
        BY <3>5, <3>6, <4>1
    <3>8. ASSUME "user" \in DOMAIN tags PROVE tags["user"] = given[first("user")]["user"]
      <4>1. CASE "user" \in DOMAIN given[1]
        <5>1. first("user") = 1
          BY <4>1
        <5>2. QED
          BY <3>5, <3>6, <3>8, <4>1, <5>1
      <4>2. CASE "user" \notin DOMAIN given[1] /\ "user" \in DOMAIN given[2]
        <5>1. first("user") = 2
          BY <4>2
        <5>2. QED
          BY <3>5, <3>6, <3>8, <4>2, <5>1
      <4>3. CASE /\ "user" \notin DOMAIN given[1] /\ "user" \notin DOMAIN given[2]
                 /\ "user" \in DOMAIN given[3]
        <5>1. first("user") = 3
          BY <4>3
        <5>2. QED
          BY <3>5, <3>6, <3>8, <4>3, <5>1
      <4>4. QED
        BY <3>5, <3>6, <3>8, <4>1, <4>2, <4>3
    <3>9. QED
      BY <3>2, <3>5, <3>7, <3>8 DEF given
  <2>5. QED
    BY <2>3, <2>4 DEF InferenceFollowsRun
<1>2. QED
  BY <1>1, Invariance, PTL

=============================================================================
