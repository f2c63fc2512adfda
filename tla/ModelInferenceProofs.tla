------------------------ MODULE ModelInferenceProofs ------------------------
(***************************************************************************)
(* Proofs about ModelInference, for any routing, any number of concurrent   *)
(* calls, retries and chunks, and with or without timeouts.                 *)
(***************************************************************************)
EXTENDS ModelInference, TLAPS

\* The length of routing is a positive number, and its entries are providers.
LEMMA RoutingFacts ==
    /\ Len(Routing) \in Nat \ {0}
    /\ \A i \in 1 .. Len(Routing) : Routing[i] \in Providers
    /\ Providers = {Routing[i] : i \in 1 .. Len(Routing)}
<1>1. Routing \in Seq(Range(Routing)) /\ Routing # << >>
  BY ModelAssumption
<1>2. QED
  BY <1>1 DEF Providers, Range

-----------------------------------------------------------------------------
(***************************************************************************)
(* Types.  TypeOK is not inductive: RecordError moves pos, and only stays   *)
(* inside routing because pos points into it whenever a provider is tried;  *)
(* and a stream that goes on must have a response to go on with.            *)
(***************************************************************************)

Fresh == [status : {"ok"}, cached : {FALSE}, out : Outputs]
Served == [status : {"ok"}, cached : BOOLEAN, out : Outputs]
Answers == [status : Statuses] \cup Served

Control ==
    /\ opts \in [Calls -> Inputs]
    /\ pc \in [Calls -> {"idle", "routing", "streaming", "done"} \cup Underway]
    /\ attempt \in [Calls -> 0 .. NumRetries]
    /\ pos \in [Calls -> 1 .. (Len(Routing) + 1)]
    /\ errors \in [Calls -> SUBSET Providers]
    /\ sent \in [Calls -> Nat]
    /\ clock \in 0 .. MaxClock
    /\ \A c \in Calls : pc[c] \in Underway \cup {"idle", "streaming"} => pos[c] <= Len(Routing)

Got ==
    /\ resp \in [Calls -> Answers]
    /\ \A c \in Calls : pc[c] = "streaming" => resp[c] \in Fresh

Stored == spawned \in SUBSET Outputs /\ cache \in SUBSET CacheRows

Typed == Control /\ Got /\ Stored

\* The forms a response takes are all answers.
LEMMA AnswerTypes ==
    /\ \A s \in Statuses : [status |-> s] \in Answers
    /\ \A b \in BOOLEAN, out \in Outputs : Response(b, out) \in Answers
    /\ \A out \in Outputs : Response(FALSE, out) \in Fresh
BY DEF Answers, Served, Fresh, Response

\* What a provider answers a call under way with is an output.
LEMMA AnsweredType ==
    ASSUME Control, NEW c \in Calls, pos[c] \in 1 .. Len(Routing),
           NEW n \in 0 .. MaxChunks, NEW whole \in BOOLEAN
    PROVE  Answered(c, n, whole) \in Outputs
<1>1. opts[c].kind \in Kinds
  BY ModelAssumption DEF Control, Options
<1>2. Current(c) \in Providers /\ attempt[c] \in 0 .. NumRetries
  BY RoutingFacts DEF Control, Current
<1>3. QED
  BY <1>1, <1>2 DEF Answered, Outputs

\* Starting a cache write, or not, keeps the types.
LEMMA MayCacheType ==
    ASSUME Stored, NEW c \in Calls, NEW out \in Outputs, MayCache(c, out)
    PROVE  Stored'
BY DEF MayCache, StartCacheWrite, storage, Stored

\* A stored output that another call serves and caches again is an output.
LEMMA HitType ==
    ASSUME Stored, NEW c \in Calls, NEW row \in Lookup(c)
    PROVE  row.out \in Outputs /\ [row.out EXCEPT !.by = c] \in Outputs
BY DEF Stored, Lookup, CacheRows, Outputs

\* A stream one item further is an output.
LEMMA LongerType ==
    ASSUME NEW out \in Outputs, NEW n \in 0 .. MaxChunks, NEW good \in BOOLEAN
    PROVE  [out EXCEPT !.chunks = n, !.whole = good] \in Outputs
BY DEF Outputs

\* A response set to an answer keeps Got, when the call does not go on streaming.
LEMMA GotAnswer ==
    ASSUME Got, NEW c \in Calls, NEW a \in Answers, NEW where, where # "streaming",
           resp' = [resp EXCEPT ![c] = a], Control, Goto(c, where)
    PROVE  Got'
BY DEF Got, Goto, Control

\* A response left alone keeps Got, when the call does not start streaming.
LEMMA GotSame ==
    ASSUME Got, NEW c \in Calls, NEW where, where # "streaming",
           resp' = resp, Control, Goto(c, where)
    PROVE  Got'
BY DEF Got, Goto, Control

\* Typed is inductive.
LEMMA TypedHolds == Spec => []Typed
<1> USE ModelAssumption, RoutingFacts
<1>1. Init => Typed
  <2> SUFFICES ASSUME Init PROVE Typed
    OBVIOUS
  <2>1. NoResponse \in Answers
    BY AnswerTypes DEF NoResponse, Statuses
  <2>2. Control
    BY DEF Init, Control, Underway
  <2>3. Got /\ Stored
    BY <2>1 DEF Init, Got, Stored
  <2>4. QED
    BY <2>2, <2>3 DEF Typed
<1>2. Typed /\ [Next]_vars => Typed'
  <2> SUFFICES ASSUME Typed, [Next]_vars PROVE Typed'
    OBVIOUS
  <2>0. Control /\ Got /\ Stored
    BY DEF Typed
  <2>1. ASSUME NEW c \in Calls, TryProvider(c) PROVE Typed'
    <3>1. Control'
      BY <2>0, <2>1 DEF TryProvider, Goto, Control, Underway
    <3>2. Got' /\ Stored'
      BY <2>0, <2>1, GotSame DEF TryProvider, storage, Stored
    <3>3. QED
      BY <3>1, <3>2 DEF Typed
  <2>2. ASSUME NEW c \in Calls, SendRequest(c) PROVE Typed'
    <3>1. Control'
      BY <2>0, <2>2 DEF SendRequest, Goto, Control, Underway
    <3>2. Got' /\ Stored'
      BY <2>0, <2>2, GotSame DEF SendRequest, storage, Stored
    <3>3. QED
      BY <3>1, <3>2 DEF Typed
  <2>3. ASSUME NEW c \in Calls, NEW e \in Statuses, Retry(c, e),
               UNCHANGED <<opts, sent, storage, clock>>
        PROVE  Typed'
    <3>1. Control'
      <4>1. MaxRetries(c) \in 0 .. NumRetries
        BY DEF MaxRetries
      <4>2. CASE attempt[c] < MaxRetries(c)
        <5>1. /\ attempt' = [attempt EXCEPT ![c] = attempt[c] + 1]
              /\ pos' = [pos EXCEPT ![c] = 1]
              /\ errors' = [errors EXCEPT ![c] = {}]
              /\ pc' = [pc EXCEPT ![c] = "routing"]
          BY <2>3, <4>2 DEF Retry, Goto
        <5>2. attempt[c] \in 0 .. NumRetries /\ attempt[c] + 1 \in 0 .. NumRetries
          BY <2>0, <4>1, <4>2 DEF Control
        <5>3. attempt' \in [Calls -> 0 .. NumRetries]
          BY <2>0, <5>1, <5>2 DEF Control
        <5>4. QED
          BY <2>0, <2>3, <5>1, <5>3 DEF Control, Underway
      <4>3. CASE ~(attempt[c] < MaxRetries(c))
        BY <2>0, <2>3, <4>3 DEF Retry, Goto, Control, Underway
      <4>4. QED
        BY <4>2, <4>3
    <3>2. Got'
      <4>1. [status |-> e] \in Answers
        BY AnswerTypes
      <4>2. CASE attempt[c] < MaxRetries(c)
        BY <2>0, <2>3, <4>2, GotSame DEF Retry
      <4>3. CASE ~(attempt[c] < MaxRetries(c))
        BY <2>0, <2>3, <4>1, <4>3, GotAnswer DEF Retry
      <4>4. QED
        BY <4>2, <4>3
    <3>3. Stored'
      BY <2>0, <2>3 DEF storage, Stored
    <3>4. QED
      BY <3>1, <3>2, <3>3 DEF Typed
  <2>4. ASSUME NEW c \in Calls, RecordError(c), pc[c] \in Underway,
               UNCHANGED <<opts, attempt, sent, resp, clock>>, Stored'
        PROVE  Typed'
    <3>1. pos[c] \in 1 .. Len(Routing) /\ Current(c) \in Providers
      BY <2>0, <2>4 DEF Control, Current
    <3>2. Control'
      BY <2>0, <2>4, <3>1 DEF RecordError, Goto, Control, Underway
    <3>3. Got'
      BY <2>0, <2>4, GotSame DEF RecordError
    <3>4. QED
      BY <2>4, <3>2, <3>3 DEF Typed
  <2>5. ASSUME NEW c \in Calls, CacheHit(c) PROVE Typed'
    <3>1. PICK row \in Lookup(c) :
            /\ resp' = [resp EXCEPT ![c] = Response(TRUE, row.out)]
            /\ IF opts[c].kind = "plain" THEN MayCache(c, [row.out EXCEPT !.by = c])
                                         ELSE UNCHANGED storage
      BY <2>5 DEF CacheHit
    <3>2. row.out \in Outputs /\ [row.out EXCEPT !.by = c] \in Outputs
      BY <2>0, HitType
    <3>3. Stored'
      <4>1. CASE opts[c].kind = "plain"
        BY <2>0, <3>1, <3>2, <4>1, MayCacheType
      <4>2. CASE opts[c].kind # "plain"
        BY <2>0, <3>1, <4>2 DEF storage, Stored
      <4>3. QED
        BY <4>1, <4>2
    <3>4. Response(TRUE, row.out) \in Answers
      BY <3>2, AnswerTypes
    <3>5. Got'
      BY <2>0, <2>5, <3>1, <3>4, GotAnswer DEF CacheHit
    <3>6. Control'
      BY <2>0, <2>5 DEF CacheHit, Goto, Control, Underway
    <3>7. QED
      BY <3>3, <3>5, <3>6 DEF Typed
  <2>6. ASSUME NEW c \in Calls, CacheMiss(c) PROVE Typed'
    <3>1. Control'
      BY <2>0, <2>6 DEF CacheMiss, Goto, Control, Underway
    <3>2. Got' /\ Stored'
      BY <2>0, <2>6, GotSame DEF CacheMiss, storage, Stored
    <3>3. QED
      BY <3>1, <3>2 DEF Typed
  <2>7. ASSUME NEW c \in Calls, ProviderAnswers(c) PROVE Typed'
    <3>1. Answered(c, 1, TRUE) \in Outputs
      <4>1. pos[c] \in 1 .. Len(Routing) /\ 1 \in 0 .. MaxChunks
        BY <2>0, <2>7 DEF ProviderAnswers, Control, Underway
      <4>2. QED
        BY <2>0, <4>1, AnsweredType
    <3>2. Stored'
      BY <2>0, <2>7, <3>1, MayCacheType DEF ProviderAnswers
    <3>3. Got'
      <4>1. Response(FALSE, Answered(c, 1, TRUE)) \in Answers
        BY <3>1, AnswerTypes
      <4>2. QED
        BY <2>0, <2>7, <4>1, GotAnswer DEF ProviderAnswers
    <3>4. Control'
      BY <2>0, <2>7 DEF ProviderAnswers, Goto, Control, Underway
    <3>5. QED
      BY <3>2, <3>3, <3>4 DEF Typed
  <2>8. ASSUME NEW c \in Calls, FirstChunk(c) PROVE Typed'
    <3>1. Answered(c, 1, TRUE) \in Outputs
      <4>1. pos[c] \in 1 .. Len(Routing) /\ 1 \in 0 .. MaxChunks
        BY <2>0, <2>8 DEF FirstChunk, Control, Underway
      <4>2. QED
        BY <2>0, <4>1, AnsweredType
    <3>2. Response(FALSE, Answered(c, 1, TRUE)) \in Answers \cap Fresh
      BY <3>1, AnswerTypes
    <3>3. Got'
      BY <2>0, <2>8, <3>2 DEF FirstChunk, Goto, Got, Control
    <3>4. Control' /\ Stored'
      BY <2>0, <2>8 DEF FirstChunk, Goto, Control, Underway, storage, Stored
    <3>5. QED
      BY <3>3, <3>4 DEF Typed
  <2>9. ASSUME NEW c \in Calls, StreamItem(c) PROVE Typed'
    <3>1. PICK good \in BOOLEAN :
            resp' = [resp EXCEPT ![c] =
                       Response(FALSE, [resp[c].out EXCEPT !.chunks = IF good THEN @ + 1 ELSE @,
                                                           !.whole = good])]
      BY <2>9 DEF StreamItem
    <3> DEFINE more == [resp[c].out EXCEPT !.chunks = IF good THEN @ + 1 ELSE @, !.whole = good]
    <3>2. resp[c] \in Fresh /\ resp[c].out.chunks < MaxChunks
      BY <2>0, <2>9 DEF StreamItem, Got
    <3>3. more \in Outputs
      <4>1. resp[c].out \in Outputs
        BY <3>2 DEF Fresh
      <4>2. (IF good THEN resp[c].out.chunks + 1 ELSE resp[c].out.chunks) \in 0 .. MaxChunks
        <5>1. resp[c].out.chunks \in 0 .. MaxChunks
          BY <4>1 DEF Outputs
        <5>2. QED
          BY <3>2, <5>1
      <4>3. QED
        BY <4>1, <4>2, LongerType
    <3> HIDE DEF more
    <3>4. Response(FALSE, more) \in Answers \cap Fresh
      BY <3>3, AnswerTypes
    <3>5. resp' = [resp EXCEPT ![c] = Response(FALSE, more)]
      BY <3>1 DEF more
    <3>6. Got'
      BY <2>0, <2>9, <3>4, <3>5 DEF StreamItem, control, Got
    <3>7. Control' /\ Stored'
      BY <2>0, <2>9 DEF StreamItem, control, Control, Underway, storage, Stored
    <3>8. QED
      BY <3>6, <3>7 DEF Typed
  <2>10. ASSUME NEW c \in Calls, StreamEnds(c) PROVE Typed'
    <3>1. resp[c].out \in Outputs
      BY <2>0, <2>10 DEF StreamEnds, Got, Fresh
    <3>2. Stored'
      <4>1. CASE resp[c].out.whole
        BY <2>0, <2>10, <3>1, <4>1, MayCacheType DEF StreamEnds
      <4>2. CASE ~resp[c].out.whole
        BY <2>0, <2>10, <4>2 DEF StreamEnds, storage, Stored
      <4>3. QED
        BY <4>1, <4>2
    <3>3. Got'
      BY <2>0, <2>10, GotSame DEF StreamEnds
    <3>4. Control'
      BY <2>0, <2>10 DEF StreamEnds, Goto, Control, Underway
    <3>5. QED
      BY <3>2, <3>3, <3>4 DEF Typed
  <2>11. ASSUME NEW c \in Calls, CallDropped(c) PROVE Typed'
    <3>1. [status |-> "dropped"] \in Answers
      BY AnswerTypes DEF Statuses
    <3>2. Got'
      BY <2>0, <2>11, <3>1, GotAnswer DEF CallDropped
    <3>3. Control' /\ Stored'
      BY <2>0, <2>11 DEF CallDropped, Goto, Control, Underway, storage, Stored
    <3>4. QED
      BY <3>2, <3>3 DEF Typed
  <2>12. ASSUME NEW c \in Calls, ProviderFails(c) \/ ProviderTimesOut(c) PROVE Typed'
    BY <2>0, <2>4, <2>12 DEF ProviderFails, ProviderTimesOut, Underway, storage, Stored
  <2>13. ASSUME NEW c \in Calls, StreamIsEmpty(c) PROVE Typed'
    <3>1. pos[c] \in 1 .. Len(Routing) /\ 0 \in 0 .. MaxChunks /\ pc[c] \in Underway
      BY <2>0, <2>13 DEF StreamIsEmpty, Control, Underway
    <3>2. Answered(c, 0, TRUE) \in Outputs
      BY <2>0, <3>1, AnsweredType
    <3>3. Stored'
      BY <2>0, <2>13, <3>2, MayCacheType DEF StreamIsEmpty
    <3>4. QED
      BY <2>4, <2>13, <3>1, <3>3 DEF StreamIsEmpty
  <2>14. ASSUME NEW c \in Calls, ModelProvidersExhausted(c) \/ ModelTimesOut(c) PROVE Typed'
    BY <2>3, <2>14 DEF ModelProvidersExhausted, ModelTimesOut, Statuses
  <2>15. CASE CacheWritten
    <3>1. Control' /\ Got'
      BY <2>0, <2>15 DEF CacheWritten, control, Control, Got
    <3>2. Stored'
      BY <2>0, <2>15 DEF CacheWritten, Stored, CacheRows, Control
    <3>3. QED
      BY <3>1, <3>2 DEF Typed
  <2>16. CASE CacheWriteLost
    BY <2>0, <2>16 DEF CacheWriteLost, control, Typed, Control, Got, Stored
  <2>17. CASE Tick
    BY <2>0, <2>17 DEF Tick, control, storage, Typed, Control, Got, Stored
  <2>18. CASE UNCHANGED vars
    BY <2>0, <2>18 DEF vars, control, storage, Typed, Control, Got, Stored
  <2>19. QED
    BY <2>1, <2>2, <2>5, <2>6, <2>7, <2>8, <2>9, <2>10, <2>11, <2>12, <2>13,
       <2>14, <2>15, <2>16, <2>17, <2>18
       DEF Next, GatewayStep, TimeoutStep, OutsideStep, AllDone
<1>3. QED
  BY <1>1, <1>2, PTL DEF Spec

\* Every variable keeps its type through every interleaving of calls, timeouts and
\* cache writes.
THEOREM ModelTypeCorrect == Spec => []TypeOK
<1>1. Typed => TypeOK
  BY DEF Typed, Control, Got, Stored, Answers, Served, TypeOK
<1>2. QED
  BY <1>1, TypedHolds, PTL

-----------------------------------------------------------------------------
(***************************************************************************)
(* The routing loop.  provider_errors is a map, and says nothing of order:  *)
(* that it holds exactly the entries before pos is what makes a response    *)
(* that of the first provider that did not fail, and has to be carried      *)
(* through every timeout and every retry.                                   *)
(***************************************************************************)

\* The entries of routing before p.
Before(p) == {Routing[i] : i \in 1 .. (p - 1)}

Answering == {"streaming", "done"}

RoutingInv ==
    \A c \in Calls :
        /\ errors[c] = Before(pos[c])
        /\ attempt[c] <= MaxRetries(c)
        /\ pc[c] \notin Answering => resp[c] = NoResponse
        /\ resp[c].status = "ok" => resp[c].out.provider = Current(c)
        /\ resp[c].status = "ModelProvidersExhausted" =>
              pc[c] = "done" /\ pos[c] = Len(Routing) + 1 /\ attempt[c] = MaxRetries(c)

\* Recording the error of the current entry extends the failed prefix by one.
LEMMA BeforeNext ==
    ASSUME NEW p \in 1 .. Len(Routing)
    PROVE  Before(p) \cup {Routing[p]} = Before(p + 1)
BY RoutingFacts DEF Before

\* Nothing is before the first entry, and everything before the end.
LEMMA BeforeEnds == Before(1) = {} /\ Before(Len(Routing) + 1) = Providers
BY RoutingFacts DEF Before

\* The failed prefix, the retries and the response agree in every reachable state.
LEMMA RoutingInvHolds == Spec => []RoutingInv
<1> USE RoutingFacts
<1>1. Init => RoutingInv
  BY ModelAssumption, BeforeEnds DEF Init, RoutingInv, NoResponse, Answering, MaxRetries
<1>2. Typed /\ RoutingInv /\ [Next]_vars => RoutingInv'
  <2> SUFFICES ASSUME Typed, RoutingInv, [Next]_vars PROVE RoutingInv'
    OBVIOUS
  <2>0. Control /\ Got /\ Stored
    BY DEF Typed
  <2>1. ASSUME NEW c \in Calls,
               TryProvider(c) \/ SendRequest(c) \/ CacheMiss(c)
        PROVE  RoutingInv'
    <3>1. PICK where \in {"lookup", "send", "waiting"} : pc' = [pc EXCEPT ![c] = where]
      BY <2>1 DEF TryProvider, SendRequest, CacheMiss, Goto
    <3>2. resp[c] = NoResponse /\ UNCHANGED <<opts, attempt, pos, errors, resp>>
      BY <2>1 DEF TryProvider, SendRequest, CacheMiss, RoutingInv, Answering
    <3>3. QED
      BY <2>0, <3>1, <3>2 DEF Control, RoutingInv, MaxRetries, Current, NoResponse
  <2>2. ASSUME NEW c \in Calls, RecordError(c), pc[c] \in Underway,
               UNCHANGED <<opts, attempt, resp>>
        PROVE  RoutingInv'
    <3>1. pos[c] \in 1 .. Len(Routing) /\ pos \in [Calls -> 1 .. (Len(Routing) + 1)]
      BY <2>0, <2>2 DEF Control
    <3>2. errors' = [errors EXCEPT ![c] = Before(pos[c] + 1)]
      BY <2>0, <2>2, <3>1, BeforeNext DEF RecordError, RoutingInv, Current
    <3>3. resp[c] = NoResponse
      BY <2>2 DEF RoutingInv, Underway, Answering
    <3>4. /\ pos' = [pos EXCEPT ![c] = pos[c] + 1]
          /\ pc' = [pc EXCEPT ![c] = "routing"]
      BY <2>2 DEF RecordError, Goto
    <3>5. ASSUME NEW d \in Calls PROVE errors'[d] = Before(pos'[d])
      BY <2>0, <3>1, <3>2, <3>4 DEF Control, RoutingInv
    <3>6. ASSUME NEW d \in Calls, d # c
          PROVE  pos'[d] = pos[d] /\ pc'[d] = pc[d]
      BY <2>0, <3>1, <3>4, <3>6 DEF Control
    <3>7. QED
      BY <2>2, <3>3, <3>5, <3>6 DEF RoutingInv, MaxRetries, Current, NoResponse
  <2>3. ASSUME NEW c \in Calls, NEW e \in Statuses, Retry(c, e), opts' = opts,
               pc[c] \in Underway \cup {"routing"},
               e = "ModelProvidersExhausted" => pos[c] > Len(Routing)
        PROVE  RoutingInv'
    <3>1. resp[c] = NoResponse
      BY <2>3 DEF RoutingInv, Underway, Answering
    <3>2. /\ attempt[c] \in 0 .. NumRetries /\ MaxRetries(c) \in Nat
          /\ pos[c] \in 1 .. (Len(Routing) + 1)
          /\ attempt \in [Calls -> 0 .. NumRetries]
          /\ attempt[c] <= MaxRetries(c)
      BY <2>0, ModelAssumption DEF Control, MaxRetries, RoutingInv
    <3>3. CASE attempt[c] < MaxRetries(c)
      <4>1. /\ attempt' = [attempt EXCEPT ![c] = attempt[c] + 1]
            /\ pos' = [pos EXCEPT ![c] = 1]
            /\ errors' = [errors EXCEPT ![c] = Before(1)]
            /\ pc' = [pc EXCEPT ![c] = "routing"]
            /\ resp' = resp
        BY <2>3, <3>3, BeforeEnds DEF Retry, Goto
      <4>2. attempt'[c] <= MaxRetries(c) /\ MaxRetries(c)' = MaxRetries(c)
        BY <2>3, <3>2, <3>3, <4>1 DEF MaxRetries
      <4>3. QED
        BY <2>0, <2>3, <3>1, <4>1, <4>2
           DEF Control, RoutingInv, MaxRetries, Current, Answering, NoResponse
    <3>4. CASE ~(attempt[c] < MaxRetries(c))
      <4>1. /\ resp' = [resp EXCEPT ![c] = [status |-> e]]
            /\ pc' = [pc EXCEPT ![c] = "done"]
            /\ UNCHANGED <<attempt, pos, errors>>
        BY <2>3, <3>4 DEF Retry, Goto
      <4>2. attempt[c] = MaxRetries(c)
        BY <3>2, <3>4
      <4>3. e = "ModelProvidersExhausted" => pos[c] = Len(Routing) + 1
        BY <2>3, <3>2
      <4>4. QED
        BY <2>0, <2>3, <4>1, <4>2, <4>3
           DEF Control, Got, RoutingInv, MaxRetries, Current, Answering, Statuses
    <3>5. QED
      BY <3>3, <3>4
  <2>4. ASSUME NEW c \in Calls, NEW out, NEW b, out.provider = Current(c),
               resp' = [resp EXCEPT ![c] = Response(b, out)],
               pc'[c] \in Answering, \A d \in Calls \ {c} : pc'[d] = pc[d],
               UNCHANGED <<opts, attempt, pos, errors>>
        PROVE  RoutingInv'
    <3>1. ASSUME NEW d \in Calls, d # c PROVE pc'[d] = pc[d] /\ resp'[d] = resp[d]
      BY <2>0, <2>4, <3>1 DEF Got
    <3>2. resp'[c].status = "ok" /\ resp'[c].out.provider = Current(c)
      BY <2>0, <2>4 DEF Got, Response
    <3>3. QED
      BY <2>4, <3>1, <3>2 DEF RoutingInv, MaxRetries, Current
  <2>5. ASSUME NEW c \in Calls, CacheHit(c) PROVE RoutingInv'
    <3>1. PICK row \in Lookup(c) : resp' = [resp EXCEPT ![c] = Response(TRUE, row.out)]
      BY <2>5 DEF CacheHit
    <3>2. row.out.provider = Current(c)
      BY DEF Lookup
    <3>3. QED
      BY <2>0, <2>4, <2>5, <3>1, <3>2 DEF CacheHit, Goto, Control, Answering
  <2>6. ASSUME NEW c \in Calls, ProviderAnswers(c) \/ FirstChunk(c) PROVE RoutingInv'
    <3>1. Answered(c, 1, TRUE).provider = Current(c)
      BY DEF Answered
    <3>2. CASE ProviderAnswers(c)
      <4>1. /\ resp' = [resp EXCEPT ![c] = Response(FALSE, Answered(c, 1, TRUE))]
            /\ pc' = [pc EXCEPT ![c] = "done"] /\ pc[c] = "waiting"
            /\ UNCHANGED <<opts, attempt, pos, errors>>
        BY <3>2 DEF ProviderAnswers, Goto
      <4>2. QED
        BY <2>0, <2>4, <3>1, <4>1 DEF Control, Answering
    <3>3. CASE FirstChunk(c)
      <4>1. /\ resp' = [resp EXCEPT ![c] = Response(FALSE, Answered(c, 1, TRUE))]
            /\ pc' = [pc EXCEPT ![c] = "streaming"] /\ pc[c] = "waiting"
            /\ UNCHANGED <<opts, attempt, pos, errors>>
        BY <3>3 DEF FirstChunk, Goto
      <4>2. QED
        BY <2>0, <2>4, <3>1, <4>1 DEF Control, Answering
    <3>4. QED
      BY <2>6, <3>2, <3>3
  <2>7. ASSUME NEW c \in Calls, StreamItem(c) PROVE RoutingInv'
    <3>1. PICK good \in BOOLEAN :
            resp' = [resp EXCEPT ![c] =
                       Response(FALSE, [resp[c].out EXCEPT !.chunks = IF good THEN @ + 1 ELSE @,
                                                           !.whole = good])]
      BY <2>7 DEF StreamItem
    <3> DEFINE more == [resp[c].out EXCEPT !.chunks = IF good THEN @ + 1 ELSE @, !.whole = good]
    <3>2. pc[c] = "streaming" /\ resp[c] \in Fresh
      BY <2>0, <2>7 DEF StreamItem, Got
    <3>3. resp[c].out \in Outputs /\ resp[c].status = "ok"
      BY <3>2 DEF Fresh
    <3>4. more.provider = resp[c].out.provider
      BY <3>3 DEF Outputs
    <3>5. more.provider = Current(c)
      BY <3>3, <3>4 DEF RoutingInv
    <3>6. resp' = [resp EXCEPT ![c] = Response(FALSE, more)]
      BY <3>1
    <3> HIDE DEF more
    <3>7. QED
      BY <2>4, <2>7, <3>2, <3>5, <3>6 DEF StreamItem, control, Answering
  <2>8. ASSUME NEW c \in Calls, StreamEnds(c) PROVE RoutingInv'
    BY <2>0, <2>8 DEF StreamEnds, Goto, Control, RoutingInv, MaxRetries, Current, Answering
  <2>9. ASSUME NEW c \in Calls, CallDropped(c) PROVE RoutingInv'
    BY <2>0, <2>9 DEF CallDropped, Goto, Control, Got, RoutingInv, MaxRetries, Current, Answering
  <2>10. ASSUME NEW c \in Calls, ProviderFails(c) \/ ProviderTimesOut(c) \/ StreamIsEmpty(c)
         PROVE  RoutingInv'
    BY <2>2, <2>10 DEF ProviderFails, ProviderTimesOut, StreamIsEmpty, Underway
  <2>11. ASSUME NEW c \in Calls, ModelProvidersExhausted(c) PROVE RoutingInv'
    BY <2>3, <2>11 DEF ModelProvidersExhausted, Statuses
  <2>12. ASSUME NEW c \in Calls, ModelTimesOut(c) PROVE RoutingInv'
    BY <2>3, <2>12 DEF ModelTimesOut, Statuses
  <2>13. CASE CacheWritten \/ CacheWriteLost \/ Tick \/ UNCHANGED vars
    BY <2>13 DEF CacheWritten, CacheWriteLost, Tick, vars, control, RoutingInv, MaxRetries,
                 Current
  <2>14. QED
    BY <2>1, <2>5, <2>6, <2>7, <2>8, <2>9, <2>10, <2>11, <2>12, <2>13
       DEF Next, GatewayStep, TimeoutStep, OutsideStep, AllDone
<1>3. QED
  BY <1>1, <1>2, TypedHolds, PTL DEF Spec

\* A response is that of the first provider of the routing that did not fail in its
\* attempt, and giving up means that all failed in the last attempt.
THEOREM RoutingFollowed == Spec => []ResponseFollowsRouting
<1>1. RoutingInv => ResponseFollowsRouting
  BY BeforeEnds DEF RoutingInv, ResponseFollowsRouting, Before
<1>2. QED
  BY <1>1, RoutingInvHolds, PTL

-----------------------------------------------------------------------------
(***************************************************************************)
(* The requests a call sends: the earlier attempts sent at most one to each *)
(* entry of routing, this one at most one to each entry up to pos.          *)
(***************************************************************************)

\* Requests of this attempt.
Tried(c) ==
    IF pc[c] \in {"waiting", "streaming"} THEN pos[c]
    ELSE IF pc[c] = "done" THEN Len(Routing) ELSE pos[c] - 1

SentInv == \A c \in Calls : sent[c] <= attempt[c] * Len(Routing) + Tried(c)

\* One attempt more is one routing more.
LEMMA AttemptCost ==
    ASSUME NEW a \in Nat, NEW n \in Nat
    PROVE  a * n \in Nat /\ (a + 1) * n = a * n + n
OBVIOUS

\* More attempts are no fewer requests.
LEMMA AttemptsMonotone ==
    ASSUME NEW a \in Nat, NEW b \in Nat, NEW n \in Nat, a <= b
    PROVE  a * n + n <= (b + 1) * n
<1>1. PICK d \in Nat : b = a + d
  <2>1. b - a \in Nat /\ b = a + (b - a)
    OBVIOUS
  <2>2. QED
    BY <2>1
<1>2. (b + 1) * n = a * n + n + d * n /\ d * n \in Nat /\ a * n \in Nat
  BY <1>1
<1>3. QED
  BY <1>2

\* The bound on requests holds in every reachable state.
LEMMA SentInvHolds == Spec => []SentInv
<1> USE RoutingFacts
<1>1. Init => SentInv
  BY DEF Init, SentInv, Tried
<1>2. Typed /\ SentInv /\ [Next]_vars => SentInv'
  <2> SUFFICES ASSUME Typed, SentInv, [Next]_vars, NEW d \in Calls
               PROVE  sent'[d] <= attempt'[d] * Len(Routing) + Tried(d)'
    BY DEF SentInv
  <2> DEFINE n == Len(Routing)
  <2> DEFINE goal == sent'[d] <= attempt'[d] * n + Tried(d)'
  <2>0. /\ Control
        /\ attempt[d] \in Nat /\ sent[d] \in Nat /\ n \in Nat
        /\ pos[d] \in 1 .. (n + 1)
        /\ attempt[d] * n \in Nat
        /\ sent[d] <= attempt[d] * n + Tried(d)
        /\ pc[d] \in Underway \cup {"streaming"} => pos[d] <= n
    BY AttemptCost DEF Typed, Control, SentInv
  <2>1. ASSUME UNCHANGED <<attempt, sent, pos>>, pc'[d] = pc[d] PROVE goal
    <3>1. Tried(d)' = Tried(d)
      BY <2>1 DEF Tried
    <3>2. QED
      BY <2>0, <2>1, <3>1
  <2>2. ASSUME NEW c \in Calls, c # d, [Next]_vars,
               GatewayStep(c) \/ TimeoutStep(c) \/ OutsideStep(c)
        PROVE  goal
    <3>1. attempt'[d] = attempt[d] /\ sent'[d] = sent[d] /\ pos'[d] = pos[d] /\ pc'[d] = pc[d]
      BY <2>0, <2>2 DEF Control, GatewayStep, TimeoutStep, OutsideStep, TryProvider, SendRequest,
           ModelProvidersExhausted, ProviderTimesOut, ModelTimesOut, CacheHit, CacheMiss,
           ProviderFails, StreamIsEmpty, ProviderAnswers, FirstChunk, StreamItem, StreamEnds,
           CallDropped, RecordError, Retry, Goto, control
    <3>2. Tried(d)' = Tried(d)
      BY <3>1 DEF Tried
    <3>3. QED
      BY <2>0, <3>1, <3>2
  <2>3. CASE TryProvider(d) \/ CacheMiss(d)
    <3>1. pc'[d] \in {"lookup", "send"} /\ UNCHANGED <<attempt, sent, pos>>
      BY <2>0, <2>3 DEF TryProvider, CacheMiss, Goto, Control
    <3>2. Tried(d)' = pos[d] - 1 /\ Tried(d) = pos[d] - 1
      BY <2>3, <3>1 DEF TryProvider, CacheMiss, Tried
    <3>3. QED
      BY <2>0, <3>1, <3>2
  <2>4. CASE SendRequest(d)
    <3>1. pc'[d] = "waiting" /\ sent'[d] = sent[d] + 1 /\ UNCHANGED <<attempt, pos>>
      BY <2>0, <2>4 DEF SendRequest, Goto, Control
    <3>2. Tried(d)' = pos[d] /\ Tried(d) = pos[d] - 1
      BY <2>4, <3>1 DEF SendRequest, Tried
    <3>3. QED
      BY <2>0, <3>1, <3>2
  <2>5. CASE RecordError(d) /\ pc[d] \in Underway /\ UNCHANGED <<attempt, sent>>
    <3>1. pos'[d] = pos[d] + 1 /\ pc'[d] = "routing"
      BY <2>0, <2>5 DEF RecordError, Goto, Control
    <3>2. Tried(d) \in Int /\ Tried(d) <= pos[d] /\ Tried(d)' = pos[d]
      BY <2>0, <2>5, <3>1 DEF Tried, Underway
    <3>3. QED
      BY <2>0, <2>5, <3>2
  <2>6. ASSUME NEW e, Retry(d, e), sent' = sent, pc[d] \in Underway \cup {"routing"}
        PROVE  goal
    <3>1. sent[d] <= attempt[d] * n + n
      <4>1. Tried(d) \in Int /\ Tried(d) <= n
        BY <2>0, <2>6 DEF Tried, Underway
      <4>2. QED
        BY <2>0, <4>1
    <3>2. CASE attempt[d] < MaxRetries(d)
      <4>1. attempt'[d] = attempt[d] + 1 /\ pos'[d] = 1 /\ pc'[d] = "routing"
        BY <2>0, <2>6, <3>2 DEF Retry, Goto, Control
      <4>2. attempt'[d] * n = attempt[d] * n + n
        BY <2>0, <4>1, AttemptCost
      <4>3. Tried(d)' = 0
        BY <4>1 DEF Tried
      <4>4. QED
        BY <2>0, <2>6, <3>1, <4>2, <4>3
    <3>3. CASE ~(attempt[d] < MaxRetries(d))
      <4>1. attempt' = attempt /\ pc'[d] = "done"
        BY <2>0, <2>6, <3>3 DEF Retry, Goto, Control
      <4>2. Tried(d)' = n
        BY <4>1 DEF Tried
      <4>3. QED
        BY <2>0, <2>6, <3>1, <4>1, <4>2
    <3>4. QED
      BY <3>2, <3>3
  <2>7. CASE /\ pc[d] \in Underway \cup {"routing", "streaming"} /\ Goto(d, "done")
             /\ UNCHANGED <<attempt, sent>>
    <3>1. pc'[d] = "done"
      BY <2>0, <2>7 DEF Goto, Control
    <3>2. Tried(d)' = n
      BY <3>1 DEF Tried
    <3>3. Tried(d) \in Int /\ Tried(d) <= n
      <4>1. pc[d] # "done" /\ (pc[d] \in {"waiting", "streaming"} => pos[d] <= n)
        BY <2>0, <2>7 DEF Underway
      <4>2. QED
        BY <2>0, <4>1 DEF Tried
    <3> DEFINE base == attempt[d] * n
    <3>4. base \in Nat /\ sent[d] \in Nat /\ sent[d] <= base + Tried(d)
      BY <2>0
    <3>5. sent'[d] = sent[d] /\ attempt'[d] * n = base
      BY <2>7
    <3> HIDE DEF base
    <3>6. sent[d] <= base + n
      BY <2>0, <3>3, <3>4
    <3>7. QED
      BY <3>2, <3>5, <3>6
  <2>8. CASE FirstChunk(d)
    <3>1. pc'[d] = "streaming" /\ UNCHANGED <<attempt, sent, pos>>
      BY <2>0, <2>8 DEF FirstChunk, Goto, Control
    <3>2. Tried(d)' = Tried(d)
      BY <2>8, <3>1 DEF FirstChunk, Tried
    <3>3. QED
      BY <2>0, <3>1, <3>2
  <2>9. CASE StreamItem(d)
    BY <2>1, <2>9 DEF StreamItem, control
  <2>10. CASE ProviderFails(d) \/ ProviderTimesOut(d) \/ StreamIsEmpty(d)
    BY <2>5, <2>10 DEF ProviderFails, ProviderTimesOut, StreamIsEmpty, Underway
  <2>11. CASE ModelProvidersExhausted(d) \/ ModelTimesOut(d)
    BY <2>6, <2>11 DEF ModelProvidersExhausted, ModelTimesOut
  <2>12. CASE CacheHit(d) \/ ProviderAnswers(d) \/ StreamEnds(d) \/ CallDropped(d)
    BY <2>7, <2>12 DEF CacheHit, ProviderAnswers, StreamEnds, CallDropped, Underway
  <2>13. CASE CacheWritten \/ CacheWriteLost \/ Tick \/ UNCHANGED vars
    BY <2>1, <2>13 DEF CacheWritten, CacheWriteLost, Tick, vars, control
  <2>14. CASE GatewayStep(d) \/ TimeoutStep(d) \/ OutsideStep(d)
    BY <2>3, <2>4, <2>8, <2>9, <2>10, <2>11, <2>12, <2>14
       DEF GatewayStep, TimeoutStep, OutsideStep
  <2>15. QED
    BY <2>2, <2>13, <2>14 DEF Next, AllDone
<1>3. QED
  BY <1>1, <1>2, TypedHolds, PTL DEF Spec

\* A call sends a provider at most one request per attempt, whatever times out when.
THEOREM RequestBound == Spec => []RequestsAreBounded
<1>1. Typed /\ RoutingInv /\ SentInv => RequestsAreBounded
  <2> SUFFICES ASSUME Typed, RoutingInv, SentInv, NEW c \in Calls
               PROVE  sent[c] <= (MaxRetries(c) + 1) * Len(Routing)
    BY DEF RequestsAreBounded
  <2>1. /\ attempt[c] \in Nat /\ MaxRetries(c) \in Nat /\ attempt[c] <= MaxRetries(c)
        /\ Len(Routing) \in Nat /\ sent[c] \in Nat /\ pos[c] \in 1 .. (Len(Routing) + 1)
        /\ pc[c] \in {"waiting", "streaming"} => pos[c] <= Len(Routing)
    BY ModelAssumption, RoutingFacts DEF Typed, Control, RoutingInv, MaxRetries, Underway
  <2>2. Tried(c) \in Nat /\ Tried(c) <= Len(Routing)
    BY <2>1 DEF Tried
  <2>3. sent[c] <= attempt[c] * Len(Routing) + Len(Routing) /\ attempt[c] * Len(Routing) \in Nat
    BY <2>1, <2>2, AttemptCost DEF SentInv
  <2>4. /\ attempt[c] * Len(Routing) + Len(Routing) <= (MaxRetries(c) + 1) * Len(Routing)
        /\ (MaxRetries(c) + 1) * Len(Routing) \in Nat
    BY <2>1, AttemptsMonotone, AttemptCost
  <2>5. QED
    BY <2>1, <2>3, <2>4
<1>2. QED
  BY <1>1, TypedHolds, RoutingInvHolds, SentInvHolds, PTL

-----------------------------------------------------------------------------
(***************************************************************************)
(* The cache.  A row is as sound as the output whose write was spawned, and *)
(* that as the response it was taken from.                                  *)
(***************************************************************************)

Sound(out) ==
    /\ out.whole
    /\ Writes(out.by)
    /\ out.kind \in {"stream", "embed"} => out.by = out.from

CacheInv ==
    /\ \A out \in spawned : Sound(out)
    /\ \A row \in cache : Sound(row.out)
    /\ \A c \in Calls : pc[c] = "streaming" => resp[c].out.by = c /\ resp[c].out.from = c

\* The writer's options do not change, so neither does the soundness of an output.
LEMMA SoundStays == ASSUME opts' = opts, NEW out PROVE Sound(out)' = Sound(out)
BY DEF Sound, Writes, CacheOptions

\* Only what may be cached is, and a call caches what it asked for.
LEMMA CacheInvHolds == Spec => []CacheInv
<1>1. Init => CacheInv
  BY DEF Init, CacheInv
<1>2. Typed /\ CacheInv /\ [Next]_vars => CacheInv'
  <2> SUFFICES ASSUME Typed, CacheInv, [Next]_vars PROVE CacheInv'
    OBVIOUS
  <2>0. Control /\ Got /\ Stored
    BY DEF Typed
  <2>1. opts' = opts
    BY DEF Next, GatewayStep, TimeoutStep, OutsideStep, TryProvider, SendRequest,
           ModelProvidersExhausted, ProviderTimesOut, ModelTimesOut, CacheHit, CacheMiss,
           ProviderFails, StreamIsEmpty, ProviderAnswers, FirstChunk, StreamItem, StreamEnds,
           CallDropped, CacheWritten, CacheWriteLost, Tick, AllDone, vars, control
  <2>2. ASSUME NEW c \in Calls, NEW out, out.whole, out.by = c,
               out.kind \in {"stream", "embed"} => out.from = c, MayCache(c, out)
        PROVE  (\A o \in spawned' : Sound(o)) /\ cache' = cache
    BY <2>2 DEF CacheInv, MayCache, StartCacheWrite, storage, Sound
  <2>3. ASSUME /\ \A o \in spawned' : Sound(o)
               /\ \A row \in cache' : Sound(row.out)
               /\ \A c \in Calls : pc'[c] = "streaming" =>
                                      resp'[c].out.by = c /\ resp'[c].out.from = c
        PROVE  CacheInv'
    BY <2>1, <2>3, SoundStays DEF CacheInv
  <2>4. ASSUME NEW c \in Calls, pc'[c] # "streaming",
               \A d \in Calls \ {c} : pc'[d] = pc[d] /\ resp'[d] = resp[d],
               \A o \in spawned' : Sound(o), cache' = cache
        PROVE  CacheInv'
    BY <2>3, <2>4 DEF CacheInv
  <2>5. ASSUME NEW c \in Calls, pc'[c] # "streaming",
               \A d \in Calls \ {c} : pc'[d] = pc[d] /\ resp'[d] = resp[d], UNCHANGED storage
        PROVE  CacheInv'
    BY <2>4, <2>5 DEF CacheInv, storage
  <2>6. ASSUME NEW c \in Calls,
               GatewayStep(c) \/ TimeoutStep(c) \/ CacheMiss(c) \/ ProviderFails(c)
               \/ CallDropped(c)
        PROVE  CacheInv'
    <3>1. pc'[c] # "streaming" /\ UNCHANGED storage
      BY <2>0, <2>6 DEF Control, GatewayStep, TimeoutStep, TryProvider, SendRequest,
           ModelProvidersExhausted, ProviderTimesOut, ModelTimesOut, CacheMiss, ProviderFails,
           CallDropped, RecordError, Retry, Goto
    <3>2. \A d \in Calls \ {c} : pc'[d] = pc[d] /\ resp'[d] = resp[d]
      BY <2>0, <2>6 DEF Control, Got, GatewayStep, TimeoutStep, TryProvider, SendRequest,
           ModelProvidersExhausted, ProviderTimesOut, ModelTimesOut, CacheMiss, ProviderFails,
           CallDropped, RecordError, Retry, Goto
    <3>3. QED
      BY <2>5, <3>1, <3>2
  <2>7. ASSUME NEW c \in Calls, CacheHit(c) PROVE CacheInv'
    <3>1. PICK row \in Lookup(c) :
            /\ resp' = [resp EXCEPT ![c] = Response(TRUE, row.out)]
            /\ IF opts[c].kind = "plain" THEN MayCache(c, [row.out EXCEPT !.by = c])
                                         ELSE UNCHANGED storage
      BY <2>7 DEF CacheHit
    <3>2. /\ pc'[c] # "streaming"
          /\ \A d \in Calls \ {c} : pc'[d] = pc[d] /\ resp'[d] = resp[d]
      BY <2>0, <2>7, <3>1 DEF Control, Got, CacheHit, Goto
    <3>3. row.out \in Outputs /\ row.out.whole /\ row.out.kind = opts[c].kind
      BY <2>0, HitType DEF Lookup, CacheInv, Sound
    <3>4. CASE opts[c].kind = "plain"
      <4> DEFINE again == [row.out EXCEPT !.by = c]
      <4>1. again.whole /\ again.by = c /\ again.kind = "plain"
        BY <3>3, <3>4 DEF Outputs
      <4>2. MayCache(c, again)
        BY <3>1, <3>4
      <4> HIDE DEF again
      <4>3. (\A o \in spawned' : Sound(o)) /\ cache' = cache
        BY <2>2, <4>1, <4>2
      <4>4. QED
        BY <2>4, <3>2, <4>3
    <3>5. CASE opts[c].kind # "plain"
      BY <2>5, <3>1, <3>2, <3>5
    <3>6. QED
      BY <3>4, <3>5
  <2>8. ASSUME NEW n, NEW c \in Calls
        PROVE  /\ Answered(c, n, TRUE).whole
               /\ Answered(c, n, TRUE).by = c /\ Answered(c, n, TRUE).from = c
    BY DEF Answered
  <2>9. ASSUME NEW c \in Calls, ProviderAnswers(c) PROVE CacheInv'
    <3>1. /\ pc'[c] # "streaming"
          /\ \A d \in Calls \ {c} : pc'[d] = pc[d] /\ resp'[d] = resp[d]
      BY <2>0, <2>9 DEF Control, Got, ProviderAnswers, Goto
    <3>2. MayCache(c, Answered(c, 1, TRUE))
      BY <2>9 DEF ProviderAnswers
    <3>3. (\A o \in spawned' : Sound(o)) /\ cache' = cache
      BY <2>2, <2>8, <3>2
    <3>4. QED
      BY <2>4, <3>1, <3>3
  <2>10. ASSUME NEW c \in Calls, StreamIsEmpty(c) PROVE CacheInv'
    <3>1. /\ pc'[c] # "streaming"
          /\ \A d \in Calls \ {c} : pc'[d] = pc[d] /\ resp'[d] = resp[d]
      BY <2>0, <2>10 DEF Control, StreamIsEmpty, RecordError, Goto
    <3>2. MayCache(c, Answered(c, 0, TRUE))
      BY <2>10 DEF StreamIsEmpty
    <3>3. (\A o \in spawned' : Sound(o)) /\ cache' = cache
      BY <2>2, <2>8, <3>2
    <3>4. QED
      BY <2>4, <3>1, <3>3
  <2>11. ASSUME NEW c \in Calls, FirstChunk(c) PROVE CacheInv'
    <3>1. resp' = [resp EXCEPT ![c] = Response(FALSE, Answered(c, 1, TRUE))]
      BY <2>11 DEF FirstChunk
    <3>2. resp'[c].out.by = c /\ resp'[c].out.from = c
      BY <2>0, <3>1 DEF Got, Response, Answered
    <3>3. \A d \in Calls \ {c} : pc'[d] = pc[d] /\ resp'[d] = resp[d]
      BY <2>0, <2>11, <3>1 DEF Control, Got, FirstChunk, Goto
    <3>4. UNCHANGED <<spawned, cache>>
      BY <2>11 DEF FirstChunk, storage
    <3>5. QED
      BY <2>3, <3>2, <3>3, <3>4 DEF CacheInv
  <2>12. ASSUME NEW c \in Calls, StreamItem(c) PROVE CacheInv'
    <3>1. PICK good \in BOOLEAN :
            resp' = [resp EXCEPT ![c] =
                       Response(FALSE, [resp[c].out EXCEPT !.chunks = IF good THEN @ + 1 ELSE @,
                                                           !.whole = good])]
      BY <2>12 DEF StreamItem
    <3> DEFINE longer == [resp[c].out EXCEPT !.chunks = IF good THEN @ + 1 ELSE @, !.whole = good]
    <3>2. resp[c].out \in Outputs /\ resp[c].out.by = c /\ resp[c].out.from = c
      BY <2>0, <2>12 DEF StreamItem, Got, Fresh, CacheInv
    <3>3. longer.by = c /\ longer.from = c
      BY <3>2 DEF Outputs
    <3>4. resp' = [resp EXCEPT ![c] = Response(FALSE, longer)]
      BY <3>1
    <3> HIDE DEF longer
    <3>5. resp'[c].out = longer
      BY <2>0, <3>4 DEF Got, Response
    <3>6. /\ \A d \in Calls \ {c} : resp'[d] = resp[d]
          /\ UNCHANGED <<pc, spawned, cache>>
      BY <2>0, <2>12, <3>4 DEF Got, StreamItem, control, storage
    <3>7. QED
      BY <2>3, <3>3, <3>5, <3>6 DEF CacheInv
  <2>13. ASSUME NEW c \in Calls, StreamEnds(c) PROVE CacheInv'
    <3>1. /\ pc'[c] # "streaming"
          /\ \A d \in Calls \ {c} : pc'[d] = pc[d] /\ resp'[d] = resp[d]
      BY <2>0, <2>13 DEF Control, StreamEnds, Goto
    <3>2. resp[c].out.by = c /\ resp[c].out.from = c
      BY <2>13 DEF StreamEnds, CacheInv
    <3>3. CASE resp[c].out.whole
      <4>1. MayCache(c, resp[c].out)
        BY <2>13, <3>3 DEF StreamEnds
      <4>2. (\A o \in spawned' : Sound(o)) /\ cache' = cache
        BY <2>2, <3>2, <3>3, <4>1
      <4>3. QED
        BY <2>4, <3>1, <4>2
    <3>4. CASE ~resp[c].out.whole
      BY <2>5, <2>13, <3>1, <3>4 DEF StreamEnds
    <3>5. QED
      BY <3>3, <3>4
  <2>14. CASE CacheWritten
    <3>1. PICK out \in spawned :
            spawned' = spawned \ {out} /\ cache' = cache \cup {[out |-> out, ts |-> clock]}
      BY <2>14 DEF CacheWritten
    <3>2. \A row \in cache' : Sound(row.out)
      BY <3>1 DEF CacheInv
    <3>3. QED
      BY <2>3, <2>14, <3>1, <3>2 DEF CacheWritten, CacheInv, control
  <2>15. CASE CacheWriteLost
    BY <2>3, <2>15 DEF CacheWriteLost, CacheInv, control
  <2>16. CASE Tick \/ UNCHANGED vars
    <3>1. UNCHANGED <<pc, resp, spawned, cache>>
      BY <2>16 DEF Tick, vars, control, storage
    <3>2. QED
      BY <2>3, <3>1 DEF CacheInv
  <2>17. QED
    BY <2>6, <2>7, <2>9, <2>10, <2>11, <2>12, <2>13, <2>14, <2>15, <2>16
       DEF Next, OutsideStep, AllDone
<1>3. QED
  BY <1>1, <1>2, TypedHolds, PTL DEF Spec

\* No interrupted or erroneous stream and no dryrun leaves a row in the cache, in any
\* interleaving of streams, timeouts, dropped callers and writes.
THEOREM CacheSound == Spec => []CacheRowsAreSound
<1>1. CacheInv => CacheRowsAreSound
  BY DEF CacheInv, Sound, CacheRowsAreSound, Writes, CacheOptions
<1>2. QED
  BY <1>1, CacheInvHolds, PTL

\* A row of a stream or an embedding is written by the call that asked for it.
THEOREM RowsOfTheirCalls == Spec => []RowIsOfItsCall
<1>1. CacheInv => RowIsOfItsCall
  BY DEF CacheInv, Sound, RowIsOfItsCall
<1>2. QED
  BY <1>1, CacheInvHolds, PTL
=============================================================================
