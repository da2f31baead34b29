----------------------------- MODULE BatchRelay -----------------------------
(***************************************************************************)
(* One batch at an upstream, read by the provider there and shown to a     *)
(* consumer, directly or through a second node (provider kind "llmleaf"):  *)
(* batch_create, batch_retrieve, batch_cancel and batch_results of         *)
(* compat.rs, anthropic.rs, gemini.rs, baidu.rs and llmleaf.rs, and the    *)
(* envelope of compat/batch.rs. Who may reach which batch is BatchJobs'    *)
(* subject. A custom id is the place of its request.                       *)
(***************************************************************************)
EXTENDS Naturals, Sequences, SequencesExt, FiniteSets

CONSTANTS
    None,
    Flavors,        \* batch APIs: subset of {"openai", "qianfan", "mistral", "anthropic", "gemini"}
    BatchModels, MaxRequests,   \* the models a batch asks for; bound: requests in a batch
    Between         \* nodes between the consumer's and the upstream: subset of {0, 1}

VARIABLES
    job,            \* the upstream's batch
    seen,           \* the last batch object the consumer was shown
    fetch           \* a fetch of the results

vars == <<job, seen, fetch>>

\* What consumers submit: a model for each request.
Batches == UNION {[1..n -> BatchModels] : n \in 1..MaxRequests}

\* These write a file of answers and a file of errors; the others keep one list.
FileBased == {"openai", "qianfan", "mistral"}

\* These run a whole batch on the model of its first request.
SingleModel == {"mistral", "gemini"}

EndStages == {"completed", "failed", "expired", "canceled"}
Ended == job.stage \in EndStages

TypeOK ==
    /\ job # None =>
          /\ job.flavor \in Flavors /\ job.between \in Between /\ job.asked \in Batches
          /\ job.stage \in EndStages \cup {"validating", "in_progress", "finalizing", "canceling"}
          /\ DOMAIN job.outcome = DOMAIN job.asked /\ DOMAIN job.ran = DOMAIN job.asked
    /\ fetch.state \in {"none", "refused", "open", "over", "failed"}
    /\ fetch.state = "refused" => fetch.heard = <<>>

Fetch(state, lines, early) ==
    [state |-> state, lines |-> lines, early |-> early, read |-> <<>>, heard |-> <<>>,
     swallowed |-> FALSE]

Init == job = None /\ seen = None /\ fetch = Fetch("none", <<>>, FALSE)

-----------------------------------------------------------------------------
(* Status words.                                                           *)

\* What each upstream says of a stage; words are compared without regard to case.
Word(flavor, stage) ==
    CASE flavor = "anthropic" ->
            IF stage \in EndStages THEN "ended"
            ELSE IF stage = "canceling" THEN "canceling" ELSE "in_progress"
      [] flavor = "gemini" ->
            CASE stage = "completed" -> "SUCCEEDED" [] stage = "failed" -> "FAILED"
              [] stage = "expired" -> "EXPIRED" [] stage = "canceled" -> "CANCELLED"
              [] stage = "validating" -> "PENDING" [] OTHER -> "RUNNING"
      [] flavor = "mistral" ->
            CASE stage = "validating" -> "queued" [] stage = "completed" -> "success"
              [] stage = "failed" -> "failed" [] stage = "expired" -> "timeout_exceeded"
              [] stage = "canceling" -> "cancellation_requested"
              [] stage = "canceled" -> "cancelled"
              [] OTHER -> "running"
      [] flavor = "qianfan" ->
            CASE stage = "completed" -> "done" [] stage = "failed" -> "failed"
              [] stage = "expired" -> "expired" [] stage = "canceling" -> "stopping"
              [] stage = "canceled" -> "stopped" [] OTHER -> "running"
      [] OTHER ->
            CASE stage = "canceling" -> "cancelling" [] stage = "canceled" -> "cancelled"
              [] OTHER -> stage

\* One table for all the OpenAI-shaped dialects; an unknown word is a batch at work.
MapBatchStatus(word) ==
    CASE word \in {"validating", "finalizing", "failed"} -> word
      [] word \in {"completed", "success", "done"} -> "completed"
      [] word \in {"expired", "timeout_exceeded"} -> "expired"
      [] word \in {"cancelling", "cancellation_requested", "stopping"} -> "canceling"
      [] word \in {"cancelled", "canceled", "stopped"} -> "canceled"
      [] OTHER -> "in_progress"

MapGeminiBatchState(word) ==
    CASE word = "SUCCEEDED" -> "completed" [] word = "FAILED" -> "failed"
      [] word = "CANCELLED" -> "canceled" [] word = "EXPIRED" -> "expired"
      [] OTHER -> "in_progress"

AnthropicStatus(word) ==
    CASE word = "canceling" -> "canceling" [] word = "ended" -> "completed"
      [] OTHER -> "in_progress"

StatusStr(status) ==
    CASE status = "canceling" -> "cancelling" [] status = "canceled" -> "cancelled"
      [] OTHER -> status

-----------------------------------------------------------------------------
(* The batch object.                                                       *)

NoCounts == [total |-> 0, processing |-> 0, succeeded |-> 0, errored |-> 0,
             canceled |-> 0, expired |-> 0]

\* OpenAI-shaped counts name no others than these three; the rest counts as being processed.
BatchCounts(total, completed, failed) ==
    [NoCounts EXCEPT !.total = total, !.succeeded = completed, !.errored = failed,
                     !.processing = IF total > completed + failed
                                    THEN total - (completed + failed) ELSE 0]

Settled(outcomes) == Cardinality({k \in DOMAIN job.outcome : job.outcome[k] \in outcomes})

Failures == {"errored", "rejected", "expired"}

Status == Word(job.flavor, job.stage)

AnthropicBatchToHandle ==
    [status |-> AnthropicStatus(Status),
     counts |-> [total |-> Len(job.asked), processing |-> Settled({None}),
                 succeeded |-> Settled({"succeeded"}), errored |-> Settled({"errored"}),
                 canceled |-> Settled({"canceled"}), expired |-> Settled({"expired"})]]

GeminiBatchToHandle ==
    [status |-> MapGeminiBatchState(Status),
     counts |-> [NoCounts EXCEPT !.total = Len(job.asked), !.processing = Settled({None}),
                    !.succeeded = Settled({"succeeded"}),
                    !.errored = Settled(Failures \cup {"canceled"})]]

BatchValueToHandle ==
    [status |-> MapBatchStatus(Status),
     counts |-> BatchCounts(Len(job.asked), Settled({"succeeded"}), Settled(Failures))]

UpstreamHandle ==
    CASE job.flavor = "anthropic" -> AnthropicBatchToHandle
      [] job.flavor = "gemini" -> GeminiBatchToHandle
      [] OTHER -> BatchValueToHandle

\* handle_to_json, as the next node reads it.
HandleToJson(handle) ==
    [status |-> StatusStr(handle.status), total |-> handle.counts.total,
     completed |-> handle.counts.succeeded, failed |-> handle.counts.errored,
     processing |-> handle.counts.processing, canceled |-> handle.counts.canceled,
     expired |-> handle.counts.expired]

LlmleafBatchHandle(json) ==
    [status |-> MapBatchStatus(json.status),
     counts |-> [BatchCounts(json.total, json.completed, json.failed) EXCEPT
                    !.processing = json.processing, !.canceled = json.canceled,
                    !.expired = json.expired]]

Shown(handle) ==
    [handle |-> IF job.between = 0 THEN handle ELSE LlmleafBatchHandle(HandleToJson(handle)),
     read |-> handle, ended |-> Ended]

-----------------------------------------------------------------------------
(* Result lines.                                                           *)

Result(k, outcome, detail) == [id |-> k, outcome |-> outcome, detail |-> detail]
Succeeded(k, model) == Result(k, "succeeded", model)
Errored(k, status) == Result(k, "errored", status)

\* A line of a file, or of the next node's results: an error, or a response. The code
\* of an error is a word or a status.
Line(k, error, response) == [id |-> k, error |-> error, response |-> response]
Error(code, status) == [code |-> code, status |-> status]
Response(status, model) == [status |-> status, model |-> model]

\* What the upstream writes of request k.
FileLine(k) ==
    CASE job.outcome[k] = "succeeded" -> Line(k, None, Response(200, job.ran[k]))
      [] job.outcome[k] = "rejected" -> Line(k, None, Response(400, None))
      [] OTHER -> Line(k, Error(job.outcome[k], 0), None)

OutputFile == SetToSeq({k \in DOMAIN job.outcome : job.outcome[k] = "succeeded"})
ErrorFile ==
    SetToSeq({k \in DOMAIN job.outcome : job.outcome[k] \in Failures \cup {"canceled"}})

\* The output file, then the error file, each if there is one.
BatchResultFiles == OutputFile \o ErrorFile

OpenAiBatchResultLine(line) ==
    IF line.error # None THEN <<Errored(line.id, 0)>>
    ELSE IF line.response = None THEN <<>>
    ELSE IF line.response.status >= 400 THEN <<Errored(line.id, line.response.status)>>
    ELSE <<Succeeded(line.id, line.response.model)>>

AnthropicResultLine(k) ==
    CASE job.outcome[k] = "succeeded" -> <<Succeeded(k, job.ran[k])>>
      [] job.outcome[k] = "errored" -> <<Errored(k, 0)>>
      [] OTHER -> <<Result(k, job.outcome[k], None)>>

GeminiInlineResult(k) ==
    IF job.outcome[k] = "succeeded" THEN <<Succeeded(k, job.ran[k])>> ELSE <<Errored(k, 0)>>

UpstreamResult(k) ==
    CASE job.flavor = "anthropic" -> AnthropicResultLine(k)
      [] job.flavor = "gemini" -> GeminiInlineResult(k)
      [] OTHER -> OpenAiBatchResultLine(FileLine(k))

\* result_to_line: a success is a response; every other outcome is an error with a code.
ResultToLine(result) ==
    CASE result.outcome = "succeeded" -> Line(result.id, None, Response(200, result.detail))
      [] result.outcome = "errored" -> Line(result.id, Error("errored", result.detail), None)
      [] OTHER -> Line(result.id, Error(result.outcome, 0), None)

\* The line with which a node's results end when its own fetch fails: it has no custom id.
TrailingLine == Line(None, Error("errored", 0), None)

LlmleafBatchResultLine(line) ==
    IF line.error = None THEN OpenAiBatchResultLine(line)
    ELSE IF line.id = None THEN <<>>
    ELSE IF line.error.code \in {"canceled", "expired"}
         THEN <<Result(line.id, line.error.code, None)>>
    ELSE <<Errored(line.id, line.error.status)>>

-----------------------------------------------------------------------------
(* The consumer's calls.                                                   *)

\* Qianfan's batches are refused if they ask for two models.
Accepted(flavor, asked) == flavor = "qianfan" => \A k \in DOMAIN asked : asked[k] = asked[1]

\* Mistral's job and Gemini's take one model, that of the first request.
ModelsRun(flavor, asked) ==
    [k \in DOMAIN asked |-> IF flavor \in SingleModel THEN asked[1] ELSE asked[k]]

BatchCreate(flavor, between, asked) ==
    /\ job = None /\ Accepted(flavor, asked)
    /\ job' = [flavor |-> flavor, between |-> between, asked |-> asked, stage |-> "validating",
               ran |-> ModelsRun(flavor, asked), outcome |-> [k \in DOMAIN asked |-> None]]
    /\ UNCHANGED <<seen, fetch>>

BatchRetrieve ==
    /\ job # None
    /\ seen' = Shown(UpstreamHandle)
    /\ UNCHANGED <<job, fetch>>

Cancelable == job.stage \in {"validating", "in_progress"}

\* Gemini answers a cancel with nothing: the provider says that the batch is being canceled.
GeminiCancelHandle == [status |-> "canceling", counts |-> NoCounts]

\* The others answer with the batch, which may have ended meanwhile.
BatchCancel ==
    /\ job # None
    /\ IF Cancelable THEN job' = [job EXCEPT !.stage = "canceling"] ELSE UNCHANGED job
    /\ seen' = IF job.flavor = "gemini" THEN Shown(GeminiCancelHandle)' ELSE Shown(UpstreamHandle)'
    /\ UNCHANGED fetch

\* A batch without files is refused by the provider.
FilesFetch ==
    IF Ended /\ BatchResultFiles # <<>> THEN Fetch("open", BatchResultFiles, FALSE)
    ELSE Fetch("refused", <<>>, ~Ended)

ResultList == SetToSeq({k \in DOMAIN job.outcome : job.outcome[k] # None})

\* Anthropic refuses the results of a batch that has not ended.
AnthropicFetch == IF Ended THEN Fetch("open", ResultList, FALSE) ELSE Fetch("refused", <<>>, TRUE)

\* Gemini's batch has no list until it ends, and one that is missing reads as an empty one.
GeminiFetch == Fetch("open", IF Ended THEN ResultList ELSE <<>>, ~Ended)

BatchResults ==
    /\ job # None /\ fetch.state # "open"
    /\ fetch' = CASE job.flavor = "anthropic" -> AnthropicFetch
                  [] job.flavor = "gemini" -> GeminiFetch
                  [] OTHER -> FilesFetch
    /\ UNCHANGED <<job, seen>>

\* A line makes one result or none.
Heard(results) ==
    IF job.between = 0 \/ results = <<>> THEN results
    ELSE LlmleafBatchResultLine(ResultToLine(Head(results)))

NextLine ==
    /\ fetch.state = "open" /\ fetch.lines # <<>>
    /\ LET results == UpstreamResult(Head(fetch.lines))
       IN fetch' = [fetch EXCEPT !.lines = Tail(@), !.read = @ \o results,
                                 !.heard = @ \o Heard(results)]
    /\ UNCHANGED <<job, seen>>

\* The fetch from the upstream breaks: a trailing line says so, to a consumer or to a node that
\* drops it.
UpstreamBreaks ==
    /\ fetch.state = "open"
    /\ fetch' = IF job.between = 0 THEN [fetch EXCEPT !.state = "failed"]
                ELSE [fetch EXCEPT !.state = "over", !.swallowed = TRUE,
                                   !.heard = @ \o LlmleafBatchResultLine(TrailingLine)]
    /\ UNCHANGED <<job, seen>>

\* The connection between the nodes breaks.
LinkBreaks ==
    /\ fetch.state = "open" /\ job.between = 1
    /\ fetch' = [fetch EXCEPT !.state = "failed"]
    /\ UNCHANGED <<job, seen>>

FetchEnds ==
    /\ fetch.state = "open" /\ fetch.lines = <<>>
    /\ fetch' = [fetch EXCEPT !.state = "over"]
    /\ UNCHANGED <<job, seen>>

-----------------------------------------------------------------------------
(* The upstream.                                                           *)

Move(from, to) == job.stage = from /\ job' = [job EXCEPT !.stage = to]

AllSettled == \A k \in DOMAIN job.outcome : job.outcome[k] # None

\* Only files know a response with a bad status; a request that is canceled before its turn may
\* be in no file.
Outcomes ==
    {"succeeded", "errored"}
        \cup (IF job.flavor \in FileBased THEN {"rejected"} ELSE {})
        \cup (IF job.stage # "canceling" THEN {}
              ELSE IF job.flavor \in FileBased THEN {"canceled", "dropped"} ELSE {"canceled"})

Settle(k, outcome) ==
    /\ job.stage \in {"in_progress", "canceling"} /\ job.outcome[k] = None
    /\ outcome \in Outcomes
    /\ job' = [job EXCEPT !.outcome[k] = outcome]

Expires ==
    /\ job.stage = "in_progress" /\ ~AllSettled
    /\ job' = [job EXCEPT !.stage = "expired",
                          !.outcome = [k \in DOMAIN @ |-> IF @[k] = None THEN "expired" ELSE @[k]]]

UpstreamWorks ==
    /\ job # None
    /\ \/ Move("validating", "in_progress")
       \/ job.flavor # "anthropic" /\ Move("validating", "failed")
       \/ \E k \in DOMAIN job.outcome, outcome \in Outcomes : Settle(k, outcome)
       \/ AllSettled /\ Move("in_progress", "finalizing")
       \/ Move("finalizing", "completed")
       \/ AllSettled /\ Move("canceling", "canceled")
       \/ Expires
    /\ UNCHANGED <<seen, fetch>>

Next ==
    \/ \E flavor \in Flavors, between \in Between, asked \in Batches :
           BatchCreate(flavor, between, asked)
    \/ BatchRetrieve \/ BatchCancel \/ BatchResults
    \/ NextLine \/ UpstreamBreaks \/ LinkBreaks \/ FetchEnds
    \/ UpstreamWorks

Spec == Init /\ [][Next]_vars

-----------------------------------------------------------------------------
(* Properties.                                                             *)

\* What is expected to be read of a request that is settled.
Expected(k) ==
    LET outcome == job.outcome[k]
    IN CASE outcome = "succeeded" ->
              <<Succeeded(k, IF job.flavor \in SingleModel THEN job.asked[1] ELSE job.asked[k])>>
         [] outcome \in {None, "dropped"} -> <<>>
         [] outcome = "rejected" -> <<Errored(k, 400)>>
         [] outcome \in {"canceled", "expired"} /\ job.flavor = "anthropic" ->
              <<Result(k, outcome, None)>>
         [] OTHER -> <<Errored(k, 0)>>

\* The places of what the consumer heard of a request.
Answers(k) == {i \in DOMAIN fetch.heard : fetch.heard[i].id = k}

\* batch_results: a fetch that ends without an error has given each request's outcome once, under
\* its own id, failures included, of a batch that had ended; a request that the upstream drops, or
\* of a batch that failed as a whole, has none. Set aside: a failure that a node in between
\* swallows, and Gemini's empty list before the end.
ResultsWhole ==
    fetch.state = "over" /\ ~fetch.swallowed /\ ~fetch.early =>
        /\ Ended
        /\ \A k \in DOMAIN job.asked :
              /\ Answers(k) = {} <=> Expected(k) = <<>>
              /\ \A i, j \in Answers(k) : i = j /\ Expected(k) = <<fetch.heard[i]>>

\* compat/batch.rs and llmleaf.rs: a consumer behind a second node is shown what that node reads.
HopTransparent ==
    /\ seen # None => seen.handle = seen.read
    /\ fetch.heard = fetch.read

\* map_batch_status and its likes: a batch is shown as ended when it has ended, whatever the
\* upstream calls it, and never before, so that a consumer that polls stops, and finds results.
\* Set aside: Gemini's answer to a cancel.
StatusTrue ==
    seen # None /\ ~(job.flavor = "gemini" /\ seen.handle.status = "canceling") =>
        (seen.handle.status \in EndStages) = seen.ended
=============================================================================
