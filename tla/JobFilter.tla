----------------------------- MODULE JobFilter ------------------------------
(***************************************************************************)
(* The language model's filter of the jobs of a fetch (internal/llm/       *)
(* job_filter.go, job_filter_batch.go): which jobs it is asked about, how  *)
(* they are put into batches, and what becomes of batches and answers that *)
(* fail.  Module Fetch starts it and uses its result.                      *)
(***************************************************************************)
EXTENDS CandidateCache, SequencesExt

CONSTANTS
    Details,   \* per listing: the name of its source, whether its identity is too
               \* weak to be judged, the searches it fits without a question left,
               \* the size of its part of a prompt
    MaxBatch,  \* maxJobFilterBatchSize
    MaxPrompt  \* maxJobFilterBatchPromptChars, less what every prompt begins with

ASSUME JobFilterAssumption ==
    /\ \A l \in Listings : /\ Details[l].weak \in BOOLEAN
                           /\ Details[l].complete \subseteq Searches
                           /\ Details[l].size \in Nat
    /\ MaxBatch \in Nat \ {0}
    /\ MaxPrompt \in Nat

VARIABLE filter  \* the filter that runs, if any

SourceOf(l) == Details[l].source

\* jobSourceClass
Generated(l) == SourceOf(l) \in {"llm", "llm_web"}

\* No name of a company, title or address, or a description too short to be judged.
Weak(l, text) == Details[l].weak \/ text[l] # "long"

\* The pay is known if the search asks for it, and the posting says that one works
\* where the search wants to.
Settled(l, s) == s \in Details[l].complete

\* shouldEvaluateJobWithLLM
NeedsReview(l, s, text) == ~Generated(l) /\ ~Weak(l, text) /\ ~Settled(l, s)

-----------------------------------------------------------------------------
(* Batches of a sequence of jobs.                                          *)

PromptSize(batch) == FoldLeft(LAMBDA sum, l : sum + Details[l].size, 0, batch)

\* Whether a batch takes one more job.
Joins(rule, batch, l) ==
    CASE rule = "source" -> SourceOf(Head(batch)) = SourceOf(l)
      [] rule = "number" -> Len(batch) < MaxBatch
      [] rule = "prompt" -> PromptSize(Append(batch, l)) <= MaxPrompt

\* A job joins a batch, its source's or the last, or a new one is begun with it.
Put(rule, batches, l) ==
    LET taking == {i \in DOMAIN batches : /\ rule = "source" \/ i = Len(batches)
                                         /\ Joins(rule, batches[i], l)}
    IN  IF taking = {} THEN Append(batches, <<l>>)
        ELSE [batches EXCEPT ![CHOOSE i \in taking : TRUE] = Append(@, l)]

Divided(rule, jobs) == FoldLeft(LAMBDA batches, l : Put(rule, batches, l), <<>>, jobs)
Refined(rule, batches) == FoldLeft(LAMBDA done, batch : done \o Divided(rule, batch), <<>>, batches)

\* jobFilterBatchesBySource, the jobs of each source, so many at a time, and
\* splitOversizedJobFilterBatches.
Batches(jobs) == Refined("prompt", Refined("number", Divided("source", jobs)))

\* The reference: every job is in one batch, the batches are of one source, no
\* larger than allowed, and a prompt that is too long is of one job.
BatchesAreSound(jobs) ==
    /\ Len(FlattenSeq(Batches(jobs))) = Len(jobs)
    /\ Range(FlattenSeq(Batches(jobs))) = Range(jobs)
    /\ \A batch \in Range(Batches(jobs)) :
          /\ Len(batch) \in 1..MaxBatch
          /\ Cardinality({SourceOf(l) : l \in Range(batch)}) = 1
          /\ Len(batch) > 1 => PromptSize(batch) <= MaxPrompt

-----------------------------------------------------------------------------
(* The run.                                                                *)

NoFilterRuns == [before |-> {}, works |-> TRUE, asked |-> {}, open |-> <<>>, kept |-> {}, against |-> {}]

FilterTypeOK ==
    /\ {filter.before, filter.asked, filter.kept, filter.against} \subseteq SUBSET Listings
    /\ filter.works \in BOOLEAN
    /\ \A batch \in Range(filter.open) : Range(batch) \subseteq filter.asked

\* FilterJobsWithLLM of S: nothing is asked if nothing needs a review, or if the
\* model cannot be reached.
FilterOf(S, order, works) ==
    [NoFilterRuns EXCEPT !.before = S, !.works = works \/ order = <<>>,
                         !.asked = IF works THEN Range(order) ELSE {},
                         !.open = IF works THEN Batches(order) ELSE <<>>]

\* applyJobFilterResult of a reply: listings with the answer whether they match.
Applied(reply) ==
    [filter EXCEPT !.open = Tail(@),
                   !.kept = @ \cup {l \in DOMAIN reply : reply[l]},
                   !.against = @ \cup {l \in DOMAIN reply : ~reply[l]}]

\* Jobs asked again one by one, first of all.
Again(f, batch) == [f EXCEPT !.open = [i \in DOMAIN batch |-> <<batch[i]>>] \o @]

\* Replies to a batch: some of its jobs, none if the call failed.
Replies(batch) == UNION {[R -> BOOLEAN] : R \in SUBSET Range(batch)}

\* The jobs of a batch before the first that the reply leaves out.
Reached(batch, reply) ==
    {batch[i] : i \in {i \in DOMAIN batch : \A k \in 1..i : batch[k] \in DOMAIN reply}}

\* evaluateJobFilterBatch: if a job has no answer, what the reply said of the jobs
\* before it holds, and all jobs are asked again, one by one.
AskBatch(reply) ==
    LET batch == Head(filter.open)
        told == [l \in Reached(batch, reply) |-> reply[l]]
    IN  filter' = IF DOMAIN told = Range(batch) THEN Applied(told) ELSE Again(Applied(told), batch)

\* evaluateSingleJobForFiltering: a job whose question fails is kept.
AskOne(answer) ==
    LET l == Head(filter.open)[1]
    IN  filter' = Applied([asked \in {l} |-> answer # "reject"])

FilterStep ==
    /\ filter.open # <<>>
    /\ IF Len(Head(filter.open)) = 1
       THEN \E answer \in {"match", "reject", "error"} : AskOne(answer)
       ELSE \E reply \in Replies(Head(filter.open)) : AskBatch(reply)

\* filterJobsWithLLMModel
Dropped == filter.asked \ filter.kept

=============================================================================
