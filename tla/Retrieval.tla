----------------------------- MODULE Retrieval -----------------------------
(***************************************************************************)
(* One call of RetrievalService.search (retrieval/service/orchestrator.py): *)
(* a hybrid search (retrieval/hybrid/retriever.py), whose dense and sparse  *)
(* branches are two concurrent tasks, second hops for the references the    *)
(* first one found, the merge of all hops, and reranking.  The caller may   *)
(* cancel the call at any await: a query timeout or a client that left.     *)
(*                                                                         *)
(* pc is the await the call is at: "expand" (the expansion provider),       *)
(* "branches" (gather of the two tasks), "reaping" (gather of the cancelled *)
(* tasks in an except block), "rerank" (an HTTP request of the reranker),   *)
(* "backoff" (the sleep before the next one), or "done".  The local planner *)
(* has no await of its own.                                                *)
(***************************************************************************)
EXTENDS Fusion

CONSTANTS
  Payloads,        \* what a chunk may hold
  DenseAnswers,    \* what the dense index may return: sequences of hits
  SparseAnswers,   \* what the sparse index may return
  RerankAnswers,   \* what the reranker may return: sequences of index, score
  Refs,            \* references in the text of a chunk, in order
  HybridTopK,      \* config.hybrid_top_k
  FinalTopN,       \* top_k of the call, or config.final_top_n
  MaxMerged,       \* config.max_merged_candidates
  MaxSecondHops,   \* config.max_second_hop_queries
  MaxAttempts      \* max_attempts of the hosted reranker

ASSUME BudgetAssumption ==
  /\ {HybridTopK, FinalTopN, MaxMerged, MaxSecondHops, MaxAttempts} \subseteq Nat \ {0}
  /\ FinalTopN <= MaxMerged

(* A hit is a RetrievalResult, a score a finite number; an index below the  *)
(* first candidate is refused before the response is used.                  *)
ASSUME AnswersAssumption ==
  /\ \A hits \in DenseAnswers \cup SparseAnswers :
       hits \in Seq([chunk : Nat, payload : Payloads])
  /\ \A scores \in RerankAnswers : scores \in Seq([index : Nat \ {0}, score : Int])
  /\ \A hits \in DenseAnswers \cup SparseAnswers :
       \A h \in ToSet(hits) : Refs[h.chunk] \in Seq(STRING)

VARIABLES
  mode,     \* config.multi_hop_mode; fixed
  pc,
  branch,   \* the two tasks: "none", "running", "cancelling", and how they
            \* ended: "ok", "failed", "cancelled"
  answer,   \* what a branch returned
  hops,     \* per hop: what the branches returned, and the fused response
  derived,  \* second-hop queries
  attempt,  \* of the hosted reranker's HTTP request, from zero
  outcome,  \* "none", "ok", "failed", "cancelled"
  context   \* final_context: hits with the score of the reranker

vars == <<mode, pc, branch, answer, hops, derived, attempt, outcome, context>>

Branches == {"dense", "sparse"}
Live == {"running", "cancelling"}
Answers(b) == IF b = "dense" THEN DenseAnswers ELSE SparseAnswers

Init ==
  /\ mode \in {"off", "always", "rule"}
  /\ pc = "expand"
  /\ branch = [b \in Branches |-> "none"]
  /\ answer = [b \in Branches |-> <<>>]
  /\ hops = <<>> /\ derived = <<>> /\ attempt = 0 /\ outcome = "none" /\ context = <<>>

End(result) ==
  /\ pc' = "done" /\ outcome' = result
  /\ branch' = [b \in Branches |-> IF branch[b] \in Live THEN branch[b] ELSE "none"]

-----------------------------------------------------------------------------
(* HybridRetriever._search                                                  *)

(* With expansion switched off there is no await and no way to fail.        *)
Expand ==
  /\ pc = "expand"
  /\ pc' = "branches"
  /\ branch' = [b \in Branches |-> "running"]
  /\ UNCHANGED <<mode, answer, hops, derived, attempt, outcome, context>>

ExpandFails ==
  /\ pc = "expand"
  /\ End("failed")
  /\ UNCHANGED <<mode, answer, hops, derived, attempt, context>>

BranchReturns(b) ==
  /\ branch[b] = "running"
  /\ \E hits \in Answers(b) : answer' = [answer EXCEPT ![b] = hits]
  /\ branch' = [branch EXCEPT ![b] = "ok"]
  /\ UNCHANGED <<mode, pc, hops, derived, attempt, outcome, context>>

BranchFails(b) ==
  /\ branch[b] = "running"
  /\ branch' = [branch EXCEPT ![b] = "failed"]
  /\ UNCHANGED <<mode, pc, answer, hops, derived, attempt, outcome, context>>

(* A cancelled task may still raise something else on its way out.          *)
BranchStops(b) ==
  /\ branch[b] = "cancelling"
  /\ \E end \in {"cancelled", "failed"} : branch' = [branch EXCEPT ![b] = end]
  /\ UNCHANGED <<mode, pc, answer, hops, derived, attempt, outcome, context>>

CancelBranches ==
  branch' = [b \in Branches |-> IF branch[b] = "running" THEN "cancelling"
                                ELSE branch[b]]

(* Faulty variant: the error is raised without cancelling the sibling.      *)
GatherRaises_LeavesSibling ==
  /\ pc = "branches"
  /\ \E b \in Branches : branch[b] \in {"failed", "cancelled"}
  /\ End("failed")
  /\ UNCHANGED <<mode, answer, hops, derived, attempt, context>>

(* gather raises what a branch ended with first, or when both have ended    *)
(* what either ended with; both branches are cancelled and awaited.         *)
GatherRaises ==
  /\ pc = "branches"
  /\ \E b \in Branches :
       /\ branch[b] \in {"failed", "cancelled"}
       /\ outcome' = branch[b]
  /\ pc' = "reaping"
  /\ CancelBranches
  /\ UNCHANGED <<mode, answer, hops, derived, attempt, context>>

(* Faulty variant: a task that has failed is waited for.                    *)
Reap_WaitsForCancelled ==
  /\ pc = "reaping"
  /\ \A b \in Branches : branch[b] = "cancelled"
  /\ End(outcome)
  /\ UNCHANGED <<mode, answer, hops, derived, attempt, context>>

Reap ==
  /\ pc = "reaping"
  /\ \A b \in Branches : branch[b] \notin Live
  /\ End(outcome)
  /\ UNCHANGED <<mode, answer, hops, derived, attempt, context>>

-----------------------------------------------------------------------------
(* RetrievalService.search between two awaits                               *)

(* derive_queries: the references of the first hop in the order of its      *)
(* results, without duplicates.                                             *)
Derive(results) ==
  LET all == FlattenSeq([i \in DOMAIN results |-> Refs[results[i].chunk]])
  IN Truncated(Distinct(all, LAMBDA ref : ref), MaxSecondHops)

(* Whether the first hop leads to others: always, or by rule if the query   *)
(* has a cue; never without a derived query.                                *)
Plan(results) ==
  \/ derived' = Derive(results) /\ mode \in {"always", "rule"}
  \/ derived' = <<>> /\ mode \in {"off", "rule"}

AllHits(hs) == FlattenSeq([n \in DOMAIN hs |-> hs[n].fused])

(* Faulty variant: payloads are not compared across hops.                   *)
CrossHopCollision_Ignored(hs) == FALSE

CrossHopCollision(hs) ==
  \E g, h \in ToSet(AllHits(hs)) : g.chunk = h.chunk /\ g.payload # h.payload

(* _merge_candidates: the hits of all hops in the order in which their      *)
(* chunks first occur.                                                      *)
Merge(hs) == Truncated(Distinct(AllHits(hs), LAMBDA h : h.chunk), MaxMerged)

Collision == Collides(answer["dense"], answer["sparse"])

Fused == [d \in DenseAnswers |-> [s \in SparseAnswers |-> Fuse(d, s, HybridTopK)]]

ThisHop == [dense |-> answer["dense"], sparse |-> answer["sparse"],
            fused |-> Fused[answer["dense"]][answer["sparse"]]]

BothReturned == pc = "branches" /\ \A b \in Branches : branch[b] = "ok"

FuseFails ==
  /\ BothReturned /\ Collision
  /\ End("failed")
  /\ UNCHANGED <<mode, answer, hops, derived, attempt, context>>

(* The hop is fused and, after the first one, the others are planned; then  *)
(* comes the next hop, or the merge and the reranker.  The reranker is not  *)
(* asked when there is no candidate.                                        *)
NextHop ==
  /\ BothReturned /\ ~Collision
  /\ hops' = Append(hops, ThisHop)
  /\ IF hops = <<>> THEN Plan(ThisHop.fused) ELSE UNCHANGED derived
  /\ answer' = [b \in Branches |-> <<>>]
  /\ LET next == IF Len(hops') <= Len(derived') THEN "expand"
                 ELSE IF CrossHopCollision(hops') THEN "failed"
                 ELSE IF Merge(hops') = <<>> THEN "ok"
                 ELSE "rerank"
     IN IF next \in {"expand", "rerank"}
        THEN /\ pc' = next /\ UNCHANGED outcome
             /\ branch' = [b \in Branches |-> "none"]
        ELSE End(next)
  /\ UNCHANGED <<mode, attempt, context>>

-----------------------------------------------------------------------------
(* RerankingEngine.rerank; indexes count from one.                          *)

Acceptable(scores, candidates) ==
  /\ \A s \in ToSet(scores) : s.index <= Len(candidates)
  /\ \A i, j \in DOMAIN scores : scores[i].index = scores[j].index => i = j

(* Score descending, rank in its hop, chunk id.                             *)
Reranked(scores, candidates) ==
  LET scored == {[hit |-> candidates[s.index], score |-> s.score] :
                   s \in ToSet(scores)}
      before(a, b) ==
        \/ a.score > b.score
        \/ /\ a.score = b.score
           /\ \/ a.hit.rank < b.hit.rank
              \/ a.hit.rank = b.hit.rank /\ a.hit.chunk < b.hit.chunk
  IN Truncated(Ordered(scored, before), FinalTopN)

Rerank ==
  /\ pc = "rerank"
  /\ \E scores \in RerankAnswers :
       /\ Acceptable(scores, Merge(hops))
       /\ context' = Reranked(scores, Merge(hops))
  /\ End("ok")
  /\ UNCHANGED <<mode, answer, hops, derived, attempt>>

(* CohereReranker: a timeout, a lost connection or a status of overload is  *)
(* tried again after a pause while there are attempts left.                 *)
RetryRerank ==
  /\ pc = "rerank" /\ attempt + 1 < MaxAttempts
  /\ pc' = "backoff"
  /\ UNCHANGED <<mode, branch, answer, hops, derived, attempt, outcome, context>>

(* Faulty variant: the attempts are not counted.                            *)
BackoffEnds_SameAttempt ==
  /\ pc = "backoff"
  /\ pc' = "rerank"
  /\ UNCHANGED <<mode, branch, answer, hops, derived, attempt, outcome, context>>

BackoffEnds ==
  /\ pc = "backoff"
  /\ pc' = "rerank" /\ attempt' = attempt + 1
  /\ UNCHANGED <<mode, branch, answer, hops, derived, outcome, context>>

(* The last attempt fails, another status comes back, the body cannot be    *)
(* used, or it names a candidate that does not exist or twice.              *)
RerankFails ==
  /\ pc = "rerank"
  /\ End("failed")
  /\ UNCHANGED <<mode, answer, hops, derived, attempt, context>>

-----------------------------------------------------------------------------

(* Cancellation at an await without tasks, or with both tasks ended.        *)
CancelCall ==
  /\ pc \in {"expand", "branches", "reaping", "rerank", "backoff"}
  /\ \A b \in Branches : branch[b] \notin Live
  /\ End("cancelled")
  /\ UNCHANGED <<mode, answer, hops, derived, attempt, context>>

(* gather hands the cancellation to its tasks and raises when one has       *)
(* ended; in the except block it waits for both.                            *)
CancelGather ==
  /\ pc \in {"branches", "reaping"}
  /\ \E b \in Branches : branch[b] \in Live
  /\ CancelBranches
  /\ outcome' = IF pc = "reaping" THEN "cancelled" ELSE outcome
  /\ UNCHANGED <<mode, pc, answer, hops, derived, attempt, context>>

BranchStep == \E b \in Branches :
  BranchReturns(b) \/ BranchFails(b) \/ BranchStops(b)

CallStep ==
  \/ Expand \/ ExpandFails
  \/ GatherRaises \/ Reap
  \/ FuseFails \/ NextHop
  \/ Rerank \/ RerankFails \/ RetryRerank \/ BackoffEnds

Next == BranchStep \/ CallStep \/ CancelCall \/ CancelGather

Spec == Init /\ [][Next]_vars

(* Every provider and index call returns or raises.                         *)
FairSpec == Spec /\ WF_vars(BranchStep) /\ WF_vars(CallStep)

-----------------------------------------------------------------------------

(* phase-08-report.md: "External cancellation cancels both branches.  A     *)
(* branch exception cancels its sibling, waits for cleanup".  No branch     *)
(* task outlives its hop, however failures and cancellations meet.          *)
NoOrphanBranch ==
  pc \notin {"branches", "reaping"} => \A b \in Branches : branch[b] \notin Live

Better(hits, a, b) ==
  Rank(hits, a) > 0 /\ (Rank(hits, b) = 0 \/ Rank(hits, a) < Rank(hits, b))
NotWorse(hits, a, b) == Rank(hits, a) = Rank(hits, b) \/ Better(hits, a, b)

(* Fusion respects dominance: a chunk that each branch ranks at least as    *)
(* well as another, and one of them better, is never behind it, and never   *)
(* cut off in its favour, whatever the other chunks are.                    *)
FusionRespectsDominance ==
  \A n \in DOMAIN hops :
    LET h == hops[n] IN
    \A a \in ChunksOf(h.dense) \cup ChunksOf(h.sparse), b \in ChunksOf(h.fused) :
      /\ NotWorse(h.dense, a, b) /\ NotWorse(h.sparse, a, b)
      /\ Better(h.dense, a, b) \/ Better(h.sparse, a, b)
      => Rank(h.fused, a) > 0 /\ Rank(h.fused, a) < Rank(h.fused, b)

(* The answer is grounded in what the branches returned: no chunk occurs    *)
(* twice, none with a payload on which the branches of a hop or two hops    *)
(* disagree, and the chunks come in the order of their scores.  No more     *)
(* hops are made and no more chunks returned than the configuration allows. *)
ContextIsFaithful ==
  /\ Len(hops) <= 1 + MaxSecondHops
  /\ outcome = "ok" =>
    /\ Len(context) <= FinalTopN
    /\ \A i, j \in DOMAIN context :
         i < j => /\ context[i].hit.chunk # context[j].hit.chunk
                  /\ context[i].score >= context[j].score
    /\ \A c \in ToSet(context) :
         /\ \E n \in DOMAIN hops : c.hit.chunk \in ChunksOf(hops[n].fused)
         /\ \A n \in DOMAIN hops : c.hit.chunk \in ChunksOf(hops[n].fused) =>
              \A hits \in {hops[n].dense, hops[n].sparse} :
                c.hit.chunk \in ChunksOf(hits) =>
                  Payload(hits, c.hit.chunk) = c.hit.payload

(* A search ends, with or without a cancellation, however often the         *)
(* reranker is overloaded.                                                  *)
SearchEnds == <>(pc = "done")

=============================================================================
