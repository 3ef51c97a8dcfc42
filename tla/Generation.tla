----------------------------- MODULE Generation -----------------------------
(***************************************************************************)
(* GroundedGenerationService.answer (generation/service.py): the router,    *)
(* the retrieval, the assembly of the context (generation/context.py) and   *)
(* the repair loop of GroundedGenerationEngine.generate.  Retrieval is in a *)
(* module of its own; here it returns any of Retrieved or fails.  The       *)
(* provider is the hosted one, with its own attempts (OpenAIGeneration-     *)
(* Provider.generate).                                                     *)
(*                                                                         *)
(* A result is a chunk with its text, the number of tokens of the text, and *)
(* the tokens that its block in the prompt has around it.  Results come in  *)
(* the order of their ranks.                                               *)
(***************************************************************************)
EXTENDS Naturals, Sequences, SequencesExt, FiniteSetsExt

CONSTANTS
  Chunks,              \* ids of chunks
  ChunkTexts,          \* what chunks say
  Retrieved,           \* what retrieval may return: sequences of results
  Similar,             \* pairs of texts with a Jaccard index over the threshold
  MaxContextTokens,    \* config.max_context_tokens
  MinTruncated,        \* config.min_truncated_chunk_tokens
  MaxRepairAttempts,   \* config.max_repair_attempts
  RequireCitations,    \* config.require_citations
  MaxAttempts,         \* max_attempts of the provider
  Invented,            \* an id that is no chunk's
  Unparsable,          \* output that is not a payload
  None

ASSUME BudgetAssumption ==
  /\ {MaxContextTokens, MinTruncated} \subseteq Nat \ {0}
  /\ MaxRepairAttempts \in Nat /\ MaxAttempts \in Nat \ {0}
  /\ RequireCitations \in BOOLEAN

Result == [chunk : Chunks, text : ChunkTexts, tokens : Nat, overhead : Nat]

(* The reranked context of a retrieval has no chunk twice.                  *)
Ranking(rs) ==
  /\ rs \in Seq(Result)
  /\ \A i, j \in DOMAIN rs : rs[i].chunk = rs[j].chunk => i = j

ASSUME RetrievalAssumption == \A rs \in Retrieved : Ranking(rs)

VARIABLES
  pc,        \* "route", "retrieve", "generate" (an HTTP request), "backoff"
             \* (the sleep before the next one), "done"
  results,   \* final_context of the retrieval
  calls,     \* calls of the provider
  attempt,   \* of the call that goes on, from zero
  requests,  \* HTTP requests sent
  reply,     \* last reply of the provider, None before the first
  outcome    \* "none", "answered", "abstained", "failed", "cancelled"

vars == <<pc, results, calls, attempt, requests, reply, outcome>>

-----------------------------------------------------------------------------
(* ContextAssembler.assemble                                                *)

NearDuplicate(a, b) ==
  a.text = b.text \/ <<a.text, b.text>> \in Similar \/ <<b.text, a.text>> \in Similar

(* A result is dropped when it is like one that was kept before it.         *)
Keep(kept, r) ==
  IF \E k \in ToSet(kept) : NearDuplicate(r, k) THEN kept ELSE Append(kept, r)

Unique(rs) ==
  LET kept[n \in 0..Len(rs)] == IF n = 0 THEN <<>> ELSE Keep(kept[n - 1], rs[n])
  IN kept[Len(rs)]

(* Tokens of the rendered blocks; the separator is a token.                 *)
RenderedTokens(blocks) ==
  LET sum[n \in 0..Len(blocks)] ==
        IF n = 0 THEN 0
        ELSE sum[n - 1] + blocks[n].tokens + blocks[n].overhead + (IF n = 1 THEN 0 ELSE 1)
  IN sum[Len(blocks)]

Fits(blocks) == RenderedTokens(blocks) <= MaxContextTokens

Cut(r, n) == [r EXCEPT !.tokens = n]

(* Faulty variant: the search stops before the last candidate.              *)
Narrow_Open(search, accepted, r) ==
  LET middle == (search.low + search.high) \div 2 IN
  IF search.low >= search.high THEN search
  ELSE IF Fits(Append(accepted, Cut(r, middle)))
       THEN [search EXCEPT !.low = middle + 1, !.best = middle]
       ELSE [search EXCEPT !.high = middle - 1]

(* One round of the search for the number of tokens to keep.                *)
Narrow(search, accepted, r) ==
  LET middle == (search.low + search.high) \div 2 IN
  IF search.low > search.high THEN search
  ELSE IF Fits(Append(accepted, Cut(r, middle)))
       THEN [search EXCEPT !.low = middle + 1, !.best = middle]
       ELSE [search EXCEPT !.high = middle - 1]

(* _truncate_to_budget: 0 if no number that is large enough fits.  Every    *)
(* round rules a number out, so that r.tokens rounds are enough.            *)
Truncation(accepted, r) ==
  LET search[n \in 0..r.tokens] ==
        IF n = 0 THEN [low |-> MinTruncated, high |-> r.tokens, best |-> 0]
        ELSE Narrow(search[n - 1], accepted, r)
  IN IF r.tokens < MinTruncated THEN 0 ELSE search[r.tokens].best

(* Results are accepted until one does not fit; that one is truncated or    *)
(* omitted, and the others are omitted.                                     *)
Assemble(rs) ==
  LET unique == Unique(rs)
      whole == SubSeq(unique, 1, Max({n \in 0..Len(unique) : Fits(SubSeq(unique, 1, n))}))
      next == unique[Len(whole) + 1]
      kept == IF Len(whole) = Len(unique) THEN 0 ELSE Truncation(whole, next)
  IN IF kept = 0 THEN whole ELSE Append(whole, Cut(next, kept))

Ids(blocks) == {b.chunk : b \in ToSet(blocks)}

-----------------------------------------------------------------------------

Init ==
  /\ pc = "route" /\ results = <<>> /\ calls = 0 /\ reply = None
  /\ attempt = 0 /\ requests = 0
  /\ outcome = "none"

End(result) == pc' = "done" /\ outcome' = result

(* ConservativeSelfRAGRouter answers small talk without retrieval.          *)
Route ==
  /\ pc = "route"
  /\ \/ pc' = "retrieve" /\ UNCHANGED outcome
     \/ End("abstained")
  /\ UNCHANGED <<results, calls, attempt, requests, reply>>

(* Without any chunk in the context the answer is a refusal, and the        *)
(* provider is not asked.                                                  *)
Retrieve ==
  /\ pc = "retrieve"
  /\ results' \in Retrieved
  /\ IF Assemble(results') = <<>> THEN End("abstained")
     ELSE pc' = "generate" /\ UNCHANGED outcome
  /\ UNCHANGED <<calls, attempt, requests, reply>>

RetrieveFails ==
  /\ pc = "retrieve"
  /\ End("failed")
  /\ UNCHANGED <<results, calls, attempt, requests, reply>>

(* What the provider may reply: output that does not parse, or a payload.   *)
(* refuses: the text says that the context is insufficient.                 *)
Replies ==
  [cites : SUBSET (Ids(results) \cup {Invented}),
   insufficient : BOOLEAN, refuses : BOOLEAN] \cup {Unparsable}

(* Faulty variant: any retrieved chunk may be cited.                        *)
Valid_AnyRetrieved(r) ==
  /\ r # Unparsable
  /\ r.cites \subseteq Ids(results)
  /\ IF r.insufficient THEN r.cites = {} /\ r.refuses
     ELSE (RequireCitations => r.cites # {}) /\ ~r.refuses

(* _parse_payload and _payload_errors                                       *)
Valid(r) ==
  /\ r # Unparsable
  /\ r.cites \subseteq Ids(Assemble(results))
  /\ IF r.insufficient THEN r.cites = {} /\ r.refuses
     ELSE (RequireCitations => r.cites # {}) /\ ~r.refuses

(* A reply is the answer, or is sent back for repair, or was the last one.  *)
Generate ==
  /\ pc = "generate"
  /\ calls' = calls + 1 /\ attempt' = 0 /\ requests' = requests + 1
  /\ \E r \in Replies :
       /\ reply' = r
       /\ IF Valid(r) THEN End("answered")
          ELSE IF calls >= MaxRepairAttempts THEN End("failed")
          ELSE UNCHANGED <<pc, outcome>>
  /\ UNCHANGED results

(* Faulty variant: one attempt too many.                                    *)
Retry_OneMore ==
  /\ pc = "generate" /\ attempt < MaxAttempts
  /\ pc' = "backoff"
  /\ requests' = requests + 1
  /\ UNCHANGED <<results, calls, attempt, reply, outcome>>

(* A timeout, a lost connection or a status of overload is tried again      *)
(* after a pause while the call has attempts left.                          *)
Retry ==
  /\ pc = "generate" /\ attempt + 1 < MaxAttempts
  /\ pc' = "backoff"
  /\ requests' = requests + 1
  /\ UNCHANGED <<results, calls, attempt, reply, outcome>>

BackoffEnds ==
  /\ pc = "backoff"
  /\ pc' = "generate" /\ attempt' = attempt + 1
  /\ UNCHANGED <<results, calls, requests, reply, outcome>>

(* The last attempt fails, another status comes back, or a body without     *)
(* content; none of these is sent back for repair.                          *)
GenerateFails ==
  /\ pc = "generate"
  /\ calls' = calls + 1 /\ requests' = requests + 1
  /\ End("failed")
  /\ UNCHANGED <<results, attempt, reply>>

Cancel ==
  /\ pc \in {"retrieve", "generate", "backoff"}
  /\ End("cancelled")
  /\ UNCHANGED <<results, calls, attempt, requests, reply>>

Next ==
  \/ Route \/ Retrieve \/ RetrieveFails
  \/ Generate \/ Retry \/ BackoffEnds \/ GenerateFails
  \/ Cancel

Spec == Init /\ [][Next]_vars

-----------------------------------------------------------------------------

(* The context a model is shown, for every list of results: it fits the     *)
(* budget, has no two near-duplicates and keeps the order of the ranks, and *)
(* only its last chunk is cut, by no more than the budget demands.  A       *)
(* result that is not shown is like a better one that is shown, although    *)
(* likeness is not transitive, or comes after all that are; and the first   *)
(* of these is there only because not even its beginning fits or because    *)
(* the chunk before it was cut.                                             *)
ContextIsExact ==
  LET shown == Assemble(results)
      At(b) == CHOOSE n \in DOMAIN results : results[n].chunk = b.chunk
      Whole(b) == b = results[At(b)]
      cut == {b \in ToSet(shown) : ~Whole(b)}
      omitted == {n \in DOMAIN results :
                    /\ results[n].chunk \notin Ids(shown)
                    /\ ~\E b \in ToSet(shown) :
                         At(b) < n /\ NearDuplicate(results[n], b)}
  IN
  /\ Fits(shown)
  /\ \A i, j \in DOMAIN shown : i < j =>
       /\ At(shown[i]) < At(shown[j])
       /\ ~NearDuplicate(shown[i], shown[j])
       /\ Whole(shown[i])
  /\ \A b \in cut :
       /\ b.tokens >= MinTruncated
       /\ ~Fits(Append(Front(shown), Cut(b, b.tokens + 1)))
  /\ \A n \in omitted, b \in ToSet(shown) : At(b) < n
  /\ omitted # {} =>
       LET first == results[Min(omitted)] IN
       \/ cut # {}
       \/ first.tokens < MinTruncated
       \/ ~Fits(Append(shown, Cut(first, MinTruncated)))

(* An answer is the last reply of at most MaxRepairAttempts + 1, cites only *)
(* chunks that the model was shown, and either cites or refuses.  Without a *)
(* context the provider is never asked, and repairs and attempts together   *)
(* never send more requests than their product.                             *)
AnswerIsGrounded ==
  /\ calls <= MaxRepairAttempts + 1
  /\ requests <= (MaxRepairAttempts + 1) * MaxAttempts
  /\ requests > 0 => Assemble(results) # <<>>
  /\ outcome = "answered" =>
       /\ reply.cites \subseteq Ids(Assemble(results))
       /\ reply.insufficient <=> reply.refuses
       /\ RequireCitations => (reply.refuses <=> reply.cites = {})

=============================================================================
