----------------------------- MODULE DenseIndex -----------------------------
(***************************************************************************)
(* QdrantDenseIndex (retrieval/dense/qdrant.py): the points of one document *)
(* in a shared Qdrant collection, and clients whose operations are          *)
(* sequences of remote calls.  Nothing orders the calls of two clients, and *)
(* a call may fail before or after the server applied it: a timeout, a lost *)
(* connection, or the death of the client.                                  *)
(*                                                                         *)
(* Every operation starts with ensure_collection.  The pc of an operation   *)
(* is the remote call it awaits: "exists", "create", "info" and "index" of  *)
(* ensure_collection, "embed" (the provider), "scroll", "delete", "upsert", *)
(* "query"; or how it ended, "done" or "failed".  A chunk is its place in   *)
(* the order of point ids, which is the order in which Qdrant scrolls.      *)
(***************************************************************************)
EXTENDS Naturals, FiniteSets, Sequences, SequencesExt, FiniteSetsExt

CONSTANTS
  Clients,
  Versions,     \* versions of the document that may be written
  Content,      \* the chunks of a version, in the order they are supplied
  Fields,       \* payload fields ensure_collection indexes
  EmbedBatch,   \* config.embed_batch_size
  UpsertBatch,  \* config.upsert_batch_size
  PageSize,     \* limit of a scroll
  MaxChunk,     \* bound: chunk ids
  MaxOps,       \* bound: operations
  None

Chunks == 1..MaxChunk

ASSUME ContentAssumption ==
  /\ MaxChunk \in Nat /\ MaxOps \in Nat /\ None \notin Versions
  /\ Content \in [Versions -> Seq(Chunks)]
  /\ \A v \in Versions : IsInjective(Content[v])
ASSUME BatchAssumption ==
  {EmbedBatch, UpsertBatch, PageSize} \subseteq Nat \ {0}

Kinds == {"upsert", "delete", "replace", "check", "search"}
Calls == {"exists", "create", "info", "index", "embed", "scroll", "delete",
          "upsert", "query"}

(* stage is the method that awaits: "write" is upsert_document, also inside *)
(* replace_document.  left: fields without index; got: chunk ids read by    *)
(* _document_chunk_ids; at: how far the loop at pc has come.                *)
Operation == [kind : Kinds, version : Versions,
              stage : {"write", "delete", "check", "search"},
              pc : Calls \cup {"done", "failed"},
              left : SUBSET Fields, got : SUBSET Chunks, at : Nat]

VARIABLES
  coll,       \* "absent", "good", or "stale": of another size or distance
  indexes,    \* its payload indexes
  points,     \* version of the document in the payload of a chunk's point
  op,         \* last operation of a client, None before the first
  disturbed,  \* another client changed points since the operation began
  started     \* operations begun

vars == <<coll, indexes, points, op, disturbed, started>>

Stored == {ch \in Chunks : points[ch] # None}
Active(c) == op[c] # None /\ op[c].pc \in Calls
At(c, pc) == op[c] # None /\ op[c].pc = pc

-----------------------------------------------------------------------------
(* The collection may be there from an earlier life, with all its indexes   *)
(* or, if its creator died, without some.                                  *)

Init ==
  /\ coll \in {"absent", "good", "stale"}
  /\ indexes \in IF coll = "absent" THEN {{}} ELSE SUBSET Fields
  /\ points = [ch \in Chunks |-> None]
  /\ op = [c \in Clients |-> None]
  /\ disturbed = [c \in Clients |-> FALSE]
  /\ started = 0

Goto(o, pc) == [o EXCEPT !.pc = pc, !.at = 0]
Failed(o) == Goto(o, "failed")

(* A call is answered, or it was applied and its answer is lost.            *)
Answer(c, next) ==
  \/ op' = [op EXCEPT ![c] = next]
  \/ op' = [op EXCEPT ![c] = Failed(op[c])]

Mutate(c, new) ==
  /\ points' = new
  /\ disturbed' = [d \in Clients |-> disturbed[d] \/ (d # c /\ new # points)]

FirstStage(kind) ==
  CASE kind = "upsert" -> "write"
    [] kind = "replace" -> "delete"
    [] OTHER -> kind

Begin(c, kind, v) ==
  /\ ~Active(c) /\ started < MaxOps
  /\ started' = started + 1
  /\ op' = [op EXCEPT ![c] =
       [kind |-> kind, version |-> v, stage |-> FirstStage(kind),
        pc |-> "exists", left |-> {}, got |-> {}, at |-> 0]]
  /\ disturbed' = [disturbed EXCEPT ![c] = FALSE]
  /\ UNCHANGED <<coll, indexes, points>>

(* The call never reaches the server, or the provider fails.                *)
Lost(c) ==
  /\ Active(c)
  /\ op' = [op EXCEPT ![c] = Failed(op[c])]
  /\ UNCHANGED <<coll, indexes, points, disturbed, started>>

-----------------------------------------------------------------------------
(* ensure_collection                                                        *)

(* Where the operation goes on when the collection is ensured.              *)
Ensured(o) ==
  CASE o.stage = "write" ->
         Goto(o, IF Content[o.version] = <<>> THEN "done" ELSE "embed")
    [] o.stage = "search" -> Goto(o, "embed")
    [] OTHER -> Goto(o, "scroll")

Indexing(o) == IF o.left = {} THEN Ensured(o) ELSE Goto(o, "index")

Exists(c) ==
  /\ At(c, "exists")
  /\ Answer(c, Goto(op[c], IF coll = "absent" THEN "create" ELSE "info"))
  /\ UNCHANGED <<coll, indexes, points, disturbed, started>>

Create(c) ==
  /\ At(c, "create") /\ coll = "absent"
  /\ coll' = "good"
  /\ Answer(c, Goto(op[c], "info"))
  /\ UNCHANGED <<indexes, points, disturbed, started>>

(* Another client created it first.                                         *)
CreateConflict(c) ==
  /\ At(c, "create") /\ coll # "absent"
  /\ op' = [op EXCEPT ![c] = Failed(op[c])]
  /\ UNCHANGED <<coll, indexes, points, disturbed, started>>

(* Faulty variant: an existing collection is used as it is.                 *)
Info_TrustsExisting(c) ==
  /\ At(c, "info") /\ coll = "good"
  /\ Answer(c, Ensured(op[c]))
  /\ UNCHANGED <<coll, indexes, points, disturbed, started>>

Info(c) ==
  /\ At(c, "info") /\ coll = "good"
  /\ Answer(c, Indexing([op[c] EXCEPT !.left = Fields \ indexes]))
  /\ UNCHANGED <<coll, indexes, points, disturbed, started>>

(* Faulty variant: wait until somebody has rebuilt the collection.          *)
InfoStale_Waits(c) ==
  /\ At(c, "info") /\ coll = "stale"
  /\ op' = [op EXCEPT ![c] = Goto(@, "exists")]
  /\ UNCHANGED <<coll, indexes, points, disturbed, started>>

(* _validate_collection_schema raises.                                      *)
InfoStale(c) ==
  /\ At(c, "info") /\ coll = "stale"
  /\ op' = [op EXCEPT ![c] = Failed(op[c])]
  /\ UNCHANGED <<coll, indexes, points, disturbed, started>>

CreateIndex(c) ==
  /\ At(c, "index")
  /\ \E f \in op[c].left :
       /\ indexes' = indexes \cup {f}
       /\ Answer(c, Indexing([op[c] EXCEPT !.left = @ \ {f}]))
  /\ UNCHANGED <<coll, points, disturbed, started>>

-----------------------------------------------------------------------------
(* upsert_document and search: every batch is embedded before the first     *)
(* point is written.                                                       *)

Texts(o) == IF o.stage = "search" THEN 1 ELSE Len(Content[o.version])

Embedded(o) == Goto(o, IF o.stage = "search" THEN "query" ELSE "upsert")

Embed(c) ==
  /\ At(c, "embed")
  /\ LET o == op[c]
         at == o.at + EmbedBatch
     IN Answer(c, IF at < Texts(o) THEN [o EXCEPT !.at = at]
                  ELSE Embedded(o))
  /\ UNCHANGED <<coll, indexes, points, disturbed, started>>

Batch(o) == ToSet(SubSeq(Content[o.version], o.at + 1,
                         Min({o.at + UpsertBatch, Len(Content[o.version])})))

Upsert(c) ==
  /\ At(c, "upsert")
  /\ LET o == op[c]
         at == o.at + UpsertBatch
     IN /\ Mutate(c, [ch \in Chunks |-> IF ch \in Batch(o) THEN o.version
                                        ELSE points[ch]])
        /\ Answer(c, IF at < Texts(o) THEN [o EXCEPT !.at = at]
                     ELSE Goto(o, "done"))
  /\ UNCHANGED <<coll, indexes, started>>

Query(c) ==
  /\ At(c, "query")
  /\ Answer(c, Goto(op[c], "done"))
  /\ UNCHANGED <<coll, indexes, points, disturbed, started>>

-----------------------------------------------------------------------------
(* delete_document, replace_document, check_document_consistency            *)

(* A page is the next stored chunks, from the offset on.                    *)
Page(at) == {ch \in Stored : /\ ch > at
                             /\ Cardinality({d \in Stored : at < d /\ d < ch})
                                  < PageSize}
Beyond(at) == {ch \in Stored : ch > at}

Scrolled(o) == Goto(o, IF o.stage = "delete" THEN "delete" ELSE "done")

(* Faulty variant: one page is taken for the whole document.                *)
Scroll_OnePage(c) ==
  /\ At(c, "scroll")
  /\ Answer(c, Scrolled([op[c] EXCEPT !.got = Page(op[c].at)]))
  /\ UNCHANGED <<coll, indexes, points, disturbed, started>>

Scroll(c) ==
  /\ At(c, "scroll")
  /\ LET o == op[c]
         page == Page(o.at)
         next == [o EXCEPT !.got = @ \cup page]
     IN Answer(c, IF page = Beyond(o.at) THEN Scrolled(next)
                  ELSE [next EXCEPT !.at = Max(page)])
  /\ UNCHANGED <<coll, indexes, points, disturbed, started>>

(* Faulty variant: a delete that failed is taken for done.                  *)
Delete_IgnoresError(c) ==
  /\ At(c, "delete")
  /\ \/ Mutate(c, [ch \in Chunks |-> None])
     \/ UNCHANGED <<points, disturbed>>
  /\ op' = [op EXCEPT ![c] =
       IF op[c].kind = "delete" THEN Goto(op[c], "done")
       ELSE [Goto(op[c], "exists") EXCEPT !.stage = "write"]]
  /\ UNCHANGED <<coll, indexes, started>>

(* A replacement goes on with upsert_document, which ensures the collection *)
(* again.                                                                  *)
Delete(c) ==
  /\ At(c, "delete")
  /\ Mutate(c, [ch \in Chunks |-> None])
  /\ Answer(c, IF op[c].kind = "delete" THEN Goto(op[c], "done")
               ELSE [Goto(op[c], "exists") EXCEPT !.stage = "write"])
  /\ UNCHANGED <<coll, indexes, started>>

-----------------------------------------------------------------------------

Step(c) ==
  \/ Lost(c)
  \/ Exists(c) \/ Create(c) \/ CreateConflict(c)
  \/ Info(c) \/ InfoStale(c) \/ CreateIndex(c)
  \/ Embed(c) \/ Upsert(c) \/ Query(c)
  \/ Scroll(c) \/ Delete(c)

Next == \E c \in Clients :
  \/ Step(c)
  \/ \E kind \in Kinds, v \in Versions : Begin(c, kind, v)

Spec == Init /\ [][Next]_vars

(* Every remote call is answered or times out (timeout_seconds).            *)
FairSpec == Spec /\ \A c \in Clients : WF_vars(Step(c))

-----------------------------------------------------------------------------

TypeOK ==
  /\ coll \in {"absent", "good", "stale"}
  /\ indexes \in SUBSET Fields
  /\ points \in [Chunks -> Versions \cup {None}]
  /\ op \in [Clients -> Operation \cup {None}]
  /\ \A c \in Clients :
       At(c, "embed") \/ At(c, "upsert") => op[c].at < Texts(op[c])
  /\ disturbed \in [Clients -> BOOLEAN]
  /\ started \in 0..MaxOps

(* ensure_collection: whoever found or lost the collection in whatever      *)
(* state, and however many clients ensure it at once, no operation uses it  *)
(* before it has the right schema and all its payload indexes.              *)
ReadyBeforeUse ==
  \A c \in Clients :
    Active(c) /\ op[c].pc \in {"embed", "scroll", "delete", "upsert", "query"}
      => coll = "good" /\ indexes = Fields

Rows(v) == [ch \in Chunks |-> IF ch \in ToSet(Content[v]) THEN v ELSE None]

(* replace_document, "delete stale points and then write the supplied       *)
(* document chunk set": whatever earlier operations left behind, when it    *)
(* returns the document is exactly what was supplied, unless another client *)
(* wrote to it in the meantime.                                            *)
ReplaceIsExact ==
  \A c \in Clients :
    At(c, "done") /\ op[c].kind = "replace" /\ ~disturbed[c]
      => points = Rows(op[c].version)

(* upsert_document is idempotent and complete: on return all its chunks are *)
(* there with the new payload, over any older version of the same chunks.   *)
UpsertIsComplete ==
  \A c \in Clients :
    At(c, "done") /\ op[c].stage = "write" /\ ~disturbed[c]
      => \A ch \in ToSet(Content[op[c].version]) : points[ch] = op[c].version

(* A replacement that is under way or has failed never leaves chunks of two *)
(* versions: once the old points are gone a reader finds a part of the new  *)
(* version, in the order it was supplied, and nothing else.                 *)
ReplaceNeverMixes ==
  \A c \in Clients :
    /\ op[c] # None /\ ~disturbed[c]
    /\ op[c].kind = "replace" /\ op[c].stage = "write"
    => LET v == op[c].version
       IN /\ \A ch \in Chunks : points[ch] \in {v, None}
          /\ \E n \in 0..Len(Content[v]) :
               Stored = ToSet(SubSeq(Content[v], 1, n))

(* What an undisturbed writer leaves behind, at its end and on the way.     *)
WritesAreExact == ReplaceIsExact /\ UpsertIsComplete /\ ReplaceNeverMixes

(* The count delete_document reports, and the chunk ids a consistency check *)
(* compares, are those of the document, over all the pages of the scroll.   *)
ScrollIsExact ==
  \A c \in Clients :
    /\ ~disturbed[c]
    /\ At(c, "delete") \/ (At(c, "done") /\ op[c].kind = "check")
    => op[c].got = Stored

(* Every operation ends, also when others write while it scrolls.           *)
OperationsEnd == \A c \in Clients : []<>~Active(c)

=============================================================================
