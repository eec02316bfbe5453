------------------------------ MODULE IndexSync ------------------------------
(***************************************************************************)
(* The copies of the catalogue in Qdrant and Elasticsearch.  A change made  *)
(* in the admin queues sync_book_task for its book; cron runs a reconcile   *)
(* of Qdrant (qdrant_index_books_task, under a Redis lock with a TTL) and a *)
(* full re-index of Elasticsearch (elastic_index_books_task).  A query, a   *)
(* bulk request or an upsert is one action.                                 *)
(*                                                                         *)
(* A row is what the hashes tell apart: the text that is embedded, the rest *)
(* of the payload, and is_available.  A point keeps the text its vector was *)
(* made of beside the text whose hash it carries.                           *)
(***************************************************************************)
EXTENDS Naturals, FiniteSets

CONSTANTS
    BookIds,
    Texts, Metas,
    Edits,          \* bound: rows an admin makes of a row, Gone if deleted
    SyncWorkers,    \* taskiq workers that run sync_book_task
    Reindexers,     \* those that run the reconcile
    MaxTries,       \* max_retries = 3: runs of one sync task
    MaxJobs,        \* bound: tasks at work at the same time
    MaxChanges,     \* bound: changes made in the admin
    MaxSlips,       \* bound: exceptions, kills and early lock expiries
    Gone            \* no row, no point, no document

ASSUME IndexAssumption ==
    /\ IsFiniteSet(BookIds) /\ BookIds # {} /\ Texts # {} /\ Metas # {}
    /\ Edits \subseteq [text : Texts, meta : Metas, avail : BOOLEAN] \cup {Gone}
    /\ {MaxTries, MaxJobs} \subseteq Nat \ {0}
    /\ MaxChanges \in Nat /\ MaxSlips \in Nat

Row == [text : Texts, meta : Metas, avail : BOOLEAN]
Point == [vector : Texts, text : Texts, meta : Metas]
Rows == [BookIds -> Row \cup {Gone}]

VARIABLES
    row,        \* PostgreSQL
    point,      \* the Qdrant collection
    doc,        \* the Elasticsearch index
    due,        \* queued sync tasks, by book and number of the run
    sync,       \* what a worker does: [pc, book, row, try]
    reindexing, \* the lock key is set
    recon,      \* [pc, rows, embed, overwrite, remove]
    bulk,       \* the Elasticsearch job: [pc, rows]
    changes, slips

indexVars == <<row, point, doc, due, sync, reindexing, recon, bulk, changes, slips>>

NoRows == [b \in BookIds |-> Gone]
IdleSync == [pc |-> "idle", book |-> CHOOSE b \in BookIds : TRUE, row |-> Gone, try |-> 1]
IdleRecon == [pc |-> "idle", rows |-> NoRows, embed |-> {}, overwrite |-> {}, remove |-> {}]
IdleBulk == [pc |-> "idle", rows |-> NoRows]

IndexTypeOK ==
    /\ row \in Rows /\ doc \in Rows
    /\ point \in [BookIds -> Point \cup {Gone}]
    /\ due \in [BookIds -> [1..MaxTries -> Nat]]
    /\ sync \in [SyncWorkers -> [pc : {"idle", "read", "elastic", "qdrant"}, book : BookIds,
                                 row : Row \cup {Gone}, try : 1..MaxTries]]
    /\ reindexing \in BOOLEAN
    /\ recon \in [Reindexers -> [pc : {"idle", "rows", "hashes", "embed", "overwrite", "remove", "unlock"},
                                 rows : Rows, embed : SUBSET BookIds,
                                 overwrite : SUBSET BookIds, remove : SUBSET BookIds]]
    /\ bulk \in [pc : {"idle", "write", "prune"}, rows : Rows]
    /\ changes \in 0..MaxChanges /\ slips \in 0..MaxSlips

PointOf(r) == [vector |-> r.text, text |-> r.text, meta |-> r.meta]
ForSale(rows) == {b \in BookIds : rows[b] # Gone /\ rows[b].avail}

\* The indexes agree with the catalogue to begin with.
IndexInit ==
    /\ row \in [BookIds -> {Gone} \cup
                   [text : {CHOOSE t \in Texts : TRUE}, meta : {CHOOSE m \in Metas : TRUE}, avail : {TRUE}]]
    /\ doc = row
    /\ point = [b \in BookIds |-> IF b \in ForSale(row) THEN PointOf(row[b]) ELSE Gone]
    /\ due = [b \in BookIds |-> [n \in 1..MaxTries |-> 0]]
    /\ sync = [w \in SyncWorkers |-> IdleSync]
    /\ reindexing = FALSE
    /\ recon = [r \in Reindexers |-> IdleRecon]
    /\ bulk = IdleBulk
    /\ changes = 0 /\ slips = 0

QueueSync(b, n) == due' = [due EXCEPT ![b][n] = @ + 1]
Slip == slips < MaxSlips /\ slips' = slips + 1
JobMayStart ==
      Cardinality({w \in SyncWorkers : sync[w].pc # "idle"})
    + Cardinality({r \in Reindexers : recon[r].pc # "idle"})
    + (IF bulk.pc = "idle" THEN 0 ELSE 1) < MaxJobs

-----------------------------------------------------------------------------
\* BookAdmin.  The commit comes first; a broker that cannot be reached is
\* logged and the event is lost.
ChangeBook(b) ==
    /\ changes < MaxChanges
    /\ changes' = changes + 1
    /\ \E r \in Edits \ {row[b]} : row' = [row EXCEPT ![b] = r]
    /\ QueueSync(b, 1) \/ UNCHANGED due
    /\ UNCHANGED <<point, doc, sync, reindexing, recon, bulk, slips>>

-----------------------------------------------------------------------------
\* sync_book_task
TakeSync(w, b, n) ==
    /\ JobMayStart
    /\ sync[w].pc = "idle"
    /\ due[b][n] > 0
    /\ due' = [due EXCEPT ![b][n] = @ - 1]
    /\ sync' = [sync EXCEPT ![w] = [IdleSync EXCEPT !.pc = "read", !.book = b, !.try = n]]
    /\ UNCHANGED <<row, point, doc, reindexing, recon, bulk, changes, slips>>

ReadBook(w) ==
    /\ sync[w].pc = "read"
    /\ sync' = [sync EXCEPT ![w].pc = "elastic", ![w].row = row[sync[w].book]]
    /\ UNCHANGED <<row, point, doc, due, reindexing, recon, bulk, changes, slips>>

\* index_batch, also of a book that is not available; delete_by_id.
SyncElastic(w) ==
    /\ sync[w].pc = "elastic"
    /\ doc' = [doc EXCEPT ![sync[w].book] = sync[w].row]
    /\ sync' = [sync EXCEPT ![w].pc = "qdrant"]
    /\ UNCHANGED <<row, point, due, reindexing, recon, bulk, changes, slips>>

\* make_index, which embeds again whatever the hashes; remove.
SyncQdrant(w) ==
    /\ sync[w].pc = "qdrant"
    /\ LET r == sync[w].row IN
         point' = [point EXCEPT ![sync[w].book] =
                         IF r # Gone /\ r.avail THEN PointOf(r) ELSE Gone]
    /\ sync' = [sync EXCEPT ![w] = IdleSync]
    /\ UNCHANGED <<row, doc, due, reindexing, recon, bulk, changes, slips>>

\* An exception: SimpleRetryMiddleware queues the next run, if there is one.  A
\* worker that dies has not acknowledged the task.
SyncFails(w) ==
    /\ sync[w].pc # "idle"
    /\ Slip
    /\ LET b == sync[w].book n == sync[w].try IN
         \/ IF n < MaxTries THEN QueueSync(b, n + 1) ELSE UNCHANGED due
         \/ QueueSync(b, n)
    /\ sync' = [sync EXCEPT ![w] = IdleSync]
    /\ UNCHANGED <<row, point, doc, reindexing, recon, bulk, changes>>

Sync(w) == ReadBook(w) \/ SyncElastic(w) \/ SyncQdrant(w)

-----------------------------------------------------------------------------
\* qdrant_index_books_task: from cron, at start-up, or on request.
StartReconcile(r) ==
    /\ JobMayStart
    /\ recon[r].pc = "idle"
    /\ ~reindexing
    /\ reindexing' = TRUE
    /\ recon' = [recon EXCEPT ![r].pc = "rows"]
    /\ UNCHANGED <<row, point, doc, due, sync, bulk, changes, slips>>

\* get_books_for_indexing
ReadRows(r) ==
    /\ recon[r].pc = "rows"
    /\ recon' = [recon EXCEPT ![r].pc = "hashes",
                              ![r].rows = [b \in BookIds |-> IF b \in ForSale(row) THEN row[b] ELSE Gone]]
    /\ UNCHANGED <<row, point, doc, due, sync, reindexing, bulk, changes, slips>>

\* Wrong on purpose: points of books that are no longer for sale are kept.
ReadHashesNoRemoval(r) ==
    /\ recon[r].pc = "hashes"
    /\ LET rows == recon[r].rows
           changed == {b \in ForSale(rows) : point[b] = Gone \/ point[b].text # rows[b].text}
       IN recon' = [recon EXCEPT ![r] =
              [pc |-> "embed", rows |-> rows, embed |-> changed,
               overwrite |-> {b \in ForSale(rows) \ changed : point[b].meta # rows[b].meta},
               remove |-> {}]]
    /\ UNCHANGED <<row, point, doc, due, sync, reindexing, bulk, changes, slips>>

\* _existing_hashes, and what reconcile makes of them.
ReadHashes(r) ==
    /\ recon[r].pc = "hashes"
    /\ LET rows == recon[r].rows
           changed == {b \in ForSale(rows) : point[b] = Gone \/ point[b].text # rows[b].text}
       IN recon' = [recon EXCEPT ![r] =
              [pc |-> "embed", rows |-> rows, embed |-> changed,
               overwrite |-> {b \in ForSale(rows) \ changed : point[b].meta # rows[b].meta},
               remove |-> {b \in BookIds \ ForSale(rows) : point[b] # Gone}]]
    /\ UNCHANGED <<row, point, doc, due, sync, reindexing, bulk, changes, slips>>

\* _embed_and_upsert; the catalogue fits one batch.
EmbedAndUpsert(r) ==
    /\ recon[r].pc = "embed"
    /\ point' = [b \in BookIds |->
                       IF b \in recon[r].embed THEN PointOf(recon[r].rows[b]) ELSE point[b]]
    /\ recon' = [recon EXCEPT ![r].pc = "overwrite", ![r].embed = {}]
    /\ UNCHANGED <<row, doc, due, sync, reindexing, bulk, changes, slips>>

\* overwrite_payload of one point: the hashes are replaced, the vector stays.
\* A point that is gone meanwhile stays gone, whether Qdrant reports it or not.
OverwritePayload(r) ==
    /\ recon[r].pc = "overwrite"
    /\ \/ /\ recon[r].overwrite = {}
          /\ recon' = [recon EXCEPT ![r].pc = "remove"]
          /\ UNCHANGED point
       \/ \E b \in recon[r].overwrite :
            /\ point[b] # Gone
            /\ point' = [point EXCEPT ![b].text = recon[r].rows[b].text,
                                     ![b].meta = recon[r].rows[b].meta]
            /\ recon' = [recon EXCEPT ![r].overwrite = @ \ {b}]
       \/ \E b \in recon[r].overwrite :
            /\ point[b] = Gone
            /\ recon' \in {[recon EXCEPT ![r].overwrite = @ \ {b}],
                          [recon EXCEPT ![r] = [IdleRecon EXCEPT !.pc = "unlock"]]}
            /\ UNCHANGED point
    /\ UNCHANGED <<row, doc, due, sync, reindexing, bulk, changes, slips>>

RemovePoints(r) ==
    /\ recon[r].pc = "remove"
    /\ point' = [b \in BookIds |-> IF b \in recon[r].remove THEN Gone ELSE point[b]]
    /\ recon' = [recon EXCEPT ![r] = [IdleRecon EXCEPT !.pc = "unlock"]]
    /\ UNCHANGED <<row, doc, due, sync, reindexing, bulk, changes, slips>>

\* finally: the key is deleted, whoever set it.
Unlock(r) ==
    /\ recon[r].pc = "unlock"
    /\ reindexing' = FALSE
    /\ recon' = [recon EXCEPT ![r] = IdleRecon]
    /\ UNCHANGED <<row, point, doc, due, sync, bulk, changes, slips>>

\* An exception leads to the finally block; a worker that dies leaves the key.
ReconcileFails(r) ==
    /\ recon[r].pc \notin {"idle", "unlock"}
    /\ Slip
    /\ recon' = [recon EXCEPT ![r] = IdleRecon] \/ recon' = [recon EXCEPT ![r] = [IdleRecon EXCEPT !.pc = "unlock"]]
    /\ UNCHANGED <<row, point, doc, due, sync, reindexing, bulk, changes>>

Reconcile(r) ==
    \/ ReadRows(r) \/ ReadHashes(r) \/ EmbedAndUpsert(r) \/ OverwritePayload(r)
    \/ RemovePoints(r) \/ Unlock(r)

\* REINDEX_LOCK_TTL.  While a reconcile is at work it is a slip.
LockExpires ==
    /\ reindexing
    /\ reindexing' = FALSE
    /\ IF \E r \in Reindexers : recon[r].pc # "idle" THEN Slip ELSE UNCHANGED slips
    /\ UNCHANGED <<row, point, doc, due, sync, recon, bulk, changes>>

-----------------------------------------------------------------------------
\* elastic_index_books_task, which takes no lock.
StartBulk ==
    /\ JobMayStart
    /\ bulk.pc = "idle"
    /\ bulk' = [pc |-> "write", rows |-> row]
    /\ UNCHANGED <<row, point, doc, due, sync, reindexing, recon, changes, slips>>

BulkIndex ==
    /\ bulk.pc = "write"
    /\ doc' = [b \in BookIds |-> IF bulk.rows[b] # Gone THEN bulk.rows[b] ELSE doc[b]]
    /\ bulk' = [bulk EXCEPT !.pc = "prune"]
    /\ UNCHANGED <<row, point, due, sync, reindexing, recon, changes, slips>>

\* delete_missing does nothing when the catalogue is empty.
DeleteMissing ==
    /\ bulk.pc = "prune"
    /\ doc' = IF bulk.rows = NoRows THEN doc
              ELSE [b \in BookIds |-> IF bulk.rows[b] # Gone THEN doc[b] ELSE Gone]
    /\ bulk' = IdleBulk
    /\ UNCHANGED <<row, point, due, sync, reindexing, recon, changes, slips>>

BulkFails ==
    /\ bulk.pc # "idle"
    /\ Slip
    /\ bulk' = IdleBulk
    /\ UNCHANGED <<row, point, doc, due, sync, reindexing, recon, changes>>

-----------------------------------------------------------------------------
IndexNext ==
    \/ \E b \in BookIds : ChangeBook(b)
    \/ \E w \in SyncWorkers : \/ \E b \in BookIds, n \in 1..MaxTries : TakeSync(w, b, n)
                              \/ Sync(w)
                              \/ SyncFails(w)
    \/ \E r \in Reindexers : StartReconcile(r) \/ Reconcile(r) \/ ReconcileFails(r)
    \/ LockExpires
    \/ StartBulk \/ BulkIndex \/ DeleteMissing \/ BulkFails

\* Cron never stops, tasks that were started go on, RabbitMQ hands its tasks
\* out, and a key with a TTL does not outlive it.  Nobody has to change a book.
IndexFairness ==
    /\ \A b \in BookIds, n \in 1..MaxTries : SF_indexVars(\E w \in SyncWorkers : TakeSync(w, b, n))
    /\ \A w \in SyncWorkers : WF_indexVars(Sync(w))
    /\ SF_indexVars(\E r \in Reindexers : StartReconcile(r))
    /\ \A r \in Reindexers : WF_indexVars(Reconcile(r))
    /\ WF_indexVars(LockExpires)
    /\ SF_indexVars(StartBulk) /\ WF_indexVars(BulkIndex \/ DeleteMissing)

IndexSpec == IndexInit /\ [][IndexNext]_indexVars /\ IndexFairness

-----------------------------------------------------------------------------
QdrantAgrees ==
    \A b \in BookIds :
        IF b \in ForSale(row)
        THEN /\ point[b] # Gone
             /\ point[b].text = row[b].text /\ point[b].meta = row[b].meta
        ELSE point[b] = Gone

\* The cron re-index makes up for lost events, but not for the loss of the
\* last book: with no row left nothing is pruned.
ElasticAgrees == row = NoRows \/ doc = row

\* However change events are lost, overtaken, retried or raced by the cron jobs,
\* the payloads in Qdrant and the documents in Elasticsearch end up as the
\* catalogue has them (sync_book.py:4-7, reconcile).
IndexesConverge == <>[](QdrantAgrees /\ ElasticAgrees)

\* reconcile "brings the collection to the state of PostgreSQL" and embeds again
\* what has another text (books.py:188-190): a point's vector ends up made of
\* the text the book has.
VectorsConverge ==
    <>[](\A b \in BookIds : point[b] # Gone /\ row[b] # Gone => point[b].vector = row[b].text)
=============================================================================
