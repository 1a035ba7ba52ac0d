----------------------------- MODULE Knowledge -----------------------------
(***************************************************************************)
(* The knowledge library (apps/api/app/routes/knowledge.py): videos found  *)
(* through a SerpApi connection whose transcripts become sources           *)
(* (modules/knowledge/youtube_ingestion.py, tasks/knowledge.py), one       *)
(* document with its segments' vectors, and the re-indexing that follows a *)
(* change of the embedding model.                                          *)
(*                                                                         *)
(* A discovery locks the row of the connection it uses until its           *)
(* transaction ends; where several are active nothing says which it uses.  *)
(* A run is locked while its transcripts are fetched.  Documents are       *)
(* written whole, from a copy read without a lock before the embedding     *)
(* service was asked.                                                      *)
(***************************************************************************)
EXTENDS Integers, FiniteSets

CONSTANTS
  Video,
  Key,        \* SerpApi connections
  Search,     \* stored discovery runs
  Finder,     \* discoveries at the same time
  Fetcher,    \* transcript requests at the same time
  MaxChanges  \* bound: changes of connections, documents and embedding

ASSUME KnowledgeAssumption == MaxChanges \in Nat

VARIABLES
  usable,     \* connections that are active
  offered,    \* connections that ever were
  finding,    \* what each open discovery has found, under which connection
  reserved,   \* videos some run or cursor has seen
  search,     \* the row of each discovery run
  fetching,   \* the run each transcript request holds, and what it read
  live,       \* transcript sources of each video that are not deleted
  document,   \* a document: state, text, model of its vectors
  saving,     \* the text being embedded, and for which model
  embedding,  \* the configured embedding model
  indexing,   \* the copy a re-indexing works on
  changes

knowledgeVars == <<usable, offered, finding, reserved, search, fetching, live,
                   document, saving, embedding, indexing, changes>>

videoVars == <<usable, offered, finding, reserved, search, fetching, live>>
documentVars == <<document, saving, embedding, indexing>>

NotFinding == [stage |-> "NONE"]
NoSearch == [state |-> "NONE", videos |-> {}, failed |-> {}]
NotFetching == [id |-> "NONE"]
Idle == [text |-> 0]

KnowledgeInit ==
  /\ usable = {} /\ offered = {}
  /\ finding = [f \in Finder |-> NotFinding]
  /\ reserved = {}
  /\ search = [q \in Search |-> NoSearch]
  /\ fetching = [w \in Fetcher |-> NotFetching]
  /\ live = [v \in Video |-> 0]
  /\ document = [state |-> "NONE", text |-> 0, model |-> 0]
  /\ saving = Idle
  /\ embedding = 0
  /\ indexing = Idle
  /\ changes = 0

Change == changes < MaxChanges /\ changes' = changes + 1
InUse(k) == \E f \in Finder : finding[f] # NotFinding /\ finding[f].key = k
Ingested == {v \in Video : live[v] > 0}

(* A connection is created, activated or withdrawn; the row waits for the  *)
(* discovery that holds it.                                                *)
SwitchConnection(k) ==
  /\ Change /\ ~InUse(k)
  /\ usable' = IF k \in usable THEN usable \ {k} ELSE usable \cup {k}
  /\ offered' = offered \cup {k}
  /\ UNCHANGED <<finding, reserved, search, fetching, live, documentVars>>

(***************************************************************************)
(* Discovery                                                               *)
(***************************************************************************)
Seen == reserved \cup Ingested
BeginDiscovery(f, k) ==
  /\ finding[f] = NotFinding /\ k \in usable
  /\ \E found \in SUBSET (Video \ Seen) \ {{}} :
       finding' = [finding EXCEPT ![f] = [stage |-> "FOUND", key |-> k, found |-> found]]
  /\ UNCHANGED <<usable, offered, reserved, search, fetching, live, documentVars, changes>>

MutDiscover(f, k) == BeginDiscovery(f, k)
Discover(f, k) == ~InUse(k) /\ BeginDiscovery(f, k)

(* The run of a search, a scrape or a schedule is stored when all is done, *)
(* the sources and the cursor in the same commit.                          *)
StoreRun(f, q, state, failed, got) ==
  /\ search[q] = NoSearch
  /\ search' = [search EXCEPT ![q] =
       [state |-> state, videos |-> finding[f].found, failed |-> failed]]
  /\ reserved' = reserved \cup finding[f].found
  /\ live' = [v \in Video |-> live[v] + (IF v \in got THEN 1 ELSE 0)]
  /\ finding' = [finding EXCEPT ![f] = NotFinding]
  /\ UNCHANGED <<usable, offered, fetching, documentVars, changes>>

FinishSearch(f, q) == finding[f].stage = "FOUND" /\ StoreRun(f, q, "SEARCHED", {}, {})

FetchFound(f) ==
  /\ finding[f].stage = "FOUND"
  /\ finding' = [finding EXCEPT ![f] =
       [stage |-> "FETCHING", key |-> @.key, found |-> @.found, wanted |-> @.found \ Ingested]]
  /\ UNCHANGED <<usable, offered, reserved, search, fetching, live, documentVars, changes>>

(* A scrape has succeeded whatever could not be fetched.                   *)
FinishScrape(f, q) ==
  /\ finding[f].stage = "FETCHING"
  /\ \E got \in SUBSET finding[f].wanted : StoreRun(f, q, "SUCCEEDED", {}, got)

(* A scheduled run keeps what failed for a retry; an error half-way keeps  *)
(* the sources made before it.                                             *)
FinishScheduled(f, q) ==
  /\ finding[f].stage = "FETCHING"
  /\ \E got \in SUBSET finding[f].wanted :
       LET failed == finding[f].wanted \ got
       IN \/ StoreRun(f, q, IF failed = {} THEN "SUCCEEDED" ELSE "PARTIAL", failed, got)
          \/ StoreRun(f, q, "FAILED", {}, got)

AbandonDiscovery(f) ==
  /\ finding[f] # NotFinding
  /\ finding' = [finding EXCEPT ![f] = NotFinding]
  /\ UNCHANGED <<usable, offered, reserved, search, fetching, live, documentVars, changes>>

(***************************************************************************)
(* Transcripts of a stored run                                             *)
(***************************************************************************)
Retryable(q) == IF search[q].state = "PARTIAL" THEN search[q].failed ELSE search[q].videos
StartTranscripts(w, q) ==
  /\ fetching[w] = NotFetching
  /\ \A other \in Fetcher : fetching[other].id # q
  /\ search[q].state \in {"SEARCHED", "PARTIAL", "FAILED"} /\ search[q].videos # {}
  /\ fetching' = [fetching EXCEPT ![w] = [id |-> q, wanted |-> Retryable(q) \ Ingested]]
  /\ UNCHANGED <<usable, offered, finding, reserved, search, live, documentVars, changes>>

FinishTranscripts(w) ==
  /\ fetching[w] # NotFetching
  /\ \E got \in SUBSET fetching[w].wanted :
       LET failed == fetching[w].wanted \ got
       IN /\ search' = [search EXCEPT ![fetching[w].id].failed = failed,
                          ![fetching[w].id].state = IF failed = {} THEN "SUCCEEDED" ELSE "PARTIAL"]
          /\ live' = [v \in Video |-> live[v] + (IF v \in got THEN 1 ELSE 0)]
  /\ fetching' = [fetching EXCEPT ![w] = NotFetching]
  /\ UNCHANGED <<usable, offered, finding, reserved, documentVars, changes>>

(* An error is answered 502, which rolls the run's FAILED back with the    *)
(* rest: the run is as it was.                                             *)
FailTranscripts(w) ==
  /\ fetching[w] # NotFetching
  /\ fetching' = [fetching EXCEPT ![w] = NotFetching]
  /\ UNCHANGED <<usable, offered, finding, reserved, search, live, documentVars, changes>>

DeleteSource(v) ==
  /\ live[v] > 0 /\ Change
  /\ live' = [live EXCEPT ![v] = @ - 1]
  /\ UNCHANGED <<usable, offered, finding, reserved, search, fetching, documentVars>>

(***************************************************************************)
(* Documents                                                               *)
(***************************************************************************)
(* Saving, uploading or reprocessing: segments are embedded for the model  *)
(* configured before the service was asked.  An upload whose text is       *)
(* already there changes nothing; reprocessing revives what was deleted.   *)
StartSave ==
  /\ saving = Idle /\ Change
  /\ saving' = [text |-> document.text + 1, model |-> embedding]
  /\ UNCHANGED <<videoVars, document, embedding, indexing>>

FinishSave ==
  /\ saving # Idle
  /\ document' = [state |-> "ACTIVE", text |-> saving.text, model |-> saving.model]
  /\ saving' = Idle
  /\ UNCHANGED <<videoVars, embedding, indexing, changes>>

DisableDocument ==
  /\ document.state # "NONE" /\ Change
  /\ document' = [document EXCEPT !.state = "DISABLED"]
  /\ UNCHANGED <<videoVars, saving, embedding, indexing>>

(* The tombstone has no text.                                              *)
DeleteDocument ==
  /\ document.state # "NONE" /\ Change
  /\ document' = [state |-> "DELETED", text |-> 0, model |-> 0]
  /\ UNCHANGED <<videoVars, saving, embedding, indexing>>

(* Every source that is not deleted is read, embedded again, and written   *)
(* whole; its state is left as it is by then.                              *)
StartReindex ==
  /\ indexing = Idle /\ Change
  /\ indexing' = [text |-> 1, model |-> embedding + 1,
                  copy |-> IF document.state = "DELETED" THEN 0 ELSE document.text]
  /\ UNCHANGED <<videoVars, document, saving, embedding>>

FinishReindex ==
  /\ indexing # Idle
  /\ document' = IF indexing.copy = 0 THEN document
                 ELSE [state |-> document.state, text |-> indexing.copy, model |-> indexing.model]
  /\ embedding' = indexing.model
  /\ indexing' = Idle
  /\ UNCHANGED <<videoVars, saving, changes>>

FailReindex ==
  /\ indexing # Idle
  /\ indexing' = Idle
  /\ UNCHANGED <<videoVars, document, saving, embedding, changes>>

KnowledgeNext ==
  \/ \E k \in Key : SwitchConnection(k) \/ \E f \in Finder : Discover(f, k)
  \/ \E f \in Finder :
       \/ FetchFound(f) \/ AbandonDiscovery(f)
       \/ \E q \in Search : FinishSearch(f, q) \/ FinishScrape(f, q) \/ FinishScheduled(f, q)
  \/ \E w \in Fetcher :
       \/ FinishTranscripts(w) \/ FailTranscripts(w)
       \/ \E q \in Search : StartTranscripts(w, q)
  \/ \E v \in Video : DeleteSource(v)
  \/ StartSave \/ FinishSave \/ DisableDocument \/ DeleteDocument
  \/ StartReindex \/ FinishReindex \/ FailReindex

KnowledgeSpec == KnowledgeInit /\ [][KnowledgeNext]_knowledgeVars

(***************************************************************************)
(* Properties                                                              *)
(***************************************************************************)
(* Type invariant of runs, sources and the document.                       *)
KnowledgeTypeOK ==
  /\ usable \subseteq offered /\ offered \subseteq Key
  /\ reserved \subseteq Video
  /\ search \in [Search -> [state: {"NONE", "SEARCHED", "PARTIAL", "FAILED", "SUCCEEDED"},
                            videos: SUBSET Video, failed: SUBSET Video]]
  /\ live \in [Video -> Nat]
  /\ document \in [state: {"NONE", "ACTIVE", "DISABLED", "DELETED"}, text: Nat, model: Nat]
  /\ embedding \in Nat
  /\ changes \in 0..MaxChanges

(* However searches, scrapes, schedules and retries overlap, a video has   *)
(* one source at a time: the lock, the reservations and the look at what   *)
(* is there see to it.  The lock is the connection's, so each further one  *)
(* may add a source.                                                       *)
OneSourcePerVideo == \A v \in Video : live[v] <= Cardinality(offered)
=============================================================================
