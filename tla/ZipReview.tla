------------------------------- MODULE ZipReview -------------------------------
(***************************************************************************)
(* One ZIP archive on its way to a cited answer: ingestZipArchive, the     *)
(* inventory, the eligible copy, the evidence, the index and the questions.*)
(* SourceSnapshots and GitReview have the snapshot and the removals between *)
(* intake and review; here the question is what becomes of the content.    *)
(*                                                                         *)
(* An entry of an archive is [path, dir, safe, packed, source]: safe says  *)
(* that its name and type pass the checks that look at one entry.  Nobody  *)
(* reads the source of a directory, but its declared size counts.  The     *)
(* workspace is a tree on a file system that may ignore case: a function   *)
(* from places, paths of folded names, to what lies there and the name it  *)
(* was created with, which is the one that readdir gives.                  *)
(***************************************************************************)
EXTENDS Inventory, EvidenceChunks, GroundedAnswers

CONSTANTS
  Archives, Questions, Language, \* the language of a file, by its name
  Folded,                       \* what the file system tells names apart by
  MaxEntries, MaxPathDepth, MaxEntryBytes, MaxTotalBytes, MaxRatio,
  Invented                      \* what a model may name that is no document

Sources == [lines : Seq(Lines), nul : BOOLEAN]

\* A file system may take names for one that differ in case only.  A file entry
\* has a source, a directory may declare one; a blank question has no words.
ASSUME ReviewAssumption ==
  /\ Folded \in [Names -> Names]
  /\ \A m, n \in Names : Folded[m] = Folded[n] => Lower[m] = Lower[n]
  /\ None \notin Sources /\ Names \subseteq DOMAIN NameRank
  /\ ConceptWords \in [Concepts -> Seq(Words)]
  /\ \A a \in Archives :
       /\ a \in Seq([path : Seq(Names) \ {<<>>}, dir : BOOLEAN, safe : BOOLEAN, packed : Nat,
                     source : {None} \cup Sources])
       /\ \A i \in DOMAIN a : a[i].dir \/ a[i].source # None
  /\ \A q \in Questions : q.bytes \in Nat /\ (q.bytes = 0 => q.words = {})

VARIABLES
  at,        \* where the worker stands
  archive,   \* the entries of the upload
  upload,    \* whether the upload is on disk
  workspace, \* what lies in the intake workspace, None without one
  done,      \* how many entries are extracted
  inventory,
  copy,      \* the rehydrated source
  chunks, evidence, index,
  answer,
  error,
  failed     \* the removals that failed

intake == <<archive, upload, workspace, done, failed>>
review == <<chunks, evidence, index>>
vars == <<at, intake, inventory, copy, review, answer, error>>

NoAnswer == [by |-> "nobody", status |-> "none", results |-> <<>>]

TypeOK ==
  /\ at \in {"preflight", "extract", "inventory", "undo", "consume", "copy", "analyse",
             "build", "ready", "refused"}
  /\ archive \in Archives
  /\ upload \in BOOLEAN
  /\ done \in 0 .. Len(archive)
  /\ failed \subseteq {"upload", "workspace"}
  /\ inventory # None =>
       \A p \in DOMAIN inventory : inventory[p].reason = None <=> inventory[p].digest # None

Init ==
  /\ at = "preflight" /\ archive \in Archives /\ upload = TRUE /\ workspace = None /\ done = 0
  /\ inventory = None /\ copy = <<>> /\ chunks = <<>> /\ evidence = {} /\ index = {}
  /\ answer = NoAnswer /\ error = "none" /\ failed = {}

Fail(code, next) == error' = code /\ at' = next

-----------------------------------------------------------------------------
LowerPath(path) == [k \in DOMAIN path |-> Lower[path[k]]]

Prefixed(path) == {SubSeq(path, 1, k) : k \in 1 .. Len(path) - 1}

\* Mutant: only equal names collide.
OnlyEqualCollide ==
  \E i, j \in DOMAIN archive : i # j /\ LowerPath(archive[i].path) = LowerPath(archive[j].path)

\* validateArchivePathCollisions: one name twice, or a file above an entry.
Collide ==
  \E i, j \in DOMAIN archive :
    /\ i # j
    /\ \/ LowerPath(archive[i].path) = LowerPath(archive[j].path)
       \/ ~archive[i].dir /\ LowerPath(archive[i].path) \in Prefixed(LowerPath(archive[j].path))

EntryBytes(entry) == IF entry.source = None THEN 0 ELSE Bytes(entry.source)

\* Every check that runs before there is a workspace.
Acceptable ==
  /\ Len(archive) <= MaxEntries
  /\ \A i \in DOMAIN archive : archive[i].safe /\ Len(archive[i].path) <= MaxPathDepth
  /\ ~Collide
  /\ \A i \in DOMAIN archive :
       /\ EntryBytes(archive[i]) <= MaxEntryBytes
       /\ EntryBytes(archive[i]) <= MaxRatio * (IF archive[i].packed = 0 THEN 1
                                                ELSE archive[i].packed)
  /\ MapThenSumSet(LAMBDA i : EntryBytes(archive[i]), DOMAIN archive) <= MaxTotalBytes

Preflight ==
  /\ at = "preflight"
  /\ IF Acceptable
       THEN workspace' = <<>> /\ at' = "extract" /\ UNCHANGED error
       ELSE UNCHANGED workspace /\ Fail("ARCHIVE_REFUSED", "consume")
  /\ UNCHANGED <<archive, upload, done, failed, inventory, copy, review, answer>>

Place(path) == [k \in DOMAIN path |-> Folded[path[k]]]

\* A place and all places above it.
Way(place) == {SubSeq(place, 1, k) : k \in DOMAIN place}

\* The workspace once mkdir -p has made the directories that an entry needs,
\* each with its name in this entry, and the stream has written its file.  What
\* is there already keeps its name.
WithEntry(entry) ==
  LET p == Place(entry.path)
  IN  [q \in DOMAIN workspace \cup Way(p) |->
         IF q \in DOMAIN workspace THEN workspace[q]
         ELSE [dir |-> q # p \/ entry.dir, name |-> entry.path[Len(q)],
               source |-> IF q = p /\ ~entry.dir THEN entry.source ELSE None]]

\* An existing file where a directory is needed, or anything where "wx" is to
\* create a file.
Occupied(entry) ==
  LET p == Place(entry.path)
  IN  \/ \E q \in Prefixed(p) \cap DOMAIN workspace : ~workspace[q].dir
      \/ p \in DOMAIN workspace /\ ~(entry.dir /\ workspace[p].dir)

ExtractEntry ==
  /\ at = "extract" /\ done < Len(archive)
  /\ LET entry == archive[done + 1]
     IN  IF Occupied(entry)
           THEN UNCHANGED <<workspace, done>> /\ Fail("EEXIST", "undo")
           ELSE \/ /\ workspace' = WithEntry(entry)
                   /\ done' = done + 1 /\ UNCHANGED <<at, error>>
                \/ \* a damaged stream or ARCHIVE_CRC_MISMATCH
                   /\ ~entry.dir /\ UNCHANGED <<workspace, done>>
                   /\ Fail("ARCHIVE_CRC_MISMATCH", "undo")
  /\ UNCHANGED <<archive, upload, failed, inventory, copy, review, answer>>

\* The path of a place: the names that readdir gives on the way to it.
Found(place) == [k \in DOMAIN place |-> workspace[SubSeq(place, 1, k)].name]

\* The files as inventoryRepository finds them.
Tree ==
  LET files == {p \in DOMAIN workspace : ~workspace[p].dir}
  IN  [q \in {Found(p) : p \in files} |-> workspace[Place(q)].source]

Inventoried ==
  /\ at = "extract" /\ done = Len(archive)
  /\ inventory' = InventoryOf(Tree)
  /\ IF WithinLimits(Tree) THEN at' = "consume" /\ UNCHANGED error
                           ELSE Fail("INVENTORY_LIMIT", "undo")
  /\ UNCHANGED <<intake, copy, review, answer>>

\* The catch block.
Undo ==
  /\ at = "undo"
  /\ \/ workspace' = None /\ UNCHANGED failed
     \/ UNCHANGED workspace /\ failed' = failed \cup {"workspace"}
  /\ at' = "consume"
  /\ UNCHANGED <<archive, upload, done, inventory, copy, review, answer, error>>

\* Mutant: the upload is consumed on success only.
ConsumeOnSuccess ==
  /\ at = "consume"
  /\ upload' = (error # "none") /\ UNCHANGED failed
  /\ at' = IF error = "none" THEN "copy" ELSE "refused"
  /\ UNCHANGED <<archive, workspace, done, inventory, copy, review, answer, error>>

\* The finally block: an upload that cannot be removed turns success into an
\* error, and nobody is left to clean the workspace.
Consume ==
  /\ at = "consume"
  /\ \/ /\ upload' = FALSE /\ UNCHANGED <<failed, error>>
        /\ at' = IF error = "none" THEN "copy" ELSE "refused"
     \/ /\ failed' = failed \cup {"upload"} /\ UNCHANGED upload
        /\ Fail("UPLOAD_NOT_REMOVED", "refused")
  /\ UNCHANGED <<archive, workspace, done, inventory, copy, review, answer>>

-----------------------------------------------------------------------------
\* The snapshot of the eligible files, the removal of the workspace and the
\* rehydration, all of which succeed here.
Copy ==
  /\ at = "copy"
  /\ copy' = [p \in Eligible(inventory) |-> inventory[p].digest]
  /\ workspace' = None
  /\ at' = "analyse"
  /\ UNCHANGED <<archive, upload, done, failed, inventory, review, answer, error>>

LanguageOf(path) == Language[path[Len(path)]]

\* analyzeRepository: the chunks of every file that could be read unchanged, in
\* the order they are cut.  The order of the files is left out: an identifier
\* begins with the path, and what is built from the chunks is a set.
Analyse ==
  /\ at = "analyse"
  /\ \E unreadable \in {{}} \cup {{p} : p \in DOMAIN copy} :
       chunks' = [p \in DOMAIN copy \ unreadable |-> ChunksOf(LanguageOf(p), copy[p].lines)]
  /\ IF \A p \in DOMAIN chunks' : chunks'[p] = <<>>
       THEN Fail("REVIEW_EVIDENCE_EMPTY", "refused")
       ELSE at' = "build" /\ UNCHANGED error
  /\ UNCHANGED <<intake, inventory, copy, evidence, index, answer>>

Id(chunk) == <<chunk.start, chunk.end, chunk.offset>>

\* A chunk as a piece of evidence; of its text the words that begin its lines.
Evidence(path, chunk) ==
  LET lines == copy[path].lines
      word(c) == lines[c[1]].word
  IN  [path |-> path, start |-> chunk.start, end |-> chunk.end, offset |-> chunk.offset,
       bytes |-> Len(chunk.content),
       symbol |-> LanguageOf(path) # "text" /\ lines[chunk.start].decl # "none",
       words |-> FlattenSeq([i \in DOMAIN chunk.content |->
                   LET c == chunk.content[i]
                   IN  IF c[2] = 1 /\ word(c) # NoWord THEN <<word(c)>> ELSE <<>>])]

\* What validateEvidence can refuse of evidence made from chunks.
Distinct ==
  \A p \in DOMAIN chunks : \A i, j \in DOMAIN chunks[p] :
    Id(chunks[p][i]) = Id(chunks[p][j]) => i = j

\* What the index can refuse of it.
Indexable ==
  \A p \in DOMAIN chunks : \A i \in DOMAIN chunks[p] :
    ~IsBlank(copy[p].lines, chunks[p][i].content)

\* buildLocalRepositoryReview after the analysis.
Build ==
  /\ at = "build"
  /\ IF ~Distinct
       THEN Fail("EVIDENCE_ID_DUPLICATE", "refused") /\ UNCHANGED <<evidence, index>>
     ELSE IF ~Indexable
       THEN Fail("EVIDENCE_CONTENT_INVALID", "refused") /\ UNCHANGED <<evidence, index>>
     ELSE /\ evidence' = UNION {{Evidence(p, chunks[p][i]) : i \in DOMAIN chunks[p]} :
                                 p \in DOMAIN chunks}
          /\ index' = Documents(evidence')
          /\ at' = "ready" /\ UNCHANGED error
  /\ UNCHANGED <<intake, inventory, copy, chunks, answer>>

\* An answer changes nothing that another one depends on, so that one question
\* is asked of a review.
Asked(question, by, result) ==
  /\ at = "ready" /\ answer = NoAnswer
  /\ answer' = [question |-> question, by |-> by, status |-> result.status,
                results |-> result.results]
  /\ UNCHANGED <<at, intake, inventory, copy, review, error>>

\* A service without a provider.
Ask(question) == Asked(question, "baseline", Answer(index, question))

\* A service with one: the model names at most one document, which may be one
\* it has invented, or the call fails.
AskProvider(question) ==
  \/ LET prompt == Selected(index, question)
     IN  \E reply \in {<<>>, <<Invented>>} \cup {<<d>> : d \in index} :
           Asked(question, "provider", ProviderAnswer(prompt, reply))
  \/ Asked(question, "provider", Insufficient("failed"))

Next ==
  \/ Preflight \/ ExtractEntry \/ Inventoried \/ Undo \/ Consume
  \/ Copy \/ Analyse \/ Build \/ \E q \in Questions : Ask(q) \/ AskProvider(q)

Spec == Init /\ [][Next]_vars

-----------------------------------------------------------------------------
\* The entries that lie at a place or below it, and the path under which a file
\* is found: each name as it is spelled by the first entry that needs it.
Users(place) == {i \in DOMAIN archive : place \in Way(Place(archive[i].path))}

Spelled(path) ==
  [k \in DOMAIN path |-> archive[Min(Users(SubSeq(Place(path), 1, k)))].path[k]]

\* An archive that passes the checks extracts without meeting itself, whatever
\* the order of its entries and whether or not the file system ignores case:
\* its inventory is exactly its files, each with its own content, by the names
\* with which each part of the path came first.
AcceptedArchiveExtracts ==
  /\ error # "EEXIST"
  /\ inventory # None =>
       /\ DOMAIN inventory =
            {Spelled(archive[i].path) : i \in {j \in DOMAIN archive : ~archive[j].dir}}
       /\ \A i \in DOMAIN archive : ~archive[i].dir =>
            inventory[Spelled(archive[i].path)].digest \in {None, archive[i].source}

\* Whether a file may be read: it lies below no excluded directory, its name
\* is neither sensitive nor binary, and it is text.
MayBeRead(path, source) ==
  /\ \A k \in 1 .. Len(path) - 1 :
       path[k] \notin DOMAIN ExcludedDirectories /\ SubSeq(path, 1, k) # Visualizations
  /\ Lower[path[Len(path)]] \notin SensitiveNames \cup BinaryMedia
  /\ path \notin SensitivePaths
  /\ ~source.nul

\* Only what may be read is copied, cut into evidence and cited, and all of it
\* is copied: between the inventory and an answer no step widens the policy.
OnlyEligibleIsCited ==
  /\ at \in {"analyse", "build", "ready"} =>
       DOMAIN copy =
         {Spelled(archive[i].path) : i \in {j \in DOMAIN archive :
            ~archive[j].dir /\ MayBeRead(Spelled(archive[j].path), archive[j].source)}}
  /\ DOMAIN chunks \subseteq DOMAIN copy /\ \A e \in evidence : e.path \in DOMAIN chunks
  /\ \A r \in DOMAIN answer.results :
       Citation(answer.results[r], evidence).path \in DOMAIN copy

\* When intake is over nothing of the archive is left, but what a failing
\* removal left; a copy is only made once the upload is gone.
NothingIsLeft ==
  /\ at = "refused" =>
       /\ upload => "upload" \in failed
       /\ workspace # None => failed # {}
  /\ at \in {"copy", "analyse", "build", "ready"} => ~upload
  /\ at \in {"analyse", "build", "ready"} => workspace = None

\* The characters of the lines of a range, in order.
TextOf(lines, range) ==
  FlattenSeq([i \in 1 .. range.end - range.start + 1 |-> Text(lines, range.start + i - 1)])

\* Evidence quotes its file exactly: the chunks of a symbol put together are
\* its lines, none is longer than the limit, and a chunk that is not a slice of
\* one line is the text of the lines it names.  No step changes them later.
EvidenceIsExact ==
  \A p \in DOMAIN chunks :
    LET lines == copy[p].lines
        ranges == Ranges(LanguageOf(p), lines)
        own == chunks[p]
    IN  /\ \A k \in DOMAIN own :
             /\ Len(own[k].content) \in 1 .. MaxChunk
             /\ own[k].start \in DOMAIN lines /\ own[k].end \in own[k].start .. Len(lines)
             /\ own[k].offset = 0 => own[k].content = TextOf(lines, own[k])
        /\ FlattenSeq([k \in DOMAIN own |-> own[k].content])
             = FlattenSeq([r \in DOMAIN ranges |-> TextOf(lines, ranges[r])])

\* The bytes that the first n of some results quote.
QuotedBytes(results, n) ==
  LET quoted[k \in 0 .. n] == IF k = 0 THEN 0 ELSE quoted[k - 1] + results[k].bytes
  IN  quoted[n]

\* The deterministic answerer cites documents with a word of the question, none
\* that is left out scores better, what is quoted stays within its limits, and
\* it refuses exactly when no document matches.
BestMatches(status, results, documents, q) ==
  LET matching == {d \in documents : \E i \in DOMAIN d.words : d.words[i] \in q.words \ StopWords}
      cited == {results[r].document : r \in DOMAIN results}
  IN  /\ status = "answered" <=> q.bytes <= QueryBytes /\ matching # {}
      /\ cited \subseteq matching /\ Len(results) <= ResultLimit
      /\ \A d \in cited, e \in matching \ cited :
           Score(d, q.words \ StopWords) >= Score(e, q.words \ StopWords)
      /\ QuotedBytes(results, Len(results)) <= ContextBytes

\* Each result is a document of the review, and its citation's excerpt is the
\* text of the lines that it names.
Quoted(results, documents, pieces) ==
  \A r \in DOMAIN results :
    LET c == Citation(results[r], pieces)
    IN  /\ results[r].document \in documents
        /\ \E e \in pieces :
             e.path = c.path /\ e.start = c.start /\ e.end = c.end /\ e.words = c.excerpt

\* An answer cites at least one document of the review and a refusal none, and
\* what is cited is quoted, whatever a model replies; an answer without a model
\* is the best that the review has.
AnswersAreGrounded ==
  answer # NoAnswer =>
    /\ answer.status = "answered" <=> DOMAIN answer.results # {}
    /\ answer.by = "baseline" =>
         BestMatches(answer.status, answer.results, index, answer.question)
    /\ Quoted(answer.results, index, evidence)

\* decisions/003: a general-overview fallback for other text source.  Then
\* source with a line of text in one of its chunks is not refused for what its
\* chunks hold or are called.
TextIsReviewable ==
  error \in {"EVIDENCE_ID_DUPLICATE", "EVIDENCE_CONTENT_INVALID"} =>
    \A p \in DOMAIN chunks : \A k \in DOMAIN chunks[p] :
      IsBlank(copy[p].lines, chunks[p][k].content)
=============================================================================
