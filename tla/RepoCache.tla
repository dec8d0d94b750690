----------------------------- MODULE RepoCache ------------------------------
(***************************************************************************)
(* The cache of repository metadata and its conditional requests.          *)
(*                                                                         *)
(* fetch_repo reads the cached document of the repository, sends its ETag  *)
(* along, and either gets 304, and answers from the copy it read, or gets  *)
(* the metadata, and overwrites the document with it.  Concurrent clients  *)
(* share the document and nothing orders their reads and writes, while the *)
(* repository itself changes, is deleted, or goes back to what it was.     *)
(*                                                                         *)
(* A version stands for one body GitHub answers with.  Its ETag depends on *)
(* the body alone, so that a version is its own ETag.  A renamed           *)
(* repository is one more version: the redirect is not followed, and its   *)
(* body is read as if it were metadata.                                    *)
(***************************************************************************)
EXTENDS Naturals

CONSTANTS
  Clients,     \* concurrent calls of fetch_repo
  Versions,    \* bodies GitHub answers with
  Gone,        \* the repository does not exist, or is not visible
  Failed,      \* fetch_repo raised another error than NotFoundError
  None,        \* no document, no ETag, no result yet
  MaxRetries,  \* max_retries of the client
  MaxChanges   \* bound: changes of the repository

ASSUME RepoCacheAssumption ==
  /\ Versions \intersect {Gone, Failed, None} = {}
  /\ Gone # Failed /\ Failed # None /\ Gone # None
  /\ {MaxRetries, MaxChanges} \subseteq Nat

VARIABLES
  shown,    \* at GitHub: what it answers with
  cache,    \* repo_cache: the document of the repository
  fetch,    \* the call each client executes
  changes   \* what the bound counts

Views == Versions \union {Gone}

Document == [content : Versions, etag : Versions \union {None}]

\* A call: the document it read, the answer it got, and, as a history, what
\* GitHub showed since the call began.
Call ==
  [ pc     : {"idle", "read", "send", "put", "done"},
    cached : Document \union {None},
    tries  : 0 .. MaxRetries,
    answer : Document \union {None},
    result : Views \union {Failed, None},
    seen   : SUBSET Views ]

NoCall ==
  [pc |-> "idle", cached |-> None, tries |-> 0, answer |-> None, result |-> None, seen |-> {}]

\* The document and the calls keep their shape: no request is sent again more
\* than max_retries times.
CacheTypeOK ==
  /\ shown \in Views
  /\ cache \in Document \union {None}
  /\ fetch \in [Clients -> Call]
  /\ changes \in 0 .. MaxChanges

\* The ETag of a document belongs to its content.
Coherent(doc) == doc # None => doc.etag \in {doc.content, None}

\* Earlier commands may have left any version in the cache.
CacheInit ==
  /\ shown \in Versions
  /\ cache \in {doc \in Document \union {None} : Coherent(doc)}
  /\ fetch = [c \in Clients |-> NoCall]
  /\ changes = 0

Becomes(c, f) == fetch' = [fetch EXCEPT ![c] = f]

Returns(c, result) ==
  Becomes(c, [NoCall EXCEPT !.pc = "done", !.result = result, !.seen = fetch[c].seen])

-----------------------------------------------------------------------------
\* The repository changes, perhaps back to an earlier version, is deleted, or
\* made private.
Change(v) ==
  /\ changes < MaxChanges
  /\ changes' = changes + 1
  /\ v \in Views \ {shown}
  /\ shown' = v
  /\ fetch' = [c \in Clients |->
       IF fetch[c].pc \in {"read", "send"} THEN [fetch[c] EXCEPT !.seen = @ \union {v}] ELSE fetch[c]]
  /\ UNCHANGED cache

Call_fetch_repo(c) ==
  /\ fetch[c].pc = "idle"
  /\ Becomes(c, [NoCall EXCEPT !.pc = "read", !.seen = {shown}])
  /\ UNCHANGED <<shown, cache, changes>>

\* Mutant of ReadCache: what is cached is returned without asking GitHub.
ReadCacheOnly(c) ==
  /\ fetch[c].pc = "read"
  /\ IF cache = None
     THEN Becomes(c, [fetch[c] EXCEPT !.pc = "send"])
     ELSE Returns(c, cache.content)
  /\ UNCHANGED <<shown, cache, changes>>

ReadCache(c) ==
  /\ fetch[c].pc = "read"
  /\ Becomes(c, [fetch[c] EXCEPT !.pc = "send", !.cached = cache])
  /\ UNCHANGED <<shown, cache, changes>>

\* If-None-Match is sent if the document was there and has an ETag, and GitHub
\* finds that it still holds.
Matches(c) ==
  /\ fetch[c].cached # None
  /\ fetch[c].cached.etag # None
  /\ fetch[c].cached.etag = shown

\* Mutant of NotModified: the document is read again instead of the copy.
NotModifiedReread(c) ==
  /\ fetch[c].pc = "send"
  /\ Matches(c)
  /\ Returns(c, cache.content)
  /\ UNCHANGED <<shown, cache, changes>>

\* 304: the copy is the result.
NotModified(c) ==
  /\ fetch[c].pc = "send"
  /\ Matches(c)
  /\ Returns(c, fetch[c].cached.content)
  /\ UNCHANGED <<shown, cache, changes>>

\* 200, with an ETag or without, whether the request was conditional or not.
Modified(c) ==
  /\ fetch[c].pc = "send"
  /\ shown \in Versions
  /\ \E tag \in {shown, None} :
       Becomes(c, [NoCall EXCEPT !.pc = "put", !.seen = fetch[c].seen,
                                 !.answer = [content |-> shown, etag |-> tag]])
  /\ UNCHANGED <<shown, cache, changes>>

\* 404: the cached document stays.
NotFound(c) ==
  /\ fetch[c].pc = "send"
  /\ shown = Gone
  /\ Returns(c, Gone)
  /\ UNCHANGED <<shown, cache, changes>>

\* 403 or 429 with a rate limit: the same request is sent again after a pause.
RateLimited(c) ==
  /\ fetch[c].pc = "send"
  /\ IF fetch[c].tries >= MaxRetries
     THEN Returns(c, Failed)
     ELSE Becomes(c, [fetch[c] EXCEPT !.tries = @ + 1])
  /\ UNCHANGED <<shown, cache, changes>>

\* Any other error of GitHub, of the network or of Firestore.
CallFails(c) ==
  /\ fetch[c].pc \in {"read", "send", "put"}
  /\ Returns(c, Failed)
  /\ UNCHANGED <<shown, cache, changes>>

\* Mutant of Stored: an answer without ETag keeps the one that is stored.
StoredKeepsTag(answer) ==
  IF answer.etag = None /\ cache # None THEN [answer EXCEPT !.etag = cache.etag] ELSE answer

\* put overwrites the whole document: no ETag survives from an earlier one.
Stored(answer) == answer

Put(c) ==
  /\ fetch[c].pc = "put"
  /\ cache' = Stored(fetch[c].answer)
  /\ Returns(c, fetch[c].answer.content)
  /\ UNCHANGED <<shown, changes>>

Answered(c) == ReadCache(c) \/ NotModified(c) \/ Modified(c) \/ NotFound(c) \/ Put(c)

-----------------------------------------------------------------------------
\* Whatever clients do to the document in between, a call returns what GitHub
\* showed at some moment of that call: nothing older, and nothing made up of
\* the ETag of one version and the content of another.
FetchCurrent ==
  \A c \in Clients :
    fetch[c].pc = "done" /\ fetch[c].result # Failed => fetch[c].result \in fetch[c].seen
=============================================================================
