------------------------------ MODULE Delivery ------------------------------
(***************************************************************************)
(* Scheduled delivery of commits to the digest channel.                    *)
(*                                                                         *)
(* Cloud Tasks delivers one task per tracked user, per directly tracked    *)
(* repository and per GitHub App installation.  The handler of each task   *)
(* (process_user, process_repo, process_installation in                    *)
(* app/digest/pipeline.py) reads the cursors of the sources it scans,      *)
(* fetches the commits at or after each cursor, keeps the signal commits   *)
(* that the shared ledger processed_commits does not hold, posts them in   *)
(* one message, and only then writes the ledger and the cursors.           *)
(*                                                                         *)
(* Handlers run concurrently, any call may raise, the instance may die     *)
(* between two writes, and the queue retries what did not answer.          *)
(*                                                                         *)
(* Time is counted in seconds, the resolution of GitHub's timestamps, and  *)
(* starts at 1, so 0 stands for an absent cursor or document.  Every       *)
(* source document exists and is enabled throughout; their life cycle is   *)
(* the subject of Fanout and Installations.                                *)
(***************************************************************************)
EXTENDS Integers, FiniteSets

CONSTANTS
  Users,        \* tracked GitHub users, read through the public events feed
  Repos,        \* tracked repositories, read through the list-commits API
  Insts,        \* GitHub App installations
  Commits,      \* commits that may be pushed, each a key repo@sha
  Workers,      \* concurrent requests the service handles
  None,         \* no installation, no task
  RepoOf,       \* the repository of a commit
  PushedBy,     \* the commits that a user's public push events introduce
  LinkOf,       \* the installation a repository is linked to, or None
  Signal,       \* the commits that _is_low_signal does not filter out
  TTL,          \* lifetime of a ledger document (PROCESSED_TTL_DAYS)
  PageCap,      \* commits that max_pages pages can hold
  MaxAttempts,  \* deliveries of one task (FANOUT_MAX_ATTEMPTS)
  MaxSkew,      \* bound: how far a committer date may precede the push
  MaxTime,      \* bound: last second of a behaviour
  MaxFaults     \* bound: failed, lost and partly answered calls

Sources == Users \union Repos

\* run_fanout gives a linked repository no task of its own: its installation
\* scans it.
Tasks == Users \union {r \in Repos : LinkOf[r] = None} \union Insts

ASSUME ConstantsAssumption ==
  /\ Users \intersect Repos = {}
  /\ Insts \intersect Sources = {}
  /\ None \notin Tasks
  /\ PushedBy \in [Users -> SUBSET Commits]
  /\ LinkOf \in [Repos -> Insts \union {None}]
  /\ Signal \subseteq Commits
  /\ TTL \in Nat \ {0}
  /\ PageCap \in Nat \ {0}
  /\ MaxAttempts \in Nat \ {0}
  /\ MaxSkew \in Nat
  /\ MaxTime \in Nat \ {0}
  /\ MaxFaults \in Nat

\* Cloud Run bounds its instances and the requests of each.
ASSUME WorkersFinite == IsFiniteSet(Workers)

Feed(s) == IF s \in Users THEN PushedBy[s] ELSE {c \in Commits : RepoOf[c] = s}

\* The sources one task scans.
Scans(t) == IF t \in Insts THEN {r \in Repos : LinkOf[r] = t} ELSE {t}

VARIABLES
  now,       \* the clock
  pushedAt,  \* when GitHub showed the commit first; 0 before
  dated,     \* its committer date
  ledger,    \* processed_commits: expire_at of the commit's document, 0 if none
  cursor,    \* last_cursor of each source, 0 for None
  queue,     \* deliveries of the digest-fanout queue waiting for a worker
  job,       \* what each worker is doing
  faults,    \* faults so far
  posts,     \* history: messages that reported the commit
  logged,    \* history: commits that were ever written to the ledger
  missed,    \* history: commits a fetch was asked for and did not return
  expired    \* history: ledger documents the TTL policy deleted, per commit

env      == <<now, pushedAt, dated>>
store    == <<ledger, cursor>>
history  == <<posts, logged, missed, expired>>
vars     == <<env, store, queue, job, faults, history>>

(***************************************************************************)
(* A job is the local state of one handler invocation.                     *)
(***************************************************************************)
Times == 0 .. MaxTime

Message == [task : Tasks, attempt : 1 .. MaxAttempts]

Job ==
  [ pc        : {"idle", "scan", "check", "write"},
    task      : Tasks \union {None},
    attempt   : 0 .. MaxAttempts,   \* 0 once the queue stopped waiting for it
    since     : [Sources -> Times], \* cursors read at the start
    todo      : SUBSET Sources,     \* sources still to be fetched
    unchecked : SUBSET Commits,     \* fetched signal commits, has_sha pending
    fresh     : SUBSET Commits,     \* to be reported; after the post, to be recorded
    upto      : [Sources -> Times], \* new_cursor of each fetched source
    owed      : SUBSET Sources ]    \* cursors still to be written after the post

Idle ==
  [ pc |-> "idle", task |-> None, attempt |-> 0,
    since |-> [s \in Sources |-> 0], todo |-> {},
    unchecked |-> {}, fresh |-> {},
    upto |-> [s \in Sources |-> 0], owed |-> {} ]

\* Documents, deliveries and the local state of each handler keep their shape:
\* a retried delivery never exceeds the attempts of the queue.
TypeOK ==
  /\ now \in 1 .. MaxTime
  /\ pushedAt \in [Commits -> Times]
  /\ dated \in [Commits -> Times]
  /\ ledger \in [Commits -> Nat]
  /\ cursor \in [Sources -> Times]
  /\ queue \subseteq Message
  /\ job \in [Workers -> Job]
  /\ faults \in 0 .. MaxFaults
  /\ posts \in [Commits -> Nat]
  /\ logged \subseteq Commits
  /\ missed \subseteq Commits
  /\ expired \in [Commits -> Nat]

\* A tracked user starts with last_cursor None, a tracked repository with the
\* time it was added, here the first second.
Init ==
  /\ now = 1
  /\ pushedAt = [c \in Commits |-> 0]
  /\ dated = [c \in Commits |-> 0]
  /\ ledger = [c \in Commits |-> 0]
  /\ cursor = [s \in Sources |-> IF s \in Users THEN 0 ELSE 1]
  /\ queue = {}
  /\ job = [w \in Workers |-> Idle]
  /\ faults = 0
  /\ posts = [c \in Commits |-> 0]
  /\ logged = {}
  /\ missed = {}
  /\ expired = [c \in Commits |-> 0]

\* The only job that changes is w's, and it becomes j.
Becomes(w, j) == job' = [job EXCEPT ![w] = j]

-----------------------------------------------------------------------------
(***************************************************************************)
(* The world: the clock, pushes to GitHub, the TTL policy of Firestore.    *)
(***************************************************************************)
Tick ==
  /\ now < MaxTime
  /\ now' = now + 1
  /\ UNCHANGED <<pushedAt, dated, store, queue, job, faults, history>>

Push(c) ==
  /\ pushedAt[c] = 0
  /\ pushedAt' = [pushedAt EXCEPT ![c] = now]
  /\ \E d \in 1 .. now :
       /\ now - d <= MaxSkew
       /\ dated' = [dated EXCEPT ![c] = d]
  /\ UNCHANGED <<now, store, queue, job, faults, history>>

\* Firestore deletes a document some time after its expire_at.
Expire(c) ==
  /\ ledger[c] # 0 /\ ledger[c] <= now
  /\ ledger' = [ledger EXCEPT ![c] = 0]
  /\ expired' = [expired EXCEPT ![c] = @ + 1]
  /\ UNCHANGED <<env, cursor, queue, job, faults, posts, logged, missed>>

-----------------------------------------------------------------------------
(***************************************************************************)
(* The queue: run_fanout (daily, or from the admin panel) enqueues the     *)
(* task of a source; an enqueue that fails is swallowed, which is the same *)
(* as this action not happening.  A delivery that fails is repeated until  *)
(* MaxAttempts.                                                            *)
(***************************************************************************)
Enqueue(t) ==
  /\ queue' = queue \union {[task |-> t, attempt |-> 1]}
  /\ UNCHANGED <<env, store, job, faults, history>>

\* Mutant of Retry: one delivery too many.
RetryOnceMore(w) ==
  IF job[w].attempt \in 1 .. MaxAttempts
  THEN {[task |-> job[w].task, attempt |-> job[w].attempt + 1]}
  ELSE {}

Retry(w) ==
  IF job[w].attempt \in 1 .. MaxAttempts - 1
  THEN {[task |-> job[w].task, attempt |-> job[w].attempt + 1]}
  ELSE {}

\* The handler raises, or its instance dies: nothing more of it happens.
Abort(w) ==
  /\ faults < MaxFaults
  /\ faults' = faults + 1
  /\ queue' = queue \union Retry(w)
  /\ Becomes(w, Idle)

Fail(w) ==
  /\ job[w].pc # "idle"
  /\ Abort(w)
  /\ UNCHANGED <<env, store, history>>

\* The dispatch deadline passes, or the answer is lost: the queue repeats the
\* delivery while the handler runs on.
Timeout(w) ==
  /\ job[w].attempt # 0
  /\ faults < MaxFaults
  /\ faults' = faults + 1
  /\ queue' = queue \union Retry(w)
  /\ Becomes(w, [job[w] EXCEPT !.attempt = 0])
  /\ UNCHANGED <<env, store, history>>

-----------------------------------------------------------------------------
(***************************************************************************)
(* The handlers.                                                           *)
(***************************************************************************)

\* A worker takes a delivery and reads the documents of the sources to scan.
Start(w, m) ==
  /\ job[w].pc = "idle"
  /\ m \in queue
  /\ queue' = queue \ {m}
  /\ Becomes(w, [Idle EXCEPT
       !.pc = "scan", !.task = m.task, !.attempt = m.attempt,
       !.todo = Scans(m.task),
       !.since = [s \in Sources |-> IF s \in Scans(m.task) THEN cursor[s] ELSE 0]])
  /\ UNCHANGED <<env, store, faults, history>>

\* The timestamp a path gives a commit: the time of the push event on the user
\* path, the committer date on the repository path.
Stamp(s, c) == IF s \in Users THEN pushedAt[c] ELSE dated[c]

\* Mutant of Reached: an exclusive lower bound.
ReachedStrictly(s, c, since) == Stamp(s, c) > since

\* Both fetches use an inclusive lower bound.
Reached(s, c, since) == Stamp(s, c) >= since

Eligible(s, since) ==
  {c \in Feed(s) : pushedAt[c] # 0 /\ Reached(s, c, since)}

\* Paging is newest first and stops at max_pages.
Paged(s, since, page) ==
  LET all == Eligible(s, since) IN
  /\ page \subseteq all
  /\ \A c \in page, d \in all \ page : Stamp(s, c) >= Stamp(s, d)
  /\ IF Cardinality(all) <= PageCap THEN page = all
     ELSE Cardinality(page) = PageCap

\* new_cursor is the newest timestamp fetched, filtered commits included.
NewCursor(s, got, t) ==
  IF got = {} THEN t = 0
  ELSE /\ \A c \in got : Stamp(s, c) <= t
       /\ \E c \in got : Stamp(s, c) = t

\* What the handler keeps of the commits fetched for s.
Keep(w, s, got) ==
  /\ \E t \in Times :
       /\ NewCursor(s, got, t)
       /\ Becomes(w, [job[w] EXCEPT
            !.pc = IF got \intersect Signal = {} THEN "scan" ELSE "check",
            !.todo = @ \ {s},
            !.unchecked = got \intersect Signal,
            !.upto = [job[w].upto EXCEPT ![s] = t]])
  /\ missed' = missed \union (Eligible(s, job[w].since[s]) \ got)

Fetch(w, s) ==
  /\ job[w].pc = "scan"
  /\ s \in job[w].todo
  /\ \E page \in SUBSET Eligible(s, job[w].since[s]) :
       /\ Paged(s, job[w].since[s], page)
       /\ Keep(w, s, page)
  /\ UNCHANGED <<env, store, queue, faults, posts, logged, expired>>

\* _commits_from_push answers a push it cannot resolve with no commits.
FetchPartly(w, s) ==
  /\ job[w].pc = "scan"
  /\ s \in job[w].todo \intersect Users
  /\ faults < MaxFaults
  /\ faults' = faults + 1
  /\ \E page \in SUBSET Eligible(s, job[w].since[s]) :
       /\ Paged(s, job[w].since[s], page)
       /\ \E got \in SUBSET page : got # page /\ Keep(w, s, got)
  /\ UNCHANGED <<env, store, queue, posts, logged, expired>>

\* Mutant of IsNew: the scheduled path runs with dedup=False.
IsNewAlways(c) == TRUE

\* The ledger has no document of the commit.
IsNew(c) == ledger[c] = 0

\* Mutant of Check: the commit is recorded as soon as it is found new.
CheckAndClaim(w, c) ==
  /\ job[w].pc = "check"
  /\ c \in job[w].unchecked
  /\ Becomes(w, [job[w] EXCEPT
       !.pc = IF job[w].unchecked = {c} THEN "scan" ELSE "check",
       !.unchecked = @ \ {c},
       !.fresh = IF IsNew(c) THEN @ \union {c} ELSE @])
  /\ ledger' = [ledger EXCEPT ![c] = IF IsNew(c) THEN now + TTL ELSE @]
  /\ logged' = logged \union {c}
  /\ UNCHANGED <<env, cursor, queue, faults, posts, missed, expired>>

\* has_sha on one commit.  After the last one the section is summarised and
\* the handler goes on to its next source.
Check(w, c) ==
  /\ job[w].pc = "check"
  /\ c \in job[w].unchecked
  /\ Becomes(w, [job[w] EXCEPT
       !.pc = IF job[w].unchecked = {c} THEN "scan" ELSE "check",
       !.unchecked = @ \ {c},
       !.fresh = IF IsNew(c) THEN @ \union {c} ELSE @])
  /\ UNCHANGED <<env, store, queue, faults, history>>

Scanned(w) == job[w].pc = "scan" /\ job[w].todo = {}

\* No section: the handler returns False and writes nothing.
NothingNew(w) ==
  /\ Scanned(w)
  /\ job[w].fresh = {}
  /\ Becomes(w, Idle)
  /\ UNCHANGED <<env, store, queue, faults, history>>

Reported(w) ==
  posts' = [c \in Commits |-> IF c \in job[w].fresh THEN posts[c] + 1 ELSE posts[c]]

Post(w) ==
  /\ Scanned(w)
  /\ job[w].fresh # {}
  /\ Reported(w)
  /\ Becomes(w, [job[w] EXCEPT
       !.pc = "write",
       !.owed = {s \in Scans(job[w].task) : job[w].fresh \intersect Feed(s) # {}}])
  /\ UNCHANGED <<env, store, queue, faults, logged, missed, expired>>

\* Discord accepts the message and the answer is an error or never arrives.
PostUnconfirmed(w) ==
  /\ Scanned(w)
  /\ job[w].fresh # {}
  /\ Reported(w)
  /\ Abort(w)
  /\ UNCHANGED <<env, store, logged, missed, expired>>

\* record_shas writes one repository's commits in one batch.  A section that
\* is recorded has its cursor written before the next one is recorded.
Record(w, r) ==
  LET batch == {c \in job[w].fresh : RepoOf[c] = r} IN
  /\ job[w].pc = "write"
  /\ batch # {}
  /\ \A s \in job[w].owed : job[w].fresh \intersect Feed(s) # {}
  /\ ledger' = [c \in Commits |-> IF c \in batch THEN now + TTL ELSE ledger[c]]
  /\ logged' = logged \union batch
  /\ Becomes(w, [job[w] EXCEPT !.fresh = @ \ batch])
  /\ UNCHANGED <<env, cursor, queue, faults, posts, missed, expired>>

\* Mutant of SetCursor: the cursor is written without waiting for the ledger.
SetCursorFirst(w, s) ==
  /\ job[w].pc = "write"
  /\ s \in job[w].owed
  /\ cursor' = [cursor EXCEPT ![s] = job[w].upto[s]]
  /\ Becomes(w, IF job[w].owed = {s} THEN Idle ELSE [job[w] EXCEPT !.owed = @ \ {s}])
  /\ UNCHANGED <<env, ledger, queue, faults, history>>

SetCursor(w, s) ==
  /\ job[w].pc = "write"
  /\ s \in job[w].owed
  /\ job[w].fresh \intersect Feed(s) = {}
  /\ cursor' = [cursor EXCEPT ![s] = job[w].upto[s]]
  /\ Becomes(w, IF job[w].owed = {s} THEN Idle ELSE [job[w] EXCEPT !.owed = @ \ {s}])
  /\ UNCHANGED <<env, ledger, queue, faults, history>>

-----------------------------------------------------------------------------
World ==
  \/ Tick
  \/ \E c \in Commits : Push(c) \/ Expire(c)

Queue ==
  \/ \E t \in Tasks : Enqueue(t)
  \/ \E w \in Workers : Timeout(w)

Step(w) ==
  \/ \E s \in Sources : Fetch(w, s)
  \/ \E c \in Commits : Check(w, c)
  \/ NothingNew(w)
  \/ Post(w)
  \/ \E c \in Commits : Record(w, RepoOf[c])
  \/ \E s \in Sources : SetCursor(w, s)

Handler(w) ==
  \/ \E m \in queue : Start(w, m)
  \/ Step(w)
  \/ \E s \in Sources : FetchPartly(w, s)
  \/ PostUnconfirmed(w)
  \/ Fail(w)

Next == World \/ Queue \/ \E w \in Workers : Handler(w)

Spec == Init /\ [][Next]_vars

-----------------------------------------------------------------------------
(***************************************************************************)
(* Safety.                                                                 *)
(***************************************************************************)

\* Pushed with a committer date that is not older than the push.
Prompt(c) == pushedAt[c] # 0 /\ dated[c] = pushedAt[c]

\* The commits of s that a fetch from t on no longer returns.
Behind(s, t) == {c \in Feed(s) \intersect Signal : Prompt(c) /\ Stamp(s, c) < t}

\* A commit is in the ledger only if some message reported it: the handlers
\* post first and record afterwards, whatever fails in between.
LedgerOnlyReported == \A c \in Commits : ledger[c] # 0 => posts[c] > 0

\* No cursor moves past a signal commit that was never reported and recorded,
\* whichever handlers raced, failed or were retried, except past one that the
\* fetch itself left out (the page cap, a push that could not be resolved).
NothingSkipped == \A s \in Sources : Behind(s, cursor[s]) \subseteq logged \union missed

\* Each worker reports a commit at most once before the ledger holds it, and
\* again only after a fault or after the TTL policy deleted its document.
BoundedRepeats ==
  \A c \in Commits :
    posts[c] <= Cardinality(Workers) * (1 + expired[c]) + faults

-----------------------------------------------------------------------------
(***************************************************************************)
(* What the repository's documents say and the code does not do.           *)
(***************************************************************************)

\* "a commit is reported once regardless of which path first sees it"; "Cloud
\* Tasks retries per-user failures without re-posting duplicates".
ReportedOnce == \A c \in Commits : posts[c] <= 1

-----------------------------------------------------------------------------
(***************************************************************************)
(* The promise this module implements, see Reporting.                      *)
(***************************************************************************)
Promise == INSTANCE Reporting WITH
  shown    <- {c \in Commits : pushedAt[c] # 0},
  reported <- {c \in Commits : posts[c] > 0},
  recorded <- logged,
  dropped  <- missed,
  settled  <- [s \in Sources |-> Behind(s, cursor[s])]

\* Every step of the handlers is a step of the promise: only shown signal
\* commits are posted, only posted ones recorded, and a cursor settles only
\* commits that are recorded or that a fetch dropped.
KeepsPromise == Promise!Spec

-----------------------------------------------------------------------------
(***************************************************************************)
(* Liveness.  A handler that runs makes progress, Cloud Scheduler enqueues *)
(* every task again and again, and the queue serves every waiting task     *)
(* sooner or later (strong fairness: a worker may be busy with another).   *)
(***************************************************************************)
StartTask(t) == \E w \in Workers, m \in queue : m.task = t /\ Start(w, m)

Fairness ==
  /\ \A w \in Workers : WF_vars(Step(w))
  /\ \A t \in Tasks : WF_vars(Enqueue(t)) /\ SF_vars(StartTask(t))

FairSpec == Spec /\ Fairness

\* Every signal commit that a tracked source shows is reported and recorded in
\* the end, if faults stop and no fetch left it out.
EventuallyReported ==
  \A c \in Signal :
    (Prompt(c) /\ \E s \in Sources : c \in Feed(s)) ~> (c \in logged \union missed)

=============================================================================
