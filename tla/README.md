# A model of the cohort digest bot

cohort-bot posts a daily digest of GitHub commits and Substack posts to Discord
channels. It is a set of short HTTP handlers on Cloud Run: Cloud Scheduler starts
one, Cloud Tasks delivers the work it hands out, GitHub and Discord call others,
and all they share is a handful of Firestore documents. Nothing is transactional.
What can go wrong lies between the calls of one handler, between two handlers,
and between a handler that died and its retry. This directory models that, checks
it with TLC on small instances, and proves most of its safety for any number of
sources, commits, workers and faults with TLAPS.

## The system

| part | state | operations | who calls it |
|---|---|---|---|
| fan-out, `pipeline.run_fanout` | none of its own | list documents, post a header per group, enqueue a task per document, log the heartbeat | Cloud Scheduler once a day; Cloud Tasks for the admin's test button |
| delivery, `process_user`, `process_repo`, `process_installation` | `processed_commits` (90 days), `last_cursor` of users and repositories | fetch, filter, deduplicate, summarise, post, record, advance the cursor | Cloud Tasks, queue digest-fanout, three attempts |
| publications, `process_publication` | `processed_posts`, `last_cursor` | the same over an RSS feed | Cloud Tasks |
| tracked documents | `tracked_users`, `tracked_publications`, `tracked_repos`, `installations`, `members`, `config` | add, remove, disable, upsert, set_cursor | `/track`, the admin panel, the webhook, the handlers above |
| GitHub App webhook | `tracked_repos`, `installations`, `members` | `process_webhook_event` | GitHub, concurrently, without order or retry |
| commands | an interaction token for 15 minutes | `dispatch`: answer at once, or defer to the queue followups; `run_followup` | Discord; Cloud Tasks |
| on-demand digests | none | `on_demand`, `on_demand_substack`, `format_digest`, `format_substack` | `run_followup`, for /digest and /substack |
| GitHub client | `repo_cache` with its ETags, App tokens | `fetch_repo`, paging, bounded retries of rate limits | the handlers |

What makes it correct, part by part:

- *Delivery*: no signal commit that a source shows is lost; it is recorded only
  when it was reported; it is reported again only for a reason one can name.
- *Fan-out*: one failed enqueue costs one source one day, never a second header;
  a heartbeat means a header; the header and the sections go to the same channel.
- *Tracked documents*: what an admin removes stays removed, what is added can be
  listed and starts at the time it was added (the runs show where this fails).
- *Webhook*: once events are handled the store agrees with GitHub; a repository is
  scanned for a member only with that member's consent.
- *Member digests*: a section shows a private repository only if the installation
  let the bot read it while the handler ran, whatever became of the events.
- *Publications*: of posts dated after the cursor nothing is lost but what a fetch
  cuts off; an edited post is not posted again while the ledger remembers it.
- *Commands*: while Discord shows that the bot is thinking, a task pursues the
  answer; the answer is not older than the command; and it comes.
- *Cache*: concurrent conditional requests never make up an answer out of the ETag
  of one version and the content of another.
- *On-demand digests*: an answer leaves out nothing of its window, invents nothing,
  and its pages lose no section.

The hard behaviours are at-least-once tasks (a delivery may be repeated while its
handler runs on), crashes between two Firestore writes, writes that merge into
documents deleted since they were read, events out of order, the ledger's TTL
against cursors that never expire, and the bounds of the two fetches. They are
listed line by line under "hazards" in PROJECT.json.

## The modules

### Reporting and Delivery

`Delivery` models the three commit handlers at the level of single calls. A
*source* is a user or a repository; a *task* scans one source, or, for an
installation, all repositories linked to it. Variables: `ledger` is
processed_commits (the expire_at of each document), `cursor` is last_cursor,
`queue` the waiting deliveries, `job[w]` the local variables of the handler that
worker `w` runs, `pushedAt` and `dated` what GitHub shows. Actions, in the order
of the code:

| action | code |
|---|---|
| `Enqueue`, `Start` | `enqueue_digest_*`; the reads of the source documents |
| `Fetch`, `FetchPartly` | `fetch_user_commits_since` (push time), `fetch_commits_since` (committer date); a push that cannot be resolved |
| `Check` | `has_sha`, one commit at a time |
| `NothingNew` | `return False` |
| `Post`, `PostUnconfirmed` | `post_channel_message`, with a good answer or without |
| `Record` | `record_shas`, one repository at a time |
| `SetCursor` | `set_cursor`, after the section it belongs to is recorded |
| `Fail`, `Timeout` | the handler raises or its instance dies; the queue gives up on a handler that runs on |
| `Expire` | the TTL policy |

The constants choose the instance: which commits a user pushed, which repository
they are in, which repositories are linked to which installation, which commits
are signal (the set `_is_low_signal` lets through). A page is `PageCap` commits,
the rest of the order being free among equal times.

`Reporting` is the promise in five variables: a commit is shown, reported,
recorded, or dropped by a fetch, and a source *settles* only commits that are
recorded or dropped. `Delivery` implements it under the mapping `Promise`: a
source has settled what lies behind its cursor. The property is `KeepsPromise`.
`Publications` implements it too, with one source and posts in the place of commits.

`posts`, `logged`, `missed` and `expired` are history variables: no guard reads
them.

### Fanout

One fan-out is a sequence of steps: the config and four lists are read one
after the other (`StartRun`, `ReadList`), then each group's header is posted and
its users are enqueued (`PostHeader`, `SkipGroup`, `Send`, `SendFails`), then the
other collections, then the heartbeat (`Beat`). Meanwhile admins add, remove and
configure, other fan-outs run, and workers serve tasks: they read the document
again (`Begin`), post a section (`Publish`), and merge the cursor into the
document (`WriteCursor`), which creates the document if it is gone. A document is
five facts: stored, holds its own key, enabled, holds a cursor,
and its group. `SendCrashes` is the KeyError of a document without its key.
An addition is two calls, as in the code: `AddReads` looks whether the document
exists, `AddWrites` writes what follows from that answer, and anything may happen in
between; the history variable `torn` remembers a removal that did. `RunTimeout` and
`JobTimeout` are deliveries that outlive their deadline: the queue delivers the task
again while the handler goes on.

### Installations

GitHub's side (`gh`, `shared`) changes and sends an event for each change. A
webhook request takes an event and makes the Firestore calls of
`process_webhook_event` in order, one action per call whose result or effect matters:
`tracked_repos.add` is two, `AddReads` and `AddWrites`, because what it writes depends on
what it read, for the webhook as for admins (`AdminAddReads`, `AdminAddWrites`, between
which anything may happen). The two `upsert`s also read first, but only to give a new
document a timestamp that nothing reads, so each is one action. A loop over
repositories is one action (or these two) per repository. `InOrder` says whether events
are handled one after the other or in any order; with `HandlerFails` a request dies
between two calls and the operator redelivers its event.

### MemberDigest

`MemberDigest` composes `process_installation` with `Installations`: it extends that
module, its `Elsewhere` is a step of it, and its handlers read and write the same
documents. `Begin` reads the installation, `List` the linked repositories, `Mint`
asks for a token, `Scan` reads one repository, `Post` posts the one section, `Write`
records and merges the cursor of one repository. GitHub revokes access at once, the
documents follow when the event is handled, and the handler holds its own list
throughout. `open` in a job is a history: what the installation let the bot read at
some time since the handler began. `Public` repositories are readable with any token.

### RepoCache and Followups

`RepoCache` is `fetch_repo`: `ReadCache`, then a conditional request that ends in
`NotModified` (answer from the copy that was read), `Modified` and `Put` (overwrite the
whole document), `NotFound`, `RateLimited` or `CallFails`. A version is one body; its
ETag depends on the body alone, and GitHub may send none. The repository may change,
return to an earlier version, or vanish during a call.

`Followups` extends it with the life of a deferred command. At Discord an interaction
is unsent, waiting (three seconds), deferred (15 minutes) or over. `Invoke`, `Reject`,
`Enqueue`, `EnqueueFails` and `Acknowledge` are the steps of `dispatch`, which creates
the task before it answers; so the task's handler may try to edit a message that
does not exist yet, which Discord refuses (`EditRefused`). `Start`, `Fetched`, `Build`,
`Edit` and their failures are `run_followup`; `BuildUnreachable` is /publication, which
answers that its feed cannot be read instead of raising; `Raises` is the answer 500
that makes the queue deliver again. Each worker is a client of the cache.

### OnDemand

One handler of `/digest` or `/substack`: `Begin` takes a window of some days (`Windows`,
for `_WINDOW_DAYS`) from the clock, `List` the enabled sources, `ReadPage` one page of a
user's events, `ReadFeed` a feed, `Compute` keeps what is signal, `AllRead` has the
answer. Feeds grow at the front while they are paged through, so that an event may move
to the next page and be read twice. The answer itself is the operators `Pages`
(`format_digest`) and `Embeds` (`format_substack`), pure folds over the sections.

### Publications

The handler of one publication over a feed: exclusive bound (`Newer`), the newest
`Limit` posts (`Newest`), feeds that cannot be read and are skipped (`FeedSkipped`). The
author chooses the dates, in the past or in the future of the clock, when a post
appears (`Publish`) and when it is edited (`Republish`), and items leave the feed
(`FallOff`). Two history variables name what the code loses: `late` are posts whose date
the cursor, or a handler about to move it, had passed when they got it; `missed` those
that a fetch cut off or that were gone before one; all others must be recorded.

## The runs

Passing runs explore the whole state space of their instance.

| run | instance | shows |
|---|---|---|
| delivery_race | 1 user, 1 repository, 2 shared commits, 2 workers, no fault | `NothingSkipped`, `BoundedRepeats` under races |
| delivery_faults | 1 user and 1 installation sharing a commit in each of 2 repositories, 1 worker, 2 faults, late dates | `TypeOK`, `LedgerOnlyReported`, `BoundedRepeats`, `KeepsPromise` across the several writes of one message |
| delivery_live | 1 user, 1 repository, 3 commits of which one is noise, 1 worker, 1 fault, page cap 1, fairness | `EventuallyReported` |
| fanout_run | 2 users in any groups, 1 installation, 2 concurrent fan-outs, a fault or deadline | `TypeOK`, `HeadersBounded`, `HeartbeatMeansHeader`, `NobodyForgotten` |
| fanout_serve | 1 user, 1 repository, 1 fan-out, 1 worker, 3 edits, a fault or deadline | `HeadersBounded` with fan-outs that crash on a nameless document; `OwnChannel`, `NoBackCatalog`, `OnlyAdminsEnable` |
| members_sync | 2 installations of 1 account, 2 repositories of which one is public, 1 digest handler, events in order, with failures and repetitions | `TypeOK`, `JobTypeOK`, `Synced`, `SectionsConsented` |
| members_chaos | 2 installations of 1 account, 1 repository, any order, 2 concurrent requests, losses, admin edits, 1 digest handler | `SectionsConsented`, `LinkNeedsConsent`, `InstallationsUsable` |
| publications_feed | 2 posts dated in the past or the future, 2 workers, limit 1, 1 edit, items that fall off, an expiry, 1 fault | `TypeOK`, `NothingSkipped`, `RepeatsExplained`, `KeepsPromise` |
| followups | 1 command of any kind (an unreadable feed included), 2 workers, any coherent cache to begin with, 2 versions, 1 change, 2 faults, fairness | `TypeOK`, `FetchCurrent`, `TaskBehindDeferral`, `AnswersTrue`, `EventuallyAnswered` |
| ondemand | 3 users with 5 events, 2 publications with 3 posts, some events older than the run, pages of 1, 2 pages, 2 days, windows of 1 and 2 days, 2 fields to a page | `TypeOK`, `DigestComplete`, `DigestSound`, `PagesFaithful` |

Two runs refute a sentence of the repository; PROJECT.json quotes it under
"findings":

| run | refuted | what happens |
|---|---|---|
| delivery_overlap | `ReportedOnce` | no fault at all: the user's task and the repository's task both look a commit up before either records it |
| installations_history | `EnabledHasCursor` | an add finds a document, an admin removes it, and the add merges into nothing: enabled without a cursor or name. Without that race the removal of an unknown repository creates such a document, and the next add enables it |

### What the models allow that the documents do not say

These follow from the models as well, and explain why some properties are worded
the way they are.

- `BoundedRepeats` counts faults because a crash between the post and the ledger
  makes the retry post again (docs/ARCHITECTURE.md:283-285 says it does not,
  docs/NEXT-STEPS.md:97-99 that it does), and counts `expired` because the inclusive
  bound fetches the boundary commit of an idle source again after the ledger forgot
  it.
- `NothingSkipped` allows `missed` because commits beyond the page cap and of pushes
  that could not be read stay behind the cursor, and speaks of prompt commits because
  a commit dated before the cursor is never fetched.
- `OwnChannel` allows the default group after a removal because `process_user`, unlike
  its siblings, serves a user whose document is gone.
- `HeartbeatMeansHeader` is about any header: a group without a channel does not
  suppress the heartbeat if the other group has one.
- `Synced` is checked in order only: an activation handled after, or during, the
  uninstall leaves repositories enabled. It leaves admins out, because adding a
  repository that is linked keeps its link: it is scanned for the member again, or,
  if the installation is disabled, by nobody.
- `RepeatsExplained` holds with either of two counts, so that a repeat needs both of
  its causes: the ledger document of the post expired, and an edit or a cursor moved
  back brought it into a fetch again. An edit alone posts nothing (docs/spec.md:150-151),
  because `has_post` finds the id; an edit with a new date after 90 days does.
- `NothingSkipped` of Publications leaves out `late` and `missed` posts: a post dated
  before the cursor, or in the second of the cursor, is never fetched, and neither is
  one published before the future date that a scheduled post moved the cursor to.
- Noise does not advance a cursor: a handler that fetched only filtered commits
  returns (src/app/digest/pipeline.py:333-334) before the line that writes it (337),
  and fetches them again the next day. That costs requests, not commits:
  delivery_live has a noise commit for it.
- A removed document may come back: a user is removed while its task runs, the cursor
  merge creates a document without username, adding the user again enables it, and
  the next fan-out raises KeyError after its header. `Fanout` has these documents
  (`SendCrashes`), so `HeadersBounded` counts `crashes`.
- `NoBackCatalog` leaves out `torn` sources: an addition that found the document, and
  writes after it was removed, enables a document without a cursor, whose next digest
  reports what docs promise never to report (src/app/store/repositories.py:221-222, 322).
- `/digest yesterday` has a lower bound only, so its answer holds today's commits; the
  window is computed when the task runs, not when the user asked. `DigestSound`
  therefore asks for events since the midnight, not for events of the day.
- A field is cut at 1024 characters and a message at 10 embeds: `DigestComplete`
  allows an event to be missing from a full field, and counts embeds.
- A feed that grows between two pages shows an event twice: `DigestSound` allows one
  copy more for each event that is newer than the listing.
- A deleted account makes every /digest fail, and one whose handler always raises is
  never answered: `EventuallyAnswered` leaves the kind "broken" out.
- `AnswersTrue` and `FetchCurrent` speak of some moment of the command or the call, not
  of its end: a repository may change after it was read.
- `SectionsConsented` is about private repositories: a public one is readable with any
  token, and is shown although its member took it back if the event is still on its
  way.

### Bounds

Every bound is a constant whose comment names it. Two commits are enough for a commit on
each side of a cursor and for two in one second; two workers for every race of a pair;
two or three seconds with a TTL of one or two for an expiry between two runs; two
attempts for a retry and the end of retries. In Publications the clock ends at two and
the dates are two and three: a post dated three is in the future all along, one dated
two is scheduled at first and, where a cursor is at three, in the past. The page cap,
three pages of 100 in the code, is one or two commits, and the limit of 20 posts is one,
so that both are reached. The real constants (90 days, 3 attempts, 300 commits) differ
only in size.

In Followups one interaction is enough for what the run shows because interactions
share nothing but the cache, and the cache starts with anything an earlier one could
have left; the two workers can serve two deliveries of its one task. Four attempts
are two faults, one early edit, and one attempt that succeeds (Cloud Tasks allows
100); the theorems are about any number of all of these. In OnDemand pages of one
event and two pages make every page boundary a place where a feed can grow. Three users
with a section each exceed the two fields of a page although their sizes fit, and the
longer field of a verbose repository (`Verbose`) exceeds the size of a page although
its number fits, so that each of the two reasons for a new page occurs without the
other.

Two installations of one account let a repository move and the account install the App
again; installations of another account would share only the repository with them, and
the properties of members_chaos never read an account. The digest of members needs one
handler: handlers share only documents, on which a handler depends through its list
alone.

`CHECK_DEADLOCK FALSE` stands in the Fanout, Installations, MemberDigest and Followups
configurations because their bounds on edits, events, triggers and interactions end
every behaviour, and an answered command is over; Delivery and Publications can
always enqueue again, OnDemand can always be asked again, and deadlock is checked there.

Workers, runners, users whose group Init chooses, repositories, posts, and the requests
and installations of members_chaos are interchangeable where a configuration declares
symmetry; it is declared only for invariants and, in publications_feed, for
`KeepsPromise`, which asks of each initial state and each step alone whether it is one
of Reporting, and asks the same of a permuted one.

### Fairness

`EventuallyReported` assumes that a handler that runs takes its steps (weak
fairness of `Step(w)`; instances are given CPU until they answer, and a handler
that dies is a fault), that the fan-out enqueues every source again and again
(weak fairness of `Enqueue(t)`; Cloud Scheduler runs daily, and a failed enqueue
is only a day's delay), and that the queue serves every waiting task in the end
(strong fairness of `StartTask(t)`, because a worker may be busy whenever it looks).
Nothing is assumed of pushes, expiry, ticks or faults; faults are finitely many.
The property leaves out commits dated before their push and commits that a fetch
dropped: those really are lost.

`EventuallyAnswered` assumes that a request that dispatches a command runs on (weak
fairness of `Dispatching(i)`; a request that dies is `DispatchDies`, a fault), that
Discord ends an interaction nobody acknowledged (weak fairness of `DeadlineMissed(i)`),
that a handler takes its steps (`Working(w)`), and that the queue serves every task
(strong fairness of `StartCommand(i)`). Nothing is assumed of changes or of rate limits:
retries of a rate limit are bounded, and giving up on one is a fault. `TokenExpires` is
possible at any time, so that a task too late for its token is part of every
behaviour; what is shown is that nothing else is left waiting.

## The proofs

Eight modules hold proofs, `Lemmas` only facts about data that the others share: the
cardinality of finite sets, induction over numbers, and what a loop over a sequence
returns. Each theorem is for all values of the constants that satisfy the named
assumptions of its module. Every invariant and action property of the runs that pass is
stated by one of them.

| module | theorems |
|---|---|
| `Delivery_proofs` | `TypeCorrect`, `LedgerSound`, `NoCommitSkipped`, `RepeatsBounded`, and `DeliveryKeepsPromise`, the refinement of Reporting |
| `Publications_proofs` | `TypeCorrect`, `CursorSkipsNothing`, `RepeatsAreExplained`, and `PublicationsKeepPromise`, its refinement of Reporting |
| `Fanout_proofs` | `TypeCorrect`, `AdminsEnable`, `CatalogStaysBack`, `SectionsInTheirChannel`, `NobodyIsForgotten`, `HeadersStayBounded`, `HeartbeatsMeanHeaders` |
| `Followups_proofs` | `TypeCorrect`, `FetchSound`, `AnswersSound`, `DeferralsBacked` |
| `MemberDigest_proofs` | of Installations `TypeCorrect`, `LinksConsented`, `EnabledUsable`; of MemberDigest `JobsTyped`, `SectionsSound`, `MembersKeepStore` |
| `Synced_proofs` | `EventsSyncStore`, `DigestsKeepSync` |
| `OnDemand_proofs` | `TypeCorrect`, `AnswersSound`, `AnswersComplete`, `PagesKeepSections` |

### Delivery

The assumptions are that users, repositories and installations are disjoint, that
a linked repository is linked to an installation, and that bounds are natural
numbers, the TTL, the cap and the attempts positive.

`TypeOK` is inductive together with `Busy` (a worker that is not idle has a task,
so its retry is a delivery of that task) and `NoAnswerDue`. The safety invariants
are not inductive: whether writing a cursor is safe depends on what the handler
did before. `IInv` therefore says of each job what it knows (`JobOK`):

- what lies behind the cursor it read is settled (recorded, or left out by a
  fetch);
- what lies behind the cursor it will write is settled, or still to be checked, or
  in `fresh`, the commits to report and record;
- what it has to check and report was shown and is signal, and after the post all
  of `fresh` was posted;
- no time in a job, and no cursor, is in the future, so that a push, which dates a
  prompt commit with the present, never lands behind one.

The last point is why `NothingSkipped` speaks of prompt commits only. The lemma
`CursorSettled` combines them at the moment of `SetCursor`. That a slow handler may
move a cursor back needs no care: less lies behind an older one. The
refinement takes each action to `Show`, `Report`, `Record`, `Drop`, `Settle`, or a
stutter.

`RepeatsBounded` counts, and so needs `WorkersFinite`: Cloud Run bounds its instances and
the requests of each. Nothing in `BoundedRepeats` itself stops a worker from posting a
commit once more. `RInv` therefore adds to the posts of a commit the workers that
`MayPost` it still: while the ledger does not know the commit, every worker that has not
just posted it; once it does, those that looked before. Posts and posters together stay
within one per worker and expiry, plus the faults. A post takes its worker off the
count, a record adds nobody, an expiry lets every worker in again, and a handler that
dies after its post is a fault. `SInv` says where a job has its commits from, the sources
of its task, so that the record of a task's last source leaves none of them out.

### Publications

The invariant has the shape of Delivery's. `Accounted` says that what is dated up to a
cursor is recorded, `missed` (cut off by the limit, or gone), or in the hands of the job
that will write that cursor, or `late`. A post gets its date in one step and is late if
any cursor, or the cursor that any handler will write, is there already; hence a date
that is not late lies beyond all of them and nothing has to be shown of it yet. An item
that falls off without being `late` or recorded is `missed`.

`RepeatsAreExplained` proves two bounds, each by counting as in Delivery. The one from
the cursor (`Explained`): `Carrying` are the workers that have the post in hand,
`Returning` those whose cursor may bring it back, and the posts with both stay within
what edits, cursors moved back, workers and faults explain; it needs nothing of the
ledger. The one from the ledger (`Within`): `Posters` are the workers that may still
post, all of them while the ledger does not know the post and those that looked before
once it does; it needs nothing of dates. A repeat must pass both.
`PublicationsKeepPromise` maps the steps as in Delivery.

### Fanout

The assumption these proofs rest on is that the four collections are disjoint: a document
is in one of them. `Typed` adds to `TypeOK` that a worker which is not idle serves a source.

- `AdminsEnable` is about single steps and needs the types only.
- `NoBackCatalog` follows from `Kept`: outside of `torn`, a stored publication or repository
  keeps the cursor its addition gave it, so that no handler begins without one.
- `OwnChannel` needs `Membership`, because a section appears long after its group was
  read: the group of every document, and of every job, is one an admin chose.
- `NobodyForgotten` is about the end of a run. `Listing` says of the time before that a
  source that stayed enabled is sent, failed, still to be sent, or in a list that is
  still to be read.
- `HeadersBounded` needs the headers that are yet to come: `HeadersDue` adds the digest
  deliveries that wait and the runs that lack the header. A trigger adds one to both
  sides, a post turns a header that is due into one that is there, and a run that
  raises or outlives its deadline gives back one delivery and is a fault or a crash.
- `HeartbeatMeansHeader` likewise adds the runs that have posted a header and have not
  logged yet.

### Followups and RepoCache

`Typed` is `TypeOK` with two facts that make it inductive: a handler that is not idle
serves some command, and an answer that is to be stored is there. `CacheSound` is the
reason `fetch_repo` is right without a lock: the shared document and every copy of it
is `Coherent`, its ETag belongs to its content, so that a copy GitHub confirms is the
body GitHub shows; and a call's answer is among what it has `seen`. `Sound` carries that
to the user: what a call has seen since it began, the repository showed since the
command was sent, hence each `answer` and `message` is in `asked`. `Backed` is
`TaskBehindDeferral` strengthened by the requests that are still to answer: an
interaction whose dispatcher is at "respond" has a task already, which is why the
order of the two calls in `dispatch` matters.

### Installations and MemberDigest

`LinkNeedsConsent` is not inductive because an event on the wire, or half handled,
carries a repository to a document long after GitHub sent it. `IInv` has one part per
place such a fact can be: `GitHubOK` (what is shared was consented to), `WireOK` (events
name only what was consented to), `HooksOK` (a request handles an honest event and its
rest, and what its add read is of that rest), `StoreOK` (links, and what an enabled
installation holds).

MemberDigest proves `MInv`, which is `IInv` with `JobTypeOK` and `JobSound`: what a handler
has found is public or in `open`. A step of `Elsewhere` keeps the first by the theorem of
Installations and only enlarges `open`; a step of a handler touches one field of one
document, which `StoreOK` does not read. Thus `MembersKeepStore`: the guarantees of the
webhook hold with digests in flight.

### Synced

`Synced` is no invariant of the webhook as it is: handled out of order, or with an admin's
edit between two events, the store ends up wrong, as said above. Both theorems therefore
assume `OneByOne`: events in order, one request at a time, no edits by admins. That is
the setting of the run members_sync, for any number
of installations, accounts, repositories, events and failures; a handler may still die
between two calls, and an event may come twice.

What makes the store right in the end is that every event tells the truth of its time
and the last one tells it of now. `SyncInv` says so for each part of the store on its
own: an installation (`InstTold`), a member (`MemberTold`), the link of one repository
to one installation (`LinkTold`). For each, `Told` says that the last event on the wire
that matters to the part agrees with GitHub; that without such an event, the one being
handled does; and that once the request has nothing left to write there, the document
does. The lemmas `NewsTold`, `OtherNewsTold`, `ReceivedTold`, `FailedTold`,
`RepeatedTold` are about sequences and know nothing of documents: what happens to `Told`
when an event is sent, taken, put back at the front, or doubled. `Sound` holds the rest:
GitHub's own order (`Orderly`: a repository is shared with one installation, an account
has one that is present), what an event can say (`Shaped`), and which calls a request
has left at each stage (`Underway`). `DigestsKeepSync` adds the digests: they merge a
cursor, which no part of `Told` reads.

### OnDemand

The assumptions: users and publications are disjoint; `Listing` has each source once; an
event belongs to one source, and one of a user to a repository; page size, limits
and the length of a day are positive.

What the operators of this module compute is a loop over a sequence: `Only` (a
comprehension), `ReposOf`, `SizeOf`, `Pages`, `FlattenSeq`. `Lemmas` proves by induction
over the length of the sequence that a fold is a run of its loop: there is a
function `f` with `f[0]` the start, `f[n]` one step of the body from `f[n - 1]`, and the
fold its last value (`FoldExists`, `LoopRuns`; `LoopsAgree` says that two runs of the
same loop return the same). The theorems on induction of the library take an operator,
which the provers cannot instantiate; `Induction` is about a set of numbers instead
and follows from the least element of a set of naturals, `WFMin`. A fact about an
operator is then an induction over `n` of a fact about `f[n]`.

`Typed` adds to `TypeOK` what makes it inductive: an event stands in the feed of its
source, no event is dated after now, what is known is on its feed (`FeedOK`), and the
handler has in each phase what it needs there (`Phase`).

`DigestSound` follows from `Honesty`. The hard part of it is that an event is counted
twice only if its feed grew. A page is cut at a place of the feed, and a feed grows
at the front, so that an event moves down by one place for each event that came late,
and is read again once it moves past a boundary. `Shifted` counts this while the
pages are read: the place of an event and its copies so far are together at most the
places read, the late events and one. The place is at least 1, and what is
computed is `Genuine`: one copy, and one for each late event. `OneSection` says that a
source whose section is made is not waiting any more.

`DigestComplete` follows from `Coverage`. An event that was known when the sources were
listed only moves down, so that no page skips it: after `n` pages, all that is known and
in the window among the first `n * PageSize` places has been read (`SoFar`). The last
page is the one that is not full, that goes beyond the window (feeds are newest
first, by `TypeOK`), or that is the last allowed; in each case `Whole` follows from
`SoFar`. `Covered` carries it to the sections of the sources that are done; there the
window can only shrink, because an event that leaves the first places does not come
back. What `Pages` and `Embeds` do with the sections is a fact about folds.

`PagesFaithful` is a fact about the fold of `format_digest` for every sequence of
sections: by induction over the sections laid out (`LaidOut`), the pages so far flatten to
the fields so far and are `Neat`, whether the next field begins a page (`PageBegun`) or
extends the last one (`PageExtended`).

### Only model-checked

Liveness (`EventuallyReported`, `EventuallyAnswered`), and `Synced` beyond `OneByOne`,
which is false there.

## Not modelled, and what comes next

Not modelled because there is no behaviour to get wrong: the summarizer (one call,
whose failure is a failure of its handler), configuration, logging, start-up, request
authentication, registration of commands, provisioning, the page of the admin panel,
the text of summaries and embeds. The low-signal filter is a constant set, since
nothing but membership matters. Branches and contributors are reads whose content
is a version of the repository. A handler makes its own App tokens and drops them, so
that the expiry of the token cache is never reached.

Simplifications: the documents of Delivery always exist; Fanout ignores what a
section contains; outside RepoCache a GitHub request succeeds or raises in one step; a
fetch of Delivery is a set, so that one commit in two pushes is one commit; a scan of
MemberDigest finds commits or none.

What is left: a fetch of Delivery as a sequence of pushes, for the commit that is in two
of them.
