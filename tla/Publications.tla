---------------------------- MODULE Publications ----------------------------
(***************************************************************************)
(* Scheduled delivery of the posts of one tracked publication.             *)
(*                                                                         *)
(* process_publication follows the order of Delivery (post, record, move   *)
(* the cursor) over a different source: an RSS feed, read whole, of which  *)
(* only the newest items are kept, with an exclusive lower bound.  The     *)
(* author chooses the dates in it: a post may be dated in the past or in   *)
(* the future, an edited one comes back under the same id with a new date, *)
(* and an item falls off when newer ones push it out.  A feed that cannot  *)
(* be read is skipped, not retried.                                        *)
(*                                                                         *)
(* Time is counted in seconds from 1.  The document of the publication     *)
(* stays enabled; its life cycle is the subject of Fanout.                 *)
(***************************************************************************)
EXTENDS Integers, FiniteSets, Functions

CONSTANTS
  Posts,        \* ids of the posts the feed may show
  Workers,      \* concurrent requests
  Limit,        \* posts kept of one fetch (limit of fetch_posts_since)
  TTL,          \* lifetime of a processed_posts document
  MaxAttempts,  \* deliveries of one task (FANOUT_MAX_ATTEMPTS)
  Dates,        \* bound: the dates the author gives to posts
  MaxEdits,     \* bound: new dates given to posts
  MaxTime,      \* bound: last second of a behaviour
  MaxFaults     \* bound: failed and lost calls

ASSUME PublicationsAssumption ==
  /\ {Limit, TTL, MaxAttempts, MaxTime} \subseteq Nat \ {0}
  /\ {MaxEdits, MaxFaults} \subseteq Nat
  /\ Dates \subseteq Nat \ {0}

\* Cloud Run bounds its instances and the requests of each.
ASSUME WorkersFinite == IsFiniteSet(Workers)

VARIABLES
  now,
  published,  \* pubDate of each post, 0 before it is published
  gone,       \* posts that fell off the feed
  ledger,     \* processed_posts: expire_at of the post's document, 0 if none
  cursor,     \* last_cursor of the publication
  queue,      \* attempt numbers of the deliveries that wait
  job,        \* what each worker is doing
  faults,
  posts,      \* history: messages that reported the post
  logged,     \* history: posts ever recorded
  missed,     \* history: posts cut off by the limit, or gone before a fetch
  edited,     \* history: new dates each post was given
  expired,    \* history: ledger documents of the post that expired
  late,       \* history: posts whose date had been passed when they got it
  rewound     \* history: times a slow handler moved the cursor back

feed    == <<now, published, gone>>
store   == <<ledger, cursor>>
history == <<posts, logged, missed, edited, expired, late, rewound>>
vars    == <<feed, store, queue, job, faults, history>>

Times == {0, 1} \union Dates

Job ==
  [ pc        : {"idle", "fetch", "check", "post", "record", "cursor"},
    attempt   : 0 .. MaxAttempts,  \* 0 once the queue stopped waiting for it
    since     : Times,
    unchecked : SUBSET Posts,
    fresh     : SUBSET Posts,
    upto      : Times ]

Idle ==
  [pc |-> "idle", attempt |-> 0, since |-> 0, unchecked |-> {}, fresh |-> {}, upto |-> 0]

\* The feed, the documents and the local state of each handler keep their
\* shape: no delivery is repeated beyond the attempts of the queue, and the
\* cursor is the date of a post or the time the publication was added.
TypeOK ==
  /\ now \in 1 .. MaxTime
  /\ published \in [Posts -> Times]
  /\ gone \subseteq Posts
  /\ ledger \in [Posts -> Nat]
  /\ cursor \in Times
  /\ queue \subseteq 1 .. MaxAttempts
  /\ job \in [Workers -> Job]
  /\ faults \in 0 .. MaxFaults
  /\ posts \in [Posts -> Nat]
  /\ logged \subseteq Posts /\ missed \subseteq Posts
  /\ edited \in [Posts -> Nat]
  /\ expired \in [Posts -> Nat]
  /\ late \subseteq Posts
  /\ rewound \in Nat

\* The cursor of a new publication is the time it was added.
Init ==
  /\ now = 1
  /\ published = [p \in Posts |-> 0]
  /\ gone = {}
  /\ ledger = [p \in Posts |-> 0]
  /\ cursor = 1
  /\ queue = {}
  /\ job = [w \in Workers |-> Idle]
  /\ faults = 0
  /\ posts = [p \in Posts |-> 0]
  /\ logged = {} /\ missed = {}
  /\ edited = [p \in Posts |-> 0]
  /\ expired = [p \in Posts |-> 0]
  /\ late = {}
  /\ rewound = 0

Becomes(w, j) == job' = [job EXCEPT ![w] = j]

-----------------------------------------------------------------------------
Tick ==
  /\ now < MaxTime
  /\ now' = now + 1
  /\ UNCHANGED <<published, gone, store, queue, job, faults, history>>

\* The cursor, or a handler that will move it, is already at t or beyond.
Passed(t) == t <= cursor \/ \E w \in Workers : t <= job[w].since \/ t <= job[w].upto

Dated(p, t) ==
  /\ published' = [published EXCEPT ![p] = t]
  /\ late' = IF Passed(t) THEN late \union {p} ELSE late \ {p}

Publish(p, t) ==
  /\ published[p] = 0
  /\ Dated(p, t)
  /\ UNCHANGED <<now, gone, store, queue, job, faults, posts, logged, missed, edited, expired, rewound>>

Edits == FoldFunction(+, 0, edited)

\* The post is edited and keeps its id, but not its date.
Republish(p, t) ==
  /\ published[p] \notin {0, t}
  /\ p \notin gone
  /\ Edits < MaxEdits
  /\ Dated(p, t)
  /\ edited' = [edited EXCEPT ![p] = @ + 1]
  /\ UNCHANGED <<now, gone, store, queue, job, faults, posts, logged, missed, expired, rewound>>

\* Newer items push the post out of the feed.
FallOff(p) ==
  /\ published[p] # 0 /\ p \notin gone
  /\ \E q \in Posts \ gone : published[q] > published[p]
  /\ gone' = gone \union {p}
  /\ missed' = IF published[p] > cursor THEN missed \union {p} ELSE missed
  /\ UNCHANGED <<now, published, store, queue, job, faults, posts, logged, edited, expired, late, rewound>>

Expire(p) ==
  /\ ledger[p] # 0 /\ ledger[p] <= now
  /\ ledger' = [ledger EXCEPT ![p] = 0]
  /\ expired' = [expired EXCEPT ![p] = @ + 1]
  /\ UNCHANGED <<feed, cursor, queue, job, faults, posts, logged, missed, edited, late, rewound>>

\* The daily fan-out enqueues the task.
Enqueue ==
  /\ queue' = queue \union {1}
  /\ UNCHANGED <<feed, store, job, faults, history>>

-----------------------------------------------------------------------------
\* The queue repeats a failed delivery until MaxAttempts.
Retry(w) == IF job[w].attempt \in 1 .. MaxAttempts - 1 THEN {job[w].attempt + 1} ELSE {}

Fault == faults < MaxFaults /\ faults' = faults + 1

\* The handler raises or its instance dies.
Abort(w) ==
  /\ Fault
  /\ queue' = queue \union Retry(w)
  /\ Becomes(w, Idle)

Fail(w) ==
  /\ job[w].pc # "idle"
  /\ Abort(w)
  /\ UNCHANGED <<feed, store, history>>

\* The queue repeats a delivery whose handler still runs.
Timeout(w) ==
  /\ job[w].attempt # 0
  /\ Fault
  /\ queue' = queue \union Retry(w)
  /\ Becomes(w, [job[w] EXCEPT !.attempt = 0])
  /\ UNCHANGED <<feed, store, history>>

Start(w, attempt) ==
  /\ job[w].pc = "idle"
  /\ attempt \in queue
  /\ queue' = queue \ {attempt}
  /\ Becomes(w, [Idle EXCEPT !.pc = "fetch", !.attempt = attempt, !.since = cursor])
  /\ UNCHANGED <<feed, store, faults, history>>

\* _parse_items keeps what is strictly newer.
Newer(since) == {p \in Posts \ gone : published[p] > since}

\* The newest posts, at most Limit of them.
Newest(S, kept) ==
  /\ kept \subseteq S
  /\ \A p \in kept, q \in S \ kept : published[p] >= published[q]
  /\ IF Cardinality(S) <= Limit THEN kept = S ELSE Cardinality(kept) = Limit

Fetch(w) ==
  LET new == Newer(job[w].since) IN
  /\ job[w].pc = "fetch"
  /\ new # {}
  /\ \E kept \in SUBSET new, t \in Times :
       /\ Newest(new, kept)
       /\ \A p \in kept : published[p] <= t
       /\ \E p \in kept : published[p] = t
       /\ Becomes(w, [job[w] EXCEPT !.pc = "check", !.since = 0, !.unchecked = kept, !.upto = t])
       /\ missed' = missed \union (new \ kept)
  /\ UNCHANGED <<feed, store, queue, faults, posts, logged, edited, expired, late, rewound>>

NothingFetched(w) ==
  /\ job[w].pc = "fetch"
  /\ Newer(job[w].since) = {}
  /\ Becomes(w, Idle)
  /\ UNCHANGED <<feed, store, queue, faults, history>>

\* Mutant of FeedSkipped: the cursor moves on although the feed was not read.
FeedSkippedMovesOn(w) ==
  /\ job[w].pc = "fetch"
  /\ Fault
  /\ cursor' = now
  /\ Becomes(w, Idle)
  /\ UNCHANGED <<feed, ledger, queue, history>>

\* A SubstackError is logged and the task answers with success.
FeedSkipped(w) ==
  /\ job[w].pc = "fetch"
  /\ Fault
  /\ Becomes(w, Idle)
  /\ UNCHANGED <<feed, store, queue, history>>

\* Mutant of Check: the ledger is not looked at.
CheckFindsNothing(w, p) ==
  LET fresh == job[w].fresh \union {p}
      last  == job[w].unchecked = {p} IN
  /\ job[w].pc = "check"
  /\ p \in job[w].unchecked
  /\ Becomes(w, [job[w] EXCEPT !.pc = IF last THEN "post" ELSE "check",
                               !.unchecked = @ \ {p}, !.fresh = fresh])
  /\ UNCHANGED <<feed, store, queue, faults, history>>

\* has_post on one post.  When nothing is new after the last one, the handler
\* returns.
Check(w, p) ==
  LET fresh == IF ledger[p] = 0 THEN job[w].fresh \union {p} ELSE job[w].fresh
      last  == job[w].unchecked = {p} IN
  /\ job[w].pc = "check"
  /\ p \in job[w].unchecked
  /\ Becomes(w, IF last /\ fresh = {} THEN Idle
                ELSE [job[w] EXCEPT !.pc = IF last THEN "post" ELSE "check",
                                    !.unchecked = @ \ {p}, !.fresh = fresh])
  /\ UNCHANGED <<feed, store, queue, faults, history>>

Reported(w) ==
  posts' = [p \in Posts |-> IF p \in job[w].fresh THEN posts[p] + 1 ELSE posts[p]]

Post(w) ==
  /\ job[w].pc = "post"
  /\ Reported(w)
  /\ Becomes(w, [job[w] EXCEPT !.pc = "record"])
  /\ UNCHANGED <<feed, store, queue, faults, logged, missed, edited, expired, late, rewound>>

\* Discord accepts the message and the answer is an error.
PostUnconfirmed(w) ==
  /\ job[w].pc = "post"
  /\ Reported(w)
  /\ Abort(w)
  /\ UNCHANGED <<feed, store, logged, missed, edited, expired, late, rewound>>

\* record_posts writes one batch.
Record(w) ==
  /\ job[w].pc = "record"
  /\ ledger' = [p \in Posts |-> IF p \in job[w].fresh THEN now + TTL ELSE ledger[p]]
  /\ logged' = logged \union job[w].fresh
  /\ Becomes(w, [job[w] EXCEPT !.pc = "cursor"])
  /\ UNCHANGED <<feed, cursor, queue, faults, posts, missed, edited, expired, late, rewound>>

\* Mutant of SetCursor: one second further, as for an inclusive bound.
SetCursorBeyond(w) ==
  /\ job[w].pc = "cursor"
  /\ cursor' = job[w].upto + 1
  /\ rewound' = IF cursor' < cursor THEN rewound + 1 ELSE rewound
  /\ Becomes(w, Idle)
  /\ UNCHANGED <<feed, ledger, queue, faults, posts, logged, missed, edited, expired, late>>

SetCursor(w) ==
  /\ job[w].pc = "cursor"
  /\ cursor' = job[w].upto
  /\ rewound' = IF cursor' < cursor THEN rewound + 1 ELSE rewound
  /\ Becomes(w, Idle)
  /\ UNCHANGED <<feed, ledger, queue, faults, posts, logged, missed, edited, expired, late>>

Handler(w) ==
  \/ \E attempt \in queue : Start(w, attempt)
  \/ Fetch(w) \/ NothingFetched(w) \/ FeedSkipped(w)
  \/ \E p \in Posts : Check(w, p)
  \/ Post(w) \/ PostUnconfirmed(w)
  \/ Record(w) \/ SetCursor(w)
  \/ Timeout(w) \/ Fail(w)

Next ==
  \/ Tick \/ Enqueue
  \/ \E p \in Posts, t \in Dates : Publish(p, t) \/ Republish(p, t)
  \/ \E p \in Posts : FallOff(p) \/ Expire(p)
  \/ \E w \in Workers : Handler(w)

Spec == Init /\ [][Next]_vars

-----------------------------------------------------------------------------
\* The cursor reaches a post only once it is reported and recorded, was cut off
\* by the limit or left the feed before a fetch, whatever failed, was retried
\* or ran concurrently.  A post dated where the cursor, or a handler on its way
\* to move it, already was is left out: the exclusive bound can lose it.
NothingSkipped ==
  \A p \in Posts \ late :
    published[p] # 0 /\ published[p] <= cursor => p \in logged \union missed

\* Every worker reports a post at most once and a fault costs at most one more
\* report, unless two things come together: the ledger document of the post
\* expired, and the post was edited or a slow handler moved the cursor back.
\* An edit alone reports nothing again: has_post finds the id.  Nor does an
\* expiry alone: the exclusive bound keeps the post behind the cursor.
RepeatsExplained ==
  \A p \in Posts : \A causes \in {expired[p], edited[p] + rewound} :
    posts[p] <= Cardinality(Workers) * (1 + causes) + faults

-----------------------------------------------------------------------------
(***************************************************************************)
(* The promise this module implements, see Reporting: every post is signal *)
(* and the publication is the only source.                                 *)
(***************************************************************************)
Publication == "publication"

SettledBy(t) == {p \in Posts \ late : published[p] # 0 /\ published[p] <= t}

Promise == INSTANCE Reporting WITH
  Commits  <- Posts,
  Sources  <- {Publication},
  Signal   <- Posts,
  shown    <- {p \in Posts : published[p] # 0},
  reported <- {p \in Posts : posts[p] > 0},
  recorded <- logged,
  dropped  <- missed,
  settled  <- [s \in {Publication} |-> SettledBy(cursor)]

\* Every step of the handlers is a step of the promise: only published posts
\* are reported, only reported ones recorded, and the cursor settles only posts
\* that are recorded, were cut off by the limit or left the feed too early.
KeepsPromise == Promise!Spec
=============================================================================
