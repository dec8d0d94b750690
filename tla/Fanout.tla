------------------------------- MODULE Fanout -------------------------------
(***************************************************************************)
(* The daily fan-out and the documents it runs over.                       *)
(*                                                                         *)
(* run_fanout lists the enabled documents of four collections, posts one   *)
(* header per group of users to the channel of the group, and enqueues one *)
(* task per document.  The handler of a task reads the document again,     *)
(* posts a section, and merges the new cursor into the document, which an  *)
(* admin may have removed, re-added or moved to another group meanwhile.   *)
(* A merge into a document that does not exist creates it.                 *)
(*                                                                         *)
(* What a section holds and how commits are deduplicated is the subject of *)
(* Delivery; here a handler posts a section or has none.                   *)
(***************************************************************************)
EXTENDS Integers, FiniteSets, Sequences

CONSTANTS
  Users,         \* ids of tracked_users documents
  Publications,  \* ids of tracked_publications documents
  Repos,         \* ids of tracked_repos documents without an installation
  Installations, \* ids of installations documents
  Digest,        \* the task /tasks/digest/run
  None,          \* no task
  Runners,       \* concurrent requests that run the fan-out
  Workers,       \* concurrent requests that serve its tasks
  Removable,     \* bound: the documents admins remove
  MaxAttempts,   \* deliveries of one task (FANOUT_MAX_ATTEMPTS)
  MaxTriggers,   \* bound: digest runs asked for
  MaxEdits,      \* bound: edits by admins
  MaxFaults      \* bound: failed calls, enqueue failures not counted

GROUPS == <<"cohort", "leaders">>
Groups == {GROUPS[i] : i \in DOMAIN GROUPS}
DEFAULT_GROUP == "cohort"

Sources == Users \union Publications \union Repos \union Installations

ASSUME FanoutAssumption ==
  /\ Users \intersect (Publications \union Repos \union Installations) = {}
  /\ Publications \intersect (Repos \union Installations) = {}
  /\ Repos \intersect Installations = {}
  /\ Digest \notin Sources /\ None \notin Sources /\ Digest # None
  /\ Removable \subseteq Sources
  /\ MaxAttempts \in Nat \ {0}
  /\ {MaxTriggers, MaxEdits, MaxFaults} \subseteq Nat

VARIABLES
  docs,      \* the four collections
  adds,      \* additions that have read their document and not yet written it
  channels,  \* config: the groups that have a channel
  queue,     \* deliveries of the digest-fanout queue waiting to be served
  run,       \* the fan-out each runner executes
  job,       \* the task each worker executes
  triggers, edits, faults,  \* what the bounds count
  headers,   \* history: headers posted to each group's channel
  beats,     \* history: heartbeats logged
  crashes,   \* history: runs that ended in a KeyError
  sections,  \* history: <<source, group>> of each section posted to a channel
  members,   \* history: <<user, group>> that admins' edits led to
  torn       \* history: sources removed between the read and the write of an add

bounded == <<triggers, edits, faults>>
history == <<headers, beats, crashes, sections, members, torn>>
vars    == <<docs, adds, channels, queue, run, job, bounded, history>>

-----------------------------------------------------------------------------
(***************************************************************************)
(* Documents.  "named" says whether the document holds its own key (the    *)
(* field username, slug, repo or installation_id), "cursor" whether it     *)
(* holds a last_cursor other than None.                                    *)
(***************************************************************************)
Document ==
  [stored : BOOLEAN, named : BOOLEAN, enabled : BOOLEAN, cursor : BOOLEAN, group : Groups]

Missing ==
  [stored |-> FALSE, named |-> FALSE, enabled |-> FALSE, cursor |-> FALSE,
   group |-> DEFAULT_GROUP]

\* add and upsert: a document that was found is only re-enabled, by a merge, and
\* one that was not is overwritten; an installation is merged in full either way.
Added(s, doc, g, found) ==
  IF found \/ s \in Installations
  THEN [doc EXCEPT !.stored = TRUE, !.enabled = TRUE, !.group = g, !.named = @ \/ s \in Installations]
  ELSE [stored |-> TRUE, named |-> TRUE, enabled |-> TRUE,
        cursor |-> s \in Publications \union Repos, group |-> g]

\* remove deletes; an installation is only disabled.
Removed(s, doc) ==
  IF s \in Installations THEN [doc EXCEPT !.stored = TRUE, !.enabled = FALSE] ELSE Missing

\* Mutant of CursorSet: the merge also marks the document as enabled.
CursorSetEnabled(doc) == [doc EXCEPT !.stored = TRUE, !.cursor = TRUE, !.enabled = TRUE]

\* set_cursor merges one field, whether the document exists or not.
CursorSet(doc) == [doc EXCEPT !.stored = TRUE, !.cursor = TRUE]

\* list_enabled of one collection.
Enabled(S) == {s \in S : docs[s].enabled}

-----------------------------------------------------------------------------
Addition == [source : Sources, group : Groups, found : BOOLEAN]

Message == [task : Sources \union {Digest}, attempt : 1 .. MaxAttempts]

\* A fan-out in progress: the lists it has read and what it has sent.
Run ==
  [ pc       : {"idle", "read", "send"},
    attempt  : 0 .. MaxAttempts,
    unread   : SUBSET {"users", "publications", "repos", "installations"},
    channels : SUBSET Groups,      \* the config it read first
    group    : [Users -> Groups],  \* the group of each listed user
    todo     : SUBSET Sources,     \* listed, not yet enqueued
    nameless : SUBSET Sources,     \* listed documents without their key
    headed   : SUBSET Groups,      \* groups whose header is posted
    sent     : SUBSET Sources,
    failed   : SUBSET Sources,     \* enqueue failed, logged and passed over
    steady   : SUBSET Sources ]    \* enabled ever since the run started

NoRun ==
  [ pc |-> "idle", attempt |-> 0, unread |-> {}, channels |-> {},
    group |-> [u \in Users |-> DEFAULT_GROUP], todo |-> {}, nameless |-> {},
    headed |-> {}, sent |-> {}, failed |-> {}, steady |-> {} ]

Job ==
  [ pc : {"idle", "post", "write"}, task : Sources \union {None},
    attempt : 0 .. MaxAttempts, group : Groups, channel : BOOLEAN, since : BOOLEAN ]

NoJob ==
  [ pc |-> "idle", task |-> None, attempt |-> 0, group |-> DEFAULT_GROUP,
    channel |-> FALSE, since |-> FALSE ]

\* Documents, deliveries, fan-outs and tasks keep their shape: no delivery is
\* repeated beyond the attempts of the queue.
TypeOK ==
  /\ docs \in [Sources -> Document]
  /\ adds \subseteq Addition
  /\ channels \subseteq Groups
  /\ queue \subseteq Message
  /\ run \in [Runners -> Run]
  /\ job \in [Workers -> Job]
  /\ triggers \in 0 .. MaxTriggers
  /\ edits \in 0 .. MaxEdits
  /\ faults \in 0 .. MaxFaults
  /\ headers \in [Groups -> Nat]
  /\ beats \in Nat
  /\ crashes \in Nat
  /\ sections \subseteq Sources \X Groups
  /\ members \subseteq Users \X Groups
  /\ torn \subseteq Sources

\* A system in service: every document was added, each user to some group.
Init ==
  /\ \E g \in [Users -> Groups] :
       /\ docs = [s \in Sources |-> Added(s, Missing, IF s \in Users THEN g[s] ELSE DEFAULT_GROUP, FALSE)]
       /\ members = {<<u, g[u]>> : u \in Users}
  /\ adds = {} /\ torn = {}
  /\ channels = Groups
  /\ queue = {}
  /\ run = [w \in Runners |-> NoRun]
  /\ job = [w \in Workers |-> NoJob]
  /\ triggers = 0 /\ edits = 0 /\ faults = 0
  /\ headers = [g \in Groups |-> 0]
  /\ beats = 0 /\ crashes = 0
  /\ sections = {}

RunBecomes(w, r) == run' = [run EXCEPT ![w] = r]
JobBecomes(w, j) == job' = [job EXCEPT ![w] = j]

\* Mutant of Redelivered: one delivery too many.
RedeliveredOnceMore(task, attempt) ==
  IF attempt \in 1 .. MaxAttempts THEN {[task |-> task, attempt |-> attempt + 1]} ELSE {}

\* The queue delivers again what was not answered with success, once.
Redelivered(task, attempt) ==
  IF attempt \in 1 .. MaxAttempts - 1 THEN {[task |-> task, attempt |-> attempt + 1]} ELSE {}

-----------------------------------------------------------------------------
(***************************************************************************)
(* Admins: /track, the admin panel and, for installations, the webhook.    *)
(***************************************************************************)
Edit == edits < MaxEdits /\ edits' = edits + 1

\* add looks the document up, and writes it in a second call, which depends on
\* what the first one found.
AddReads(s, g) ==
  /\ Edit
  /\ s \notin Users => g = DEFAULT_GROUP
  /\ adds' = adds \union {[source |-> s, group |-> g, found |-> docs[s].stored]}
  /\ UNCHANGED <<docs, channels, queue, run, job, triggers, faults, history>>

AddWrites(a) ==
  /\ a \in adds
  /\ adds' = adds \ {a}
  /\ docs' = [docs EXCEPT ![a.source] = Added(a.source, @, a.group, a.found)]
  /\ members' = members \union ({a.source} \intersect Users) \X {a.group}
  /\ UNCHANGED <<channels, queue, run, job, bounded, headers, beats, crashes, sections, torn>>

RemoveSource(s) ==
  /\ Edit
  /\ s \in Removable
  /\ docs' = [docs EXCEPT ![s] = Removed(s, @)]
  /\ run' = [w \in Runners |-> [run[w] EXCEPT !.steady = @ \ {s}]]
  /\ members' = members \union ({s} \intersect Users) \X {DEFAULT_GROUP}
  /\ torn' = IF \E a \in adds : a.source = s /\ a.found THEN torn \union {s} ELSE torn
  /\ UNCHANGED <<adds, channels, queue, job, triggers, faults, headers, beats, crashes, sections>>

\* put_config: the channel of a group is set or cleared.
PutConfig(g) ==
  /\ Edit
  /\ channels' = IF g \in channels THEN channels \ {g} ELSE channels \union {g}
  /\ UNCHANGED <<docs, adds, queue, run, job, triggers, faults, history>>

\* Cloud Scheduler calls the endpoint itself and does not repeat the call; the
\* test button of the admin panel enqueues a task, which is repeated.
Trigger(attempt) ==
  /\ triggers < MaxTriggers
  /\ triggers' = triggers + 1
  /\ queue' = queue \union {[task |-> Digest, attempt |-> attempt]}
  /\ UNCHANGED <<docs, adds, channels, run, job, edits, faults, history>>

-----------------------------------------------------------------------------
(***************************************************************************)
(* run_fanout.                                                             *)
(***************************************************************************)
StartRun(w, m) ==
  /\ run[w].pc = "idle"
  /\ m \in queue /\ m.task = Digest
  /\ queue' = queue \ {m}
  /\ RunBecomes(w, [NoRun EXCEPT
       !.pc = "read", !.attempt = m.attempt, !.channels = channels,
       !.unread = {"users", "publications", "repos", "installations"},
       !.steady = Enabled(Sources)])
  /\ UNCHANGED <<docs, adds, channels, job, bounded, history>>

\* The collections are read one after the other, in this order.
Lists == <<"users", "publications", "repos", "installations">>

Collection(name) ==
  CASE name = "users"         -> Users
    [] name = "publications"  -> Publications
    [] name = "repos"         -> Repos
    [] name = "installations" -> Installations

ReadList(w, i) ==
  LET r == run[w]
      listed == Enabled(Collection(Lists[i])) IN
  /\ r.pc = "read"
  /\ Lists[i] \in r.unread
  /\ \A k \in 1 .. i - 1 : Lists[k] \notin r.unread
  /\ RunBecomes(w, [r EXCEPT
       !.unread = @ \ {Lists[i]},
       !.pc = IF r.unread = {Lists[i]} THEN "send" ELSE "read",
       !.todo = @ \union listed,
       !.nameless = @ \union {s \in listed : ~docs[s].named},
       !.group = IF i = 1 THEN [u \in Users |-> docs[u].group] ELSE @])
  /\ UNCHANGED <<docs, adds, channels, queue, job, bounded, history>>

\* The order of the loops: users group by group, then the other collections.
Rank(r, s) ==
  CASE s \in Users         -> CHOOSE i \in DOMAIN GROUPS : GROUPS[i] = r.group[s]
    [] s \in Publications  -> Len(GROUPS) + 1
    [] s \in Repos         -> Len(GROUPS) + 2
    [] s \in Installations -> Len(GROUPS) + 3

Due(r) == {s \in r.todo : \A t \in r.todo : Rank(r, s) <= Rank(r, t)}

\* The group whose users are due, if it still lacks its header.
Unheaded(r, g) ==
  /\ r.pc = "send"
  /\ g \notin r.headed
  /\ \E u \in Due(r) \intersect Users : r.group[u] = g

PostHeader(w, g) ==
  /\ Unheaded(run[w], g)
  /\ g \in run[w].channels
  /\ headers' = [headers EXCEPT ![g] = @ + 1]
  /\ RunBecomes(w, [run[w] EXCEPT !.headed = @ \union {g}])
  /\ UNCHANGED <<docs, adds, channels, queue, job, bounded, beats, crashes, sections, members, torn>>

\* A group without a channel is logged and passed over.
SkipGroup(w, g) ==
  /\ Unheaded(run[w], g)
  /\ g \notin run[w].channels
  /\ RunBecomes(w, [run[w] EXCEPT !.todo = {s \in @ : s \in Users => run[w].group[s] # g}])
  /\ UNCHANGED <<docs, adds, channels, queue, job, bounded, history>>

Ready(r, s) ==
  /\ r.pc = "send"
  /\ s \in Due(r)
  /\ s \in Users => r.group[s] \in r.headed

Send(w, s) ==
  /\ Ready(run[w], s)
  /\ s \notin run[w].nameless
  /\ queue' = queue \union {[task |-> s, attempt |-> 1]}
  /\ RunBecomes(w, [run[w] EXCEPT !.todo = @ \ {s}, !.sent = @ \union {s}])
  /\ UNCHANGED <<docs, adds, channels, job, bounded, history>>

\* Mutant of SendFails: the first failed enqueue ends the loop.
SendFailsAndBreaks(w, s) ==
  /\ Ready(run[w], s)
  /\ s \notin run[w].nameless
  /\ RunBecomes(w, [run[w] EXCEPT !.todo = @ \ Due(run[w]), !.failed = @ \union {s}])
  /\ UNCHANGED <<docs, adds, channels, queue, job, bounded, history>>

\* Mutant of SendFails: the error of a failed enqueue is raised.
SendFailsAndRaises(w, s) ==
  /\ Ready(run[w], s)
  /\ s \notin run[w].nameless
  /\ queue' = queue \union Redelivered(Digest, run[w].attempt)
  /\ RunBecomes(w, NoRun)
  /\ UNCHANGED <<docs, adds, channels, job, bounded, history>>

\* An EnqueueError is logged, and the source misses this run.
SendFails(w, s) ==
  /\ Ready(run[w], s)
  /\ s \notin run[w].nameless
  /\ RunBecomes(w, [run[w] EXCEPT !.todo = @ \ {s}, !.failed = @ \union {s}])
  /\ UNCHANGED <<docs, adds, channels, queue, job, bounded, history>>

\* The run raises: the endpoint answers 500.
RunRaises(w) ==
  /\ queue' = queue \union Redelivered(Digest, run[w].attempt)
  /\ RunBecomes(w, NoRun)

\* user["username"] and its like raise a KeyError, which the loop does not catch.
SendCrashes(w, s) ==
  /\ Ready(run[w], s)
  /\ s \in run[w].nameless
  /\ RunRaises(w)
  /\ crashes' = crashes + 1
  /\ UNCHANGED <<docs, adds, channels, job, bounded, headers, beats, sections, members, torn>>

Fault == faults < MaxFaults /\ faults' = faults + 1

\* A read or the post of a header fails, or the instance dies.
RunFails(w) ==
  /\ run[w].pc # "idle"
  /\ Fault
  /\ RunRaises(w)
  /\ UNCHANGED <<docs, adds, channels, job, triggers, edits, history>>

\* Discord accepts a header and the answer is an error.
HeaderUnconfirmed(w, g) ==
  /\ Unheaded(run[w], g)
  /\ g \in run[w].channels
  /\ Fault
  /\ headers' = [headers EXCEPT ![g] = @ + 1]
  /\ RunRaises(w)
  /\ UNCHANGED <<docs, adds, channels, job, triggers, edits, beats, crashes, sections, members, torn>>

\* The dispatch deadline passes, or the answer is lost: the queue delivers the
\* digest again while the run goes on.
RunTimeout(w) ==
  /\ run[w].pc # "idle" /\ run[w].attempt # 0
  /\ Fault
  /\ queue' = queue \union Redelivered(Digest, run[w].attempt)
  /\ RunBecomes(w, [run[w] EXCEPT !.attempt = 0])
  /\ UNCHANGED <<docs, adds, channels, job, triggers, edits, history>>

\* Mutant of Beat: the heartbeat is logged whether a header was posted or not.
BeatAlways(w) ==
  /\ run[w].pc = "send" /\ run[w].todo = {}
  /\ beats' = beats + 1
  /\ RunBecomes(w, NoRun)
  /\ UNCHANGED <<docs, adds, channels, queue, job, bounded, headers, crashes, sections, members, torn>>

\* The end of the run: the heartbeat, if any header was posted.
Beat(w) ==
  /\ run[w].pc = "send" /\ run[w].todo = {}
  /\ beats' = IF run[w].headed # {} THEN beats + 1 ELSE beats
  /\ RunBecomes(w, NoRun)
  /\ UNCHANGED <<docs, adds, channels, queue, job, bounded, headers, crashes, sections, members, torn>>

-----------------------------------------------------------------------------
(***************************************************************************)
(* The handlers of the tasks: process_user, process_publication,           *)
(* process_repo and process_installation.                                  *)
(***************************************************************************)

\* Mutant of Served: a missing or disabled document is served as well.
ServedAlways(s) == TRUE

\* process_user serves a user whatever became of its document; the others
\* return when theirs is gone or disabled.
Served(s) == s \in Users \/ docs[s].enabled

\* The document and the config are read, in one step because no property tells
\* their order apart.  What is missing counts as the default group and no
\* cursor.  Only the sections of leaders go elsewhere than the cohort channel.
Begin(w, m) ==
  /\ job[w].pc = "idle"
  /\ m \in queue /\ m.task # Digest
  /\ queue' = queue \ {m}
  /\ JobBecomes(w,
       IF Served(m.task)
       THEN [pc |-> "post", task |-> m.task, attempt |-> m.attempt,
             group |-> docs[m.task].group, channel |-> docs[m.task].group \in channels,
             since |-> docs[m.task].cursor]
       ELSE NoJob)
  /\ UNCHANGED <<docs, adds, channels, run, bounded, history>>

\* There is nothing new.
Quiet(w) ==
  /\ job[w].pc = "post"
  /\ JobBecomes(w, NoJob)
  /\ UNCHANGED <<docs, adds, channels, queue, run, bounded, history>>

\* Mutant of Publish: every section goes to the cohort channel.
PublishToCohort(w) ==
  /\ job[w].pc = "post"
  /\ job[w].channel
  /\ sections' = sections \union {<<job[w].task, DEFAULT_GROUP>>}
  /\ JobBecomes(w, [job[w] EXCEPT !.pc = "write"])
  /\ UNCHANGED <<docs, adds, channels, queue, run, bounded, headers, beats, crashes, members, torn>>

Publish(w) ==
  /\ job[w].pc = "post"
  /\ job[w].channel
  /\ sections' = sections \union {<<job[w].task, job[w].group>>}
  /\ JobBecomes(w, [job[w] EXCEPT !.pc = "write"])
  /\ UNCHANGED <<docs, adds, channels, queue, run, bounded, headers, beats, crashes, members, torn>>

JobRaises(w) ==
  /\ queue' = queue \union Redelivered(job[w].task, job[w].attempt)
  /\ JobBecomes(w, NoJob)

\* Posting to an empty channel id is an error.
NoChannel(w) ==
  /\ job[w].pc = "post"
  /\ ~job[w].channel
  /\ JobRaises(w)
  /\ UNCHANGED <<docs, adds, channels, run, bounded, history>>

JobFails(w) ==
  /\ job[w].pc # "idle"
  /\ Fault
  /\ JobRaises(w)
  /\ UNCHANGED <<docs, adds, channels, run, triggers, edits, history>>

\* The same deadline for a task.
JobTimeout(w) ==
  /\ job[w].pc # "idle" /\ job[w].attempt # 0
  /\ Fault
  /\ queue' = queue \union Redelivered(job[w].task, job[w].attempt)
  /\ JobBecomes(w, [job[w] EXCEPT !.attempt = 0])
  /\ UNCHANGED <<docs, adds, channels, run, triggers, edits, history>>

\* The new cursor is merged into the document.  An installation has none: the
\* cursors of its repositories are written (see Delivery).
WriteCursor(w) ==
  /\ job[w].pc = "write"
  /\ docs' = IF job[w].task \in Installations THEN docs
             ELSE [docs EXCEPT ![job[w].task] = CursorSet(@)]
  /\ JobBecomes(w, NoJob)
  /\ UNCHANGED <<adds, channels, queue, run, bounded, history>>

-----------------------------------------------------------------------------
Admin ==
  \/ \E s \in Sources, g \in Groups : AddReads(s, g)
  \/ \E a \in adds : AddWrites(a)
  \/ \E s \in Sources : RemoveSource(s)
  \/ \E g \in Groups : PutConfig(g)

RunStep(w) ==
  \/ \E i \in DOMAIN Lists : ReadList(w, i)
  \/ \E g \in Groups : PostHeader(w, g) \/ SkipGroup(w, g)
  \/ \E s \in Sources : Send(w, s) \/ SendFails(w, s) \/ SendCrashes(w, s)
  \/ Beat(w)

RunFault(w) == RunFails(w) \/ \E g \in Groups : HeaderUnconfirmed(w, g)

JobStep(w) == Quiet(w) \/ Publish(w) \/ NoChannel(w) \/ WriteCursor(w)

Next ==
  \/ Admin
  \/ \E attempt \in {1, MaxAttempts} : Trigger(attempt)
  \/ \E w \in Runners : (\E m \in queue : StartRun(w, m)) \/ RunStep(w) \/ RunFault(w) \/ RunTimeout(w)
  \/ \E w \in Workers : (\E m \in queue : Begin(w, m)) \/ JobStep(w) \/ JobFails(w) \/ JobTimeout(w)

Spec == Init /\ [][Next]_vars

-----------------------------------------------------------------------------
\* A header is repeated only when a digest was asked for again, when a call of
\* the run failed or its deadline passed, or when a document without its key
\* crashed the run: a failed enqueue never repeats it.
HeadersBounded == \A g \in Groups : headers[g] <= triggers + faults + crashes

\* Every heartbeat stands for a run that posted a header.
HeartbeatMeansHeader == beats <= headers["cohort"] + headers["leaders"]

\* A run that reaches its end has tried to enqueue every source that stayed
\* enabled since it started, whatever failed for other sources, unless it is
\* a user whose group has no channel.
NobodyForgotten ==
  \A w \in Runners : run[w].pc = "send" /\ run[w].todo = {} =>
    \A s \in run[w].steady :
      \/ s \in run[w].sent \union run[w].failed
      \/ s \in Users /\ run[w].group[s] \notin run[w].channels

\* A publication or repository is never fetched from the beginning: whatever
\* was removed, re-added and merged meanwhile, its handler has a cursor, unless
\* a removal came between the two calls of an add, whose merge then makes an
\* enabled document without one.
NoBackCatalog ==
  \A w \in Workers :
    job[w].pc # "idle" /\ job[w].task \in (Publications \union Repos) \ torn => job[w].since

\* Only an admin enables a document: a handler that merges a cursor into a
\* document removed meanwhile brings it back, but never into the lists.
OnlyAdminsEnable ==
  [][\A s \in Sources :
       ~docs[s].enabled /\ docs'[s].enabled => \E a \in adds : a.source = s /\ AddWrites(a)]_vars

\* A section of a user goes only to the channel of a group that an admin put
\* the user in, or of the default group if the user was removed before its task
\* ran, however moves, removals, retries and fan-outs interleave.
OwnChannel == sections \intersect (Users \X Groups) \subseteq members

=============================================================================
