------------------------------ MODULE OnDemand ------------------------------
(***************************************************************************)
(* The digests that users ask for: /digest today or yesterday, /substack.  *)
(*                                                                         *)
(* on_demand lists the tracked users, reads the feed of each of them page  *)
(* by page, back to a midnight, and lays the sections out in the pages of  *)
(* one answer.  on_demand_substack reads each publication in one request.  *)
(* Neither writes anything.  While they read, feeds grow at the front, so  *)
(* that pages shift, midnight passes, admins edit the lists, and accounts  *)
(* are deleted.                                                            *)
(*                                                                         *)
(* One handler suffices, since handlers share nothing; how its task is     *)
(* delivered, and its answer edited in, is the subject of Followups.       *)
(***************************************************************************)
EXTENDS Integers, SequencesExt

CONSTANTS
  Users, Publications,
  Listing,      \* all of them in the order of their document ids
  Events,       \* what their feeds may come to hold
  SourceOf,     \* the user or publication of each event
  History,      \* what their feeds hold to begin with, newest first
  RepoOf,       \* the repository of each event of a user
  Signal,       \* events that are posts, or pushes of signal commits GitHub resolves
  PageSize,     \* events of a page, 100 in the code
  MaxPages,     \* max_pages of fetch_user_commits_since
  Limit,        \* posts that fetch_posts_since returns
  MaxRepos,     \* repositories that fit the value of a field
  MaxFields,    \* MAX_FIELDS_PER_EMBED
  MaxSize,      \* MAX_EMBED_TOTAL_CHARS, in names and short summaries
  Verbose,      \* repositories whose summary is long
  MaxEmbeds,    \* embeds that format_substack keeps
  DayLength,    \* ticks of a day
  Windows,      \* days that /substack may look back, _WINDOW_DAYS
  MaxTime,      \* bound: the clock
  MaxEdits,     \* bound: edits of the lists, deleted accounts
  None

Sources == Users \union Publications

ASSUME OnDemandAssumption ==
  /\ Users \intersect Publications = {} /\ None \notin Sources \union Events \union Int
  /\ Listing \in Seq(Sources) /\ ToSet(Listing) = Sources /\ IsInjective(Listing)
  /\ SourceOf \in [Events -> Sources] /\ Signal \subseteq Events
  /\ History \in [Sources -> Seq(Events)]
  /\ \A s \in Sources : IsInjective(History[s]) /\ \A e \in ToSet(History[s]) : SourceOf[e] = s
  /\ \A e \in Events : IF SourceOf[e] \in Users THEN e \in DOMAIN RepoOf ELSE e \in Signal
  /\ {PageSize, MaxPages, Limit, MaxRepos, MaxFields, MaxSize, MaxEmbeds, DayLength} \subseteq Nat \ {0}
  /\ Windows \subseteq Nat \ {0}
  /\ {MaxTime, MaxEdits} \subseteq Nat

VARIABLES
  now,      \* the clock
  feed,     \* what each user or publication shows, newest first
  dated,    \* when each event was created, None before that
  enabled,  \* enabled documents
  deleted,  \* users whose account is gone
  job,      \* the handler
  known,    \* history: what the listed sources showed when they were listed
  edits     \* what the bound counts

world == <<now, feed, dated, enabled, deleted, edits>>
vars  == <<world, job, known>>

\* A handler: the sources it still has to read, the events of the one it reads,
\* and the sections it has so far.
Job ==
  [ pc : {"idle", "list", "read", "compute", "edit"}, cmd : {"digest", "substack", None},
    since : Int, todo : Seq(Sources), page : Nat, got : Seq(Events),
    sections : Seq([source : Sources, items : Seq(Events)]) ]

NoJob ==
  [ pc |-> "idle", cmd |-> None, since |-> 0, todo |-> <<>>, page |-> 0, got |-> <<>>,
    sections |-> <<>> ]

\* Feeds hold each event once, newest first, and the handler reads no page
\* beyond max_pages.
TypeOK ==
  /\ now \in 0 .. MaxTime
  /\ feed \in [Sources -> Seq(Events)]
  /\ dated \in [Events -> 0 .. MaxTime \union {None}]
  /\ \A s \in Sources :
       /\ IsInjective(feed[s])
       /\ \A m \in 1 .. Len(feed[s]) :
            /\ dated[feed[s][m]] # None
            /\ \A n \in m .. Len(feed[s]) : dated[feed[s][m]] >= dated[feed[s][n]]
  /\ enabled \subseteq Sources /\ deleted \subseteq Users
  /\ job \in Job /\ job.page \in 0 .. MaxPages
  /\ known \subseteq Events /\ edits \in 0 .. MaxEdits

Init ==
  /\ now = 0
  /\ feed = History
  /\ dated = [e \in Events |-> IF e \in ToSet(History[SourceOf[e]]) THEN 0 ELSE None]
  /\ enabled = Sources
  /\ deleted = {}
  /\ job = NoJob
  /\ known = {}
  /\ edits = 0

-----------------------------------------------------------------------------
(***************************************************************************)
(* GitHub, Substack, the clock and the admins.                             *)
(***************************************************************************)
Tick ==
  /\ now < MaxTime
  /\ now' = now + 1
  /\ UNCHANGED <<feed, dated, enabled, deleted, edits, job, known>>

Appear(e) ==
  LET s == SourceOf[e] IN
  /\ dated[e] = None /\ s \notin deleted
  /\ dated' = [dated EXCEPT ![e] = now]
  /\ feed' = [feed EXCEPT ![s] = <<e>> \o @]
  /\ UNCHANGED <<now, enabled, deleted, edits, job, known>>

Edited == edits < MaxEdits /\ edits' = edits + 1

\* An admin adds or removes a source.
Toggle(s) ==
  /\ Edited
  /\ enabled' = IF s \in enabled THEN enabled \ {s} ELSE enabled \union {s}
  /\ UNCHANGED <<now, feed, dated, deleted, job, known>>

DeleteAccount(u) ==
  /\ Edited /\ u \notin deleted
  /\ deleted' = deleted \union {u}
  /\ UNCHANGED <<now, feed, dated, enabled, job, known>>

-----------------------------------------------------------------------------
(***************************************************************************)
(* on_demand and on_demand_substack.                                       *)
(***************************************************************************)
\* The elements of a sequence that are in S, as a comprehension keeps them.
Only(elements, S) ==
  FoldLeft(LAMBDA kept, x : IF x \in S THEN Append(kept, x) ELSE kept, <<>>, elements)

\* _start_of_day; the window of yesterday has no end.
Midnight(day) == (now - (now % DayLength)) - (IF day = "yesterday" THEN DayLength ELSE 0)

\* The window is taken from the clock of the handler, not of the command.
Begin ==
  /\ job.pc = "idle"
  /\ \/ \E day \in {"today", "yesterday"} :
          job' = [NoJob EXCEPT !.pc = "list", !.cmd = "digest", !.since = Midnight(day)]
     \/ \E days \in Windows :
          job' = [NoJob EXCEPT !.pc = "list", !.cmd = "substack", !.since = now - days * DayLength]
  /\ UNCHANGED <<world, known>>

List ==
  LET kind   == IF job.cmd = "digest" THEN Users ELSE Publications
      listed == Only(Listing, enabled \intersect kind) IN
  /\ job.pc = "list"
  /\ job' = [job EXCEPT !.pc = "read", !.todo = listed, !.page = 1]
  /\ known' = UNION {ToSet(feed[s]) : s \in ToSet(listed)}
  /\ UNCHANGED world

\* Events are read up to the first one that is older than since.
Recent(events) ==
  LET older == {n \in DOMAIN events : dated[events[n]] < job.since} IN
  IF older = {} THEN events ELSE SubSeq(events, 1, Min(older) - 1)

PageOf(events) ==
  SubSeq(events, (job.page - 1) * PageSize + 1,
         IF Len(events) < job.page * PageSize THEN Len(events) ELSE job.page * PageSize)

\* Mutant of LastPage: a full page counts as the last one.
LastPageIfFull(page, recent) ==
  Len(page) <= PageSize \/ recent # page \/ job.page = MaxPages

\* Mutant of LastPage: nothing stops at max_pages.
LastPageUncapped(page, recent) == Len(page) < PageSize \/ recent # page

\* A page that is not full, that goes back beyond since, or is the last allowed.
LastPage(page, recent) ==
  Len(page) < PageSize \/ recent # page \/ job.page = MaxPages

\* One page of a user's events.
ReadPage ==
  /\ job.pc = "read" /\ job.cmd = "digest" /\ job.todo # <<>>
  /\ Head(job.todo) \notin deleted
  /\ LET page == PageOf(feed[Head(job.todo)])
         last == LastPage(page, Recent(page))
     IN  job' = [job EXCEPT !.got = @ \o Recent(page),
                            !.pc = IF last THEN "compute" ELSE @,
                            !.page = IF last THEN @ ELSE @ + 1]
  /\ UNCHANGED <<world, known>>

\* A publication's posts: newer than since, at most Limit, in one request.
ReadFeed ==
  /\ job.pc = "read" /\ job.cmd = "substack" /\ job.todo # <<>>
  /\ LET posts == feed[Head(job.todo)]
         newer == Only(posts, {e \in ToSet(posts) : dated[e] > job.since})
     IN  job' = [job EXCEPT !.got = SubSeq(newer, 1, IF Len(newer) < Limit THEN Len(newer) ELSE Limit),
                            !.pc = "compute"]
  /\ UNCHANGED <<world, known>>

\* An unreadable feed is an empty one.
FeedSkipped ==
  /\ job.pc = "read" /\ job.cmd = "substack" /\ job.todo # <<>>
  /\ job' = [job EXCEPT !.pc = "compute"]
  /\ known' = {e \in known : SourceOf[e] # Head(job.todo)}
  /\ UNCHANGED world

\* Mutant of Compute: what was read stays for the next source.
ComputeKeepsGot ==
  LET items == Only(job.got, Signal) IN
  /\ job.pc = "compute"
  /\ job' = [job EXCEPT !.pc = "read", !.page = 1, !.todo = Tail(@),
                        !.sections = IF items = <<>> THEN @
                          ELSE Append(@, [source |-> Head(job.todo), items |-> items])]
  /\ UNCHANGED <<world, known>>

\* A section of what is signal, if anything is.
Compute ==
  LET items == Only(job.got, Signal) IN
  /\ job.pc = "compute"
  /\ job' = [job EXCEPT !.pc = "read", !.page = 1, !.got = <<>>, !.todo = Tail(@),
                        !.sections = IF items = <<>> THEN @
                          ELSE Append(@, [source |-> Head(job.todo), items |-> items])]
  /\ UNCHANGED <<world, known>>

AllRead ==
  /\ job.pc = "read" /\ job.todo = <<>>
  /\ job' = [job EXCEPT !.pc = "edit", !.page = 0]
  /\ UNCHANGED <<world, known>>

\* A deleted account, or any other failure, fails the whole command; its task
\* starts over.  Otherwise the answer is edited in.
Ends ==
  /\ job.pc # "idle"
  /\ job' = NoJob
  /\ known' = {}
  /\ UNCHANGED world

Handler ==
  Begin \/ List \/ ReadPage \/ ReadFeed \/ FeedSkipped \/ Compute \/ AllRead \/ Ends

Next ==
  \/ Tick \/ \E e \in Events : Appear(e)
  \/ \E s \in Sources : Toggle(s)
  \/ \E u \in Users : DeleteAccount(u)
  \/ Handler

Spec == Init /\ [][Next]_vars

-----------------------------------------------------------------------------
(***************************************************************************)
(* The answer.                                                             *)
(***************************************************************************)
\* The repositories of a section in the order they are first met.
ReposOf(section) ==
  FoldLeft(LAMBDA repos, e : IF RepoOf[e] \in ToSet(repos) THEN repos ELSE Append(repos, RepoOf[e]),
           <<>>, section.items)

\* The value of a field is cut after MaxRepos of them.
UserField(section) ==
  LET repos == ReposOf(section) IN
  [user |-> section.source, total |-> Len(section.items),
   repos |-> SubSeq(repos, 1, IF Len(repos) < MaxRepos THEN Len(repos) ELSE MaxRepos)]

\* Characters of a field: its name counts like one short summary, a long one
\* like three.
Size(field) ==
  1 + Len(field.repos) + 2 * Cardinality({n \in DOMAIN field.repos : field.repos[n] \in Verbose})

SizeOf(page) == FoldLeft(LAMBDA size, field : size + Size(field), 0, page)

\* Mutant of Fits: the size of the next field is left out.
FitsBefore(page, field) == Len(page) < MaxFields /\ SizeOf(page) <= MaxSize

Fits(page, field) == Len(page) < MaxFields /\ SizeOf(page) + Size(field) <= MaxSize

\* format_digest: a field goes to the current page, or to a new one.
Pages(sections) ==
  FoldLeft(LAMBDA pages, section :
             LET field == UserField(section) IN
             IF pages # <<>> /\ Fits(Last(pages), field)
             THEN Front(pages) \o <<Append(Last(pages), field)>>
             ELSE Append(pages, <<field>>),
           <<>>, sections)

\* format_substack: one embed for each publication, as many as a message takes.
Embeds(sections) ==
  SubSeq(sections, 1, IF Len(sections) < MaxEmbeds THEN Len(sections) ELSE MaxEmbeds)

-----------------------------------------------------------------------------
Answering(cmd) == job.pc = "edit" /\ job.cmd = cmd

\* The place of e in its feed, which only grows.
Place(e) == CHOOSE n \in DOMAIN feed[SourceOf[e]] : feed[SourceOf[e]][n] = e

\* An answer leaves nothing out that was there when its sources were listed, even
\* if feeds grow while they are paged through: a signal commit of the window is
\* beyond the last page, or in the field of its user unless that is full; a post
\* is beyond the limit, or in the embed of its publication unless there are too
\* many.
DigestComplete ==
  \A e \in known \intersect Signal :
    /\ Answering("digest") /\ dated[e] >= job.since /\ Place(e) <= PageSize * MaxPages =>
         \E page \in ToSet(Pages(job.sections)) : \E field \in ToSet(page) :
           /\ field.user = SourceOf[e]
           /\ RepoOf[e] \in ToSet(field.repos) \/ Len(field.repos) = MaxRepos
    /\ Answering("substack") /\ dated[e] > job.since /\ Place(e) <= Limit =>
         \/ \E section \in ToSet(Embeds(job.sections)) : e \in ToSet(section.items)
         \/ Len(Embeds(job.sections)) = MaxEmbeds

\* An answer makes nothing up: a source has one section, of its own events in the
\* window, and counts one twice only if the feed grew under the handler.
DigestSound ==
  LET Late(s) == ToSet(feed[s]) \ known
      Copies(e, items) == Cardinality({n \in DOMAIN items : items[n] = e}) IN
  job.pc = "edit" =>
    /\ \A m, n \in DOMAIN job.sections :
         job.sections[m].source = job.sections[n].source => m = n
    /\ \A section \in ToSet(job.sections) : \A e \in ToSet(section.items) :
         /\ SourceOf[e] = section.source
         /\ dated[e] >= job.since
         /\ Copies(e, section.items) <= 1 + Cardinality(Late(section.source))

\* Pagination keeps every section, once and in order; a page has no more fields
\* than Discord takes, and no more characters unless it is a single field, and
\* the first field of the next page would not have fitted.
PagesFaithful ==
  LET pages == Pages(job.sections) IN
  Answering("digest") =>
    /\ FlattenSeq(pages) = [n \in DOMAIN job.sections |-> UserField(job.sections[n])]
    /\ \A n \in DOMAIN pages :
         /\ Len(pages[n]) \in 1 .. MaxFields
         /\ SizeOf(pages[n]) <= MaxSize \/ Len(pages[n]) = 1
         /\ n < Len(pages) => \/ Len(pages[n]) = MaxFields
                             \/ SizeOf(pages[n]) + Size(Head(pages[n + 1])) > MaxSize
=============================================================================
