----------------------------- MODULE Followups ------------------------------
(***************************************************************************)
(* Slash commands that are answered later.                                 *)
(*                                                                         *)
(* dispatch checks the arguments of a slow command, enqueues a task, and   *)
(* acknowledges the interaction: Discord shows that the bot is thinking    *)
(* until the task's handler edits that message.  Discord waits three       *)
(* seconds for the acknowledgement, and takes edits for 15 minutes after   *)
(* it, never before.  The queue delivers the task at least once.           *)
(*                                                                         *)
(* /repo reads the repository through the cache of RepoCache; the other    *)
(* commands read it directly.  What they show is abstracted to the version *)
(* of the repository that it was made from.                                *)
(***************************************************************************)
EXTENDS RepoCache

CONSTANTS
  Interactions,  \* slow commands that users send
  Hint,          \* the answer to a malformed command
  Unreachable,   \* the answer to /publication when its feed cannot be read
  MaxAttempts,   \* deliveries of one task (the default of Cloud Tasks)
  MaxFaults      \* bound: failed calls, lost answers, edits that come too early

ASSUME FollowupsAssumption ==
  /\ None \notin Interactions
  /\ {Hint, Unreachable} \intersect (Views \union {None}) = {}
  /\ MaxAttempts \in Nat \ {0}
  /\ MaxFaults \in Nat

VARIABLES
  kind,       \* the command of each interaction
  phase,      \* at Discord: what has become of the interaction
  message,    \* at Discord: the answer the user sees
  dispatch,   \* the request that dispatches each interaction
  queue,      \* deliveries of the followups queue waiting to be served
  job,        \* the delivery each worker serves
  faults,     \* what the bound counts
  asked,      \* history: what GitHub showed since the command was sent
  exhausted   \* history: tasks the queue gave up on

github  == <<shown, changes>>
discord == <<kind, phase, message, asked>>
vars == <<shown, cache, fetch, changes, discord, dispatch, queue, job, faults, exhausted>>

\* Each worker is a client of the cache.
Workers == Clients

\* /repo, /publication, which reads a feed and answers even if it cannot, a
\* command that reads GitHub directly, one whose handler raises whenever it builds
\* the answer, and one whose argument is refused.
Kinds == {"repo", "publication", "direct", "broken", "malformed"}

Answers == Views \union {None, Unreachable}

Delivery == [cmd : Interactions, attempt : 1 .. MaxAttempts]

Job ==
  [ pc : {"idle", "fetch", "build", "edit"}, cmd : Interactions \union {None},
    attempt : 0 .. MaxAttempts, answer : Answers ]

NoJob == [pc |-> "idle", cmd |-> None, attempt |-> 0, answer |-> None]

\* Interactions, deliveries and handlers keep their shape.
TypeOK ==
  /\ CacheTypeOK
  /\ kind \in [Interactions -> Kinds]
  /\ phase \in [Interactions -> {"unsent", "waiting", "deferred", "over"}]
  /\ message \in [Interactions -> Answers \union {Hint}]
  /\ dispatch \in [Interactions -> {"none", "enqueue", "respond", "done"}]
  /\ queue \subseteq Delivery
  /\ job \in [Workers -> Job]
  /\ faults \in 0 .. MaxFaults
  /\ asked \in [Interactions -> SUBSET Views]
  /\ exhausted \subseteq Interactions

Init ==
  /\ CacheInit
  /\ kind \in [Interactions -> Kinds]
  /\ phase = [i \in Interactions |-> "unsent"]
  /\ message = [i \in Interactions |-> None]
  /\ dispatch = [i \in Interactions |-> "none"]
  /\ queue = {}
  /\ job = [w \in Workers |-> NoJob]
  /\ faults = 0
  /\ asked = [i \in Interactions |-> {}]
  /\ exhausted = {}

Fault == faults < MaxFaults /\ faults' = faults + 1

-----------------------------------------------------------------------------
(***************************************************************************)
(* Discord and dispatch.                                                   *)
(***************************************************************************)
Invoke(i) ==
  /\ phase[i] = "unsent"
  /\ phase' = [phase EXCEPT ![i] = "waiting"]
  /\ dispatch' = [dispatch EXCEPT ![i] = "enqueue"]
  /\ asked' = [asked EXCEPT ![i] = {shown}]
  /\ UNCHANGED <<kind, github, cache, fetch, message, queue, job, faults, exhausted>>

DispatchBecomes(i, pc) == dispatch' = [dispatch EXCEPT ![i] = pc]

\* An invalid repository or publication is answered at once, if in time.
Reject(i) ==
  /\ dispatch[i] = "enqueue"
  /\ kind[i] = "malformed"
  /\ DispatchBecomes(i, "done")
  /\ phase' = [phase EXCEPT ![i] = "over"]
  /\ message' = [message EXCEPT ![i] = IF phase[i] = "waiting" THEN Hint ELSE @]
  /\ UNCHANGED <<kind, github, cache, fetch, queue, job, faults, asked, exhausted>>

\* Mutant of Enqueue: the task is created in the background, and may not be.
EnqueueInBackground(i) ==
  /\ dispatch[i] = "enqueue"
  /\ kind[i] # "malformed"
  /\ DispatchBecomes(i, "respond")
  /\ \/ queue' = queue \union {[cmd |-> i, attempt |-> 1]}
     \/ queue' = queue
  /\ UNCHANGED <<github, cache, fetch, discord, job, faults, exhausted>>

Enqueue(i) ==
  /\ dispatch[i] = "enqueue"
  /\ kind[i] # "malformed"
  /\ DispatchBecomes(i, "respond")
  /\ queue' = queue \union {[cmd |-> i, attempt |-> 1]}
  /\ UNCHANGED <<github, cache, fetch, discord, job, faults, exhausted>>

\* EnqueueError: the task was not created, or was and the answer is lost.
EnqueueFails(i) ==
  /\ dispatch[i] = "enqueue"
  /\ kind[i] # "malformed"
  /\ Fault
  /\ DispatchBecomes(i, "done")
  /\ \E created \in {{}, {[cmd |-> i, attempt |-> 1]}} : queue' = queue \union created
  /\ UNCHANGED <<github, cache, fetch, discord, job, exhausted>>

\* The deferred acknowledgement reaches Discord, which ignores a late one.
Acknowledge(i) ==
  /\ dispatch[i] = "respond"
  /\ DispatchBecomes(i, "done")
  /\ phase' = [phase EXCEPT ![i] = IF @ = "waiting" THEN "deferred" ELSE @]
  /\ UNCHANGED <<kind, github, cache, fetch, message, queue, job, faults, asked, exhausted>>

\* The instance dies before it answers.
DispatchDies(i) ==
  /\ dispatch[i] \in {"enqueue", "respond"}
  /\ Fault
  /\ DispatchBecomes(i, "done")
  /\ UNCHANGED <<github, cache, fetch, discord, queue, job, exhausted>>

\* Three seconds without an answer.
DeadlineMissed(i) ==
  /\ phase[i] = "waiting"
  /\ phase' = [phase EXCEPT ![i] = "over"]
  /\ UNCHANGED <<kind, github, cache, fetch, message, dispatch, queue, job, faults, asked, exhausted>>

\* Fifteen minutes later the token is void, answered or not.
TokenExpires(i) ==
  /\ phase[i] = "deferred"
  /\ phase' = [phase EXCEPT ![i] = "over"]
  /\ UNCHANGED <<kind, github, cache, fetch, message, dispatch, queue, job, faults, asked, exhausted>>

RepositoryChanges(v) ==
  /\ Change(v)
  /\ asked' = [i \in Interactions |->
       IF phase[i] = "unsent" THEN asked[i] ELSE asked[i] \union {v}]
  /\ UNCHANGED <<kind, phase, message, dispatch, queue, job, faults, exhausted>>

-----------------------------------------------------------------------------
(***************************************************************************)
(* run_followup.                                                           *)
(***************************************************************************)
JobBecomes(w, j) == job' = [job EXCEPT ![w] = j]

CallEnds(w) == Becomes(w, NoCall)

Start(w, d) ==
  /\ job[w].pc = "idle"
  /\ d \in queue
  /\ queue' = queue \ {d}
  /\ IF kind[d.cmd] = "repo"
     THEN /\ JobBecomes(w, [NoJob EXCEPT !.pc = "fetch", !.cmd = d.cmd, !.attempt = d.attempt])
          /\ Call_fetch_repo(w)
     ELSE /\ JobBecomes(w, [NoJob EXCEPT !.pc = "build", !.cmd = d.cmd, !.attempt = d.attempt])
          /\ UNCHANGED <<shown, cache, fetch, changes>>
  /\ UNCHANGED <<discord, dispatch, faults, exhausted>>

\* Mutant of Raises: one delivery too many.
RaisesOnceMore(w) ==
  LET j == job[w] IN
  /\ JobBecomes(w, NoJob)
  /\ queue' = IF j.attempt > 0
              THEN queue \union {[cmd |-> j.cmd, attempt |-> j.attempt + 1]} ELSE queue
  /\ exhausted' = exhausted

\* The handler raises and the endpoint answers 500: the queue delivers the task
\* again, up to its attempts.  A handler the queue gave up on has attempt 0.
Raises(w) ==
  LET j == job[w] IN
  /\ JobBecomes(w, NoJob)
  /\ queue' = IF j.attempt \in 1 .. MaxAttempts - 1
              THEN queue \union {[cmd |-> j.cmd, attempt |-> j.attempt + 1]} ELSE queue
  /\ exhausted' = IF j.attempt = MaxAttempts THEN exhausted \union {j.cmd} ELSE exhausted

\* A step of fetch_repo; giving up on a rate limit is a fault.
FetchStep(w) ==
  /\ job[w].pc = "fetch"
  /\ Answered(w)
  /\ UNCHANGED <<discord, dispatch, queue, job, faults, exhausted>>

FetchFault(w) ==
  /\ job[w].pc = "fetch"
  /\ \/ /\ RateLimited(w)
        /\ IF fetch[w].tries < MaxRetries THEN UNCHANGED faults ELSE Fault
     \/ /\ CallFails(w)
        /\ Fault
  /\ UNCHANGED <<discord, dispatch, queue, job, exhausted>>

\* fetch_repo has returned: NotFoundError is an answer, other errors are raised.
Fetched(w) ==
  /\ job[w].pc = "fetch" /\ fetch[w].pc = "done"
  /\ CallEnds(w)
  /\ CASE fetch[w].result = Failed -> Raises(w)
       [] fetch[w].result = Gone ->
            /\ JobBecomes(w, [job[w] EXCEPT !.pc = "edit", !.answer = Gone])
            /\ UNCHANGED <<queue, exhausted>>
       [] OTHER ->
            /\ JobBecomes(w, [job[w] EXCEPT !.pc = "build", !.answer = fetch[w].result])
            /\ UNCHANGED <<queue, exhausted>>
  /\ UNCHANGED <<github, cache, discord, dispatch, faults>>

\* The reads that follow: of a repository that was found they must succeed.
Unbuildable(j) == kind[j.cmd] = "broken" \/ (j.answer # None /\ shown = Gone)

Build(w) ==
  /\ job[w].pc = "build"
  /\ ~Unbuildable(job[w])
  /\ JobBecomes(w, [job[w] EXCEPT !.pc = "edit", !.answer = IF @ = None THEN shown ELSE @])
  /\ UNCHANGED <<github, cache, fetch, discord, dispatch, queue, faults, exhausted>>

\* A SubstackError of /publication is an answer.
BuildUnreachable(w) ==
  /\ job[w].pc = "build"
  /\ kind[job[w].cmd] = "publication"
  /\ Fault
  /\ JobBecomes(w, [job[w] EXCEPT !.pc = "edit", !.answer = Unreachable])
  /\ UNCHANGED <<github, cache, fetch, discord, dispatch, queue, exhausted>>

BuildRaises(w) ==
  /\ job[w].pc = "build"
  /\ Unbuildable(job[w])
  /\ Raises(w)
  /\ UNCHANGED <<github, cache, fetch, discord, dispatch, faults>>

Edit(w) ==
  /\ job[w].pc = "edit"
  /\ phase[job[w].cmd] = "deferred"
  /\ message' = [message EXCEPT ![job[w].cmd] = job[w].answer]
  /\ JobBecomes(w, NoJob)
  /\ UNCHANGED <<kind, github, cache, fetch, phase, asked, dispatch, queue, faults, exhausted>>

\* Discord takes the edit and the answer is lost.
EditUnconfirmed(w) ==
  /\ job[w].pc = "edit"
  /\ phase[job[w].cmd] = "deferred"
  /\ Fault
  /\ message' = [message EXCEPT ![job[w].cmd] = job[w].answer]
  /\ Raises(w)
  /\ UNCHANGED <<kind, github, cache, fetch, phase, asked, dispatch>>

\* Discord refuses an edit before the acknowledgement, which the pauses between
\* the attempts outlast, and after the end of the interaction.
Refused(i) ==
  \/ /\ phase[i] = "waiting"
     /\ Fault
  \/ /\ phase[i] = "over"
     /\ UNCHANGED faults

\* Mutant of EditRefused: the status of the answer is not looked at.
EditRefusedUnnoticed(w) ==
  /\ job[w].pc = "edit"
  /\ Refused(job[w].cmd)
  /\ JobBecomes(w, NoJob)
  /\ UNCHANGED <<github, cache, fetch, discord, dispatch, queue, exhausted>>

\* raise_for_status.
EditRefused(w) ==
  /\ job[w].pc = "edit"
  /\ Refused(job[w].cmd)
  /\ Raises(w)
  /\ UNCHANGED <<github, cache, fetch, discord, dispatch>>

\* Any call fails, or the instance dies.
JobFails(w) ==
  /\ job[w].pc # "idle"
  /\ Fault
  /\ Raises(w)
  /\ CallEnds(w)
  /\ UNCHANGED <<github, cache, discord, dispatch>>

\* The queue gives up on a handler that runs on.
JobTimesOut(w) ==
  /\ job[w].pc # "idle" /\ job[w].attempt \in 1 .. MaxAttempts - 1
  /\ Fault
  /\ queue' = queue \union {[cmd |-> job[w].cmd, attempt |-> job[w].attempt + 1]}
  /\ JobBecomes(w, [job[w] EXCEPT !.attempt = 0])
  /\ UNCHANGED <<github, cache, fetch, discord, dispatch, exhausted>>

-----------------------------------------------------------------------------
Dispatching(i) == Reject(i) \/ Enqueue(i) \/ Acknowledge(i)

Working(w) ==
  \/ FetchStep(w) \/ Fetched(w) \/ Build(w) \/ BuildRaises(w) \/ Edit(w) \/ EditRefused(w)

StartCommand(i) == \E w \in Workers, d \in queue : d.cmd = i /\ Start(w, d)

Next ==
  \/ \E i \in Interactions :
       \/ Invoke(i) \/ Dispatching(i) \/ EnqueueFails(i) \/ DispatchDies(i)
       \/ DeadlineMissed(i) \/ TokenExpires(i) \/ StartCommand(i)
  \/ \E v \in Views : RepositoryChanges(v)
  \/ \E w \in Workers :
       \/ Working(w) \/ FetchFault(w) \/ BuildUnreachable(w)
       \/ EditUnconfirmed(w) \/ JobFails(w) \/ JobTimesOut(w)

Spec == Init /\ [][Next]_vars

\* Requests run until they answer, Discord ends an interaction that was not
\* answered in time, and the queue serves every waiting task in the end.
Fairness ==
  /\ \A i \in Interactions :
       WF_vars(Dispatching(i)) /\ WF_vars(DeadlineMissed(i)) /\ SF_vars(StartCommand(i))
  /\ \A w \in Workers : WF_vars(Working(w))

FairSpec == Spec /\ Fairness

-----------------------------------------------------------------------------
\* The task of i waits, is being served, or was given up on after its last
\* attempt.
Pursued(i) ==
  \/ \E d \in queue : d.cmd = i
  \/ \E w \in Workers : job[w].pc # "idle" /\ job[w].cmd = i /\ job[w].attempt > 0
  \/ i \in exhausted

\* Nobody is kept waiting for a task that does not exist: as long as Discord
\* shows that the bot is thinking, something pursues the answer.
TaskBehindDeferral ==
  \A i \in Interactions : phase[i] = "deferred" /\ message[i] = None => Pursued(i)

\* What a user is shown was true at some moment after the command was sent:
\* neither the cache nor a slow or repeated task shows anything older, and only
\* /publication says that it could not read.
AnswersTrue ==
  \A i \in Interactions :
    \/ message[i] \in asked[i] \union {None}
    \/ kind[i] = "publication" /\ message[i] = Unreachable
    \/ kind[i] = "malformed" /\ message[i] = Hint

\* A command that can be answered is answered, unless the token expires first:
\* early edits, failures and rate limits use up attempts, but not all of them.
EventuallyAnswered ==
  \A i \in Interactions :
    phase[i] = "deferred" /\ kind[i] # "broken" ~> (message[i] # None \/ phase[i] = "over")
=============================================================================
