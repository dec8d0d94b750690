-------------------------- MODULE Delivery_proofs --------------------------
(***************************************************************************)
(* Proofs about Delivery, for any users, repositories, installations,      *)
(* commits, workers and bounds.                                            *)
(***************************************************************************)
EXTENDS Delivery, Lemmas

USE ConstantsAssumption

LEMMA ScansAreSources == ASSUME NEW t \in Tasks PROVE Scans(t) \subseteq Sources
  BY DEF Scans, Tasks, Sources

LEMMA FeedsAreCommits == ASSUME NEW s \in Sources PROVE Feed(s) \subseteq Commits
  BY DEF Feed, Sources

LEMMA IdleIsJob == Idle \in Job
  BY DEF Idle, Job, Times

\* A repeated delivery is a delivery the queue may hold.
LEMMA RetryIsMessage ==
  ASSUME TypeOK, NEW w \in Workers, job[w].attempt # 0 => job[w].task \in Tasks
  PROVE  Retry(w) \subseteq Message
  <1>1. job[w].attempt \in 0 .. MaxAttempts
    BY DEF TypeOK, Job
  <1> QED
    BY <1>1 DEF Retry, Message

-----------------------------------------------------------------------------
(***************************************************************************)
(* Type correctness.  A worker that is not idle has a task, which is what  *)
(* makes the retried delivery well formed.                                 *)
(***************************************************************************)
Busy == \A w \in Workers : job[w].pc = "idle" \/ job[w].task \in Tasks

NoAnswerDue == \A w \in Workers : job[w].pc = "idle" => job[w].attempt = 0

Typed == TypeOK /\ Busy /\ NoAnswerDue

LEMMA TypedInit == Init => Typed
  <1> SUFFICES ASSUME Init PROVE Typed
    OBVIOUS
  <1>1. TypeOK
    BY IdleIsJob DEF Init, TypeOK, Times, Sources
  <1>2. Busy /\ NoAnswerDue
    BY DEF Init, Busy, NoAnswerDue, Idle
  <1> QED
    BY <1>1, <1>2 DEF Typed

-----------------------------------------------------------------------------
\* The shape of most steps: worker w's job becomes j, and the rest of the
\* typed state is well typed.
LEMMA JobTyped ==
  ASSUME Typed, NEW w \in Workers, NEW j \in Job,
         Becomes(w, j),
         j.pc # "idle" => j.task \in Tasks,
         j.pc = "idle" => j.attempt = 0
  PROVE  job' \in [Workers -> Job] /\ Busy' /\ NoAnswerDue'
  BY DEF Becomes, Typed, TypeOK, Busy, NoAnswerDue

\* A handler that dies, whatever else happened in the step.
LEMMA AbortTyped ==
  ASSUME Typed, NEW w \in Workers, job[w].pc # "idle", Abort(w)
  PROVE  /\ job' \in [Workers -> Job] /\ Busy' /\ NoAnswerDue'
         /\ queue' \subseteq Message /\ faults' \in 0 .. MaxFaults
  <1>1. job' \in [Workers -> Job] /\ Busy' /\ NoAnswerDue'
    <2>1. Idle.pc = "idle" /\ Idle.attempt = 0
      BY DEF Idle
    <2> QED
      BY <2>1, IdleIsJob, JobTyped DEF Abort
  <1>2. queue' \subseteq Message
    <2>1. Retry(w) \subseteq Message
      BY RetryIsMessage DEF Typed, Busy
    <2> QED
      BY <2>1 DEF Abort, Typed, TypeOK
  <1>3. faults' \in 0 .. MaxFaults
    BY DEF Abort, Typed, TypeOK
  <1> QED
    BY <1>1, <1>2, <1>3

\* What a fetch keeps is a job again.
LEMMA KeepTyped ==
  ASSUME Typed, NEW w \in Workers, NEW s \in Sources, NEW got, job[w].pc = "scan",
         got \subseteq Eligible(s, job[w].since[s]), Keep(w, s, got)
  PROVE  job' \in [Workers -> Job] /\ Busy' /\ NoAnswerDue' /\ missed' \subseteq Commits
  <1>1. got \subseteq Commits /\ Eligible(s, job[w].since[s]) \subseteq Commits
    BY FeedsAreCommits DEF Eligible
  <1>2. PICK t \in Times :
          Becomes(w, [job[w] EXCEPT
            !.pc = IF got \intersect Signal = {} THEN "scan" ELSE "check",
            !.todo = @ \ {s},
            !.unchecked = got \intersect Signal,
            !.upto = [job[w].upto EXCEPT ![s] = t]])
    BY DEF Keep
  <1> DEFINE j == [job[w] EXCEPT
                     !.pc = IF got \intersect Signal = {} THEN "scan" ELSE "check",
                     !.todo = @ \ {s},
                     !.unchecked = got \intersect Signal,
                     !.upto = [job[w].upto EXCEPT ![s] = t]]
  <1>3. job[w] \in Job
    BY DEF Typed, TypeOK
  <1>4. j \in Job /\ j.pc # "idle" /\ j.task = job[w].task
    BY <1>1, <1>3 DEF Job
  <1>5. Becomes(w, j)
    BY <1>2
  <1>6. job' \in [Workers -> Job] /\ Busy' /\ NoAnswerDue'
    <2> HIDE DEF j
    <2>1. j.task \in Tasks
      BY <1>4 DEF Typed, Busy
    <2> QED
      BY <1>4, <1>5, <2>1, JobTyped
  <1>7. missed' \subseteq Commits
    BY <1>1 DEF Keep, Typed, TypeOK
  <1> QED
    BY <1>6, <1>7

LEMMA ReportedTyped ==
  ASSUME Typed, NEW w \in Workers, Reported(w)
  PROVE  posts' \in [Commits -> Nat]
  BY DEF Reported, Typed, TypeOK

LEMMA TypedNext == Typed /\ [Next]_vars => Typed'
  <1> SUFFICES ASSUME Typed, [Next]_vars PROVE Typed'
    OBVIOUS
  <1> USE DEF env, store, history
  <1>1. CASE Tick
    BY <1>1 DEF Tick, Typed, TypeOK, Busy, NoAnswerDue
  <1>2. ASSUME NEW c \in Commits, Push(c) PROVE Typed'
    BY <1>2 DEF Push, Typed, TypeOK, Busy, NoAnswerDue, Times
  <1>3. ASSUME NEW c \in Commits, Expire(c) PROVE Typed'
    BY <1>3 DEF Expire, Typed, TypeOK, Busy, NoAnswerDue
  <1>4. ASSUME NEW t \in Tasks, Enqueue(t) PROVE Typed'
    BY <1>4 DEF Enqueue, Typed, TypeOK, Busy, NoAnswerDue, Message
  <1>5. ASSUME NEW w \in Workers, Timeout(w) PROVE Typed'
    <2> DEFINE j == [job[w] EXCEPT !.attempt = 0]
    <2>1. job[w].pc # "idle" /\ job[w].task \in Tasks
      BY <1>5 DEF Timeout, Typed, Busy, NoAnswerDue
    <2>2. j \in Job /\ j.pc # "idle" /\ j.task \in Tasks
      <3>1. job[w] \in Job
        BY DEF Typed, TypeOK
      <3> QED
        BY <2>1, <3>1 DEF Job
    <2>3. job' \in [Workers -> Job] /\ Busy' /\ NoAnswerDue'
      <3>1. Becomes(w, j)
        BY <1>5 DEF Timeout
      <3> HIDE DEF j
      <3> QED
        BY <2>2, <3>1, JobTyped
    <2>4. Retry(w) \subseteq Message
      BY <2>1, RetryIsMessage DEF Typed
    <2> QED
      BY <1>5, <2>3, <2>4 DEF Timeout, Typed, TypeOK
  <1>6. ASSUME NEW w \in Workers, NEW m \in queue, Start(w, m) PROVE Typed'
    <2> DEFINE j == [Idle EXCEPT
                       !.pc = "scan", !.task = m.task, !.attempt = m.attempt,
                       !.todo = Scans(m.task),
                       !.since = [s \in Sources |->
                                    IF s \in Scans(m.task) THEN cursor[s] ELSE 0]]
    <2>1. m \in Message
      BY DEF Typed, TypeOK
    <2>2. j \in Job /\ j.pc # "idle" /\ j.task \in Tasks
      <3>1. m.task \in Tasks /\ m.attempt \in 0 .. MaxAttempts
        BY <2>1 DEF Message
      <3>2. Scans(m.task) \subseteq Sources
        BY <3>1, ScansAreSources
      <3>3. [s \in Sources |-> IF s \in Scans(m.task) THEN cursor[s] ELSE 0]
              \in [Sources -> Times]
        BY DEF Typed, TypeOK, Times
      <3> QED
        BY <3>1, <3>2, <3>3, IdleIsJob DEF Job
    <2>3. job' \in [Workers -> Job] /\ Busy' /\ NoAnswerDue'
      <3>1. Becomes(w, j)
        BY <1>6 DEF Start
      <3> HIDE DEF j
      <3> QED
        BY <2>2, <3>1, JobTyped
    <2> QED
      BY <1>6, <2>3 DEF Start, Typed, TypeOK
  <1>7. ASSUME NEW w \in Workers, NEW s \in Sources, Fetch(w, s) PROVE Typed'
    <2>1. PICK page \in SUBSET Eligible(s, job[w].since[s]) : Keep(w, s, page)
      BY <1>7 DEF Fetch
    <2>2. job' \in [Workers -> Job] /\ Busy' /\ NoAnswerDue' /\ missed' \subseteq Commits
      BY <1>7, <2>1, KeepTyped DEF Fetch
    <2> QED
      BY <1>7, <2>2 DEF Fetch, Typed, TypeOK
  <1>8. ASSUME NEW w \in Workers, NEW s \in Sources, FetchPartly(w, s) PROVE Typed'
    <2>1. PICK got \in SUBSET Eligible(s, job[w].since[s]) : Keep(w, s, got)
      BY <1>8 DEF FetchPartly
    <2>2. job' \in [Workers -> Job] /\ Busy' /\ NoAnswerDue' /\ missed' \subseteq Commits
      BY <1>8, <2>1, KeepTyped DEF FetchPartly
    <2> QED
      BY <1>8, <2>2 DEF FetchPartly, Typed, TypeOK
  <1>9. ASSUME NEW w \in Workers, NEW c \in Commits, Check(w, c) PROVE Typed'
    <2> DEFINE j == [job[w] EXCEPT
                       !.pc = IF job[w].unchecked = {c} THEN "scan" ELSE "check",
                       !.unchecked = @ \ {c},
                       !.fresh = IF IsNew(c) THEN @ \union {c} ELSE @]
    <2>1. j \in Job /\ j.pc # "idle" /\ j.task \in Tasks
      <3>1. job[w] \in Job
        BY DEF Typed, TypeOK
      <3>2. job[w].task \in Tasks
        BY <1>9 DEF Check, Typed, Busy
      <3> QED
        BY <3>1, <3>2 DEF Job
    <2>2. job' \in [Workers -> Job] /\ Busy' /\ NoAnswerDue'
      <3>1. Becomes(w, j)
        BY <1>9 DEF Check
      <3> HIDE DEF j
      <3> QED
        BY <2>1, <3>1, JobTyped
    <2> QED
      BY <1>9, <2>2 DEF Check, Typed, TypeOK
  <1>10. ASSUME NEW w \in Workers, NothingNew(w) PROVE Typed'
    <2>1. job' \in [Workers -> Job] /\ Busy' /\ NoAnswerDue'
      <3>1. Idle.pc = "idle" /\ Idle.attempt = 0
        BY DEF Idle
      <3> QED
        BY <1>10, <3>1, IdleIsJob, JobTyped DEF NothingNew
    <2> QED
      BY <1>10, <2>1 DEF NothingNew, Typed, TypeOK
  <1>11. ASSUME NEW w \in Workers, Post(w) PROVE Typed'
    <2> DEFINE j == [job[w] EXCEPT
                       !.pc = "write",
                       !.owed = {s \in Scans(job[w].task) :
                                   job[w].fresh \intersect Feed(s) # {}}]
    <2>1. job[w].task \in Tasks /\ job[w] \in Job
      BY <1>11 DEF Post, Scanned, Typed, TypeOK, Busy
    <2>2. j \in Job /\ j.pc # "idle" /\ j.task \in Tasks
      BY <2>1, ScansAreSources DEF Job
    <2>3. job' \in [Workers -> Job] /\ Busy' /\ NoAnswerDue'
      <3>1. Becomes(w, j)
        BY <1>11 DEF Post
      <3> HIDE DEF j
      <3> QED
        BY <2>2, <3>1, JobTyped
    <2> QED
      BY <1>11, <2>3, ReportedTyped DEF Post, Typed, TypeOK
  <1>12. ASSUME NEW w \in Workers, PostUnconfirmed(w) PROVE Typed'
    <2>1. job[w].pc # "idle"
      BY <1>12 DEF PostUnconfirmed, Scanned
    <2> QED
      BY <1>12, <2>1, AbortTyped, ReportedTyped DEF PostUnconfirmed, Typed, TypeOK
  <1>13. ASSUME NEW w \in Workers, NEW r, Record(w, r) PROVE Typed'
    <2> DEFINE batch == {c \in job[w].fresh : RepoOf[c] = r}
               j == [job[w] EXCEPT !.fresh = @ \ batch]
    <2>1. batch \subseteq Commits
      BY DEF Typed, TypeOK, Job
    <2>2. j \in Job /\ j.pc # "idle" /\ j.task \in Tasks
      <3>1. job[w] \in Job
        BY DEF Typed, TypeOK
      <3>2. job[w].pc = "write" /\ job[w].task \in Tasks
        BY <1>13 DEF Record, Typed, Busy
      <3> QED
        BY <3>1, <3>2 DEF Job
    <2>3. job' \in [Workers -> Job] /\ Busy' /\ NoAnswerDue'
      <3>1. Becomes(w, j)
        BY <1>13 DEF Record
      <3> HIDE DEF j
      <3> QED
        BY <2>2, <3>1, JobTyped
    <2>4. ledger' \in [Commits -> Nat] /\ logged' \subseteq Commits
      BY <1>13, <2>1 DEF Record, Typed, TypeOK
    <2> QED
      BY <1>13, <2>3, <2>4 DEF Record, Typed, TypeOK
  <1>14. ASSUME NEW w \in Workers, NEW s \in Sources, SetCursor(w, s) PROVE Typed'
    <2> DEFINE j == IF job[w].owed = {s} THEN Idle ELSE [job[w] EXCEPT !.owed = @ \ {s}]
    <2>1. j \in Job /\ (j.pc # "idle" => j.task \in Tasks) /\ (j.pc = "idle" => j.attempt = 0)
      BY <1>14, IdleIsJob DEF SetCursor, Typed, TypeOK, Busy, Job, Idle
    <2>2. job' \in [Workers -> Job] /\ Busy' /\ NoAnswerDue'
      <3>1. Becomes(w, j)
        BY <1>14 DEF SetCursor
      <3> HIDE DEF j
      <3> QED
        BY <2>1, <3>1, JobTyped
    <2>3. cursor' \in [Sources -> Times]
      BY <1>14 DEF SetCursor, Typed, TypeOK, Job
    <2> QED
      BY <1>14, <2>2, <2>3 DEF SetCursor, Typed, TypeOK
  <1>15. ASSUME NEW w \in Workers, Fail(w) PROVE Typed'
    BY <1>15, AbortTyped DEF Fail, Typed, TypeOK
  <1>16. CASE UNCHANGED vars
    BY <1>16 DEF vars, Typed, TypeOK, Busy, NoAnswerDue
  <1> QED
    BY <1>1, <1>2, <1>3, <1>4, <1>5, <1>6, <1>7, <1>8, <1>9, <1>10, <1>11, <1>12,
       <1>13, <1>14, <1>15, <1>16
    DEF Next, World, Queue, Handler, Step

\* Every variable keeps its type; in particular the queue never holds a
\* delivery beyond MaxAttempts.
THEOREM TypeCorrect == Spec => []TypeOK
  <1>1. Spec => []Typed
    BY TypedInit, TypedNext, PTL DEF Spec
  <1>2. Typed => TypeOK
    BY DEF Typed
  <1> QED
    BY <1>1, <1>2, PTL

-----------------------------------------------------------------------------
(***************************************************************************)
(* The inductive invariant behind the safety properties.                   *)
(*                                                                         *)
(* NothingSkipped is not inductive: a handler writes the cursor it         *)
(* computed long before.  JobOK says of every handler under way that what  *)
(* lies behind the cursor it will write is settled, or is among the        *)
(* commits it still has to check, report or record; that no cursor lies in *)
(* the future, so that a push, which is stamped with the present, is never *)
(* behind one; and that after the post all it has to record was posted.    *)
(***************************************************************************)
Settled == logged \union missed

Shown == {c \in Commits : pushedAt[c] # 0}

ClockOK ==
  /\ \A c \in Commits : dated[c] <= pushedAt[c] /\ pushedAt[c] <= now
  /\ \A s \in Sources : cursor[s] <= now

LedgerLogged == \A c \in Commits : ledger[c] # 0 => c \in logged

LoggedReported == \A c \in logged : posts[c] > 0

JobOK(w) ==
  /\ \A s \in Sources : job[w].since[s] <= now /\ job[w].upto[s] <= now
  /\ job[w].pc # "check" => job[w].unchecked = {}
  /\ job[w].unchecked \union job[w].fresh \subseteq Shown \intersect Signal
  /\ job[w].pc = "write" => \A c \in job[w].fresh : posts[c] > 0
  /\ \A s \in Sources : Behind(s, job[w].since[s]) \subseteq Settled
  /\ \A s \in Sources :
       Behind(s, job[w].upto[s]) \subseteq Settled \union job[w].unchecked \union job[w].fresh

Rest ==
  /\ ClockOK
  /\ LedgerLogged
  /\ LoggedReported
  /\ NothingSkipped
  /\ \A w \in Workers : JobOK(w)

IInv == Typed /\ Rest

LEMMA IdleJobOK ==
  ASSUME TypeOK, NEW w \in Workers, job[w] = Idle
  PROVE  JobOK(w)
  BY DEF JobOK, Idle, TypeOK, Behind, Stamp, Times

LEMMA IInvInit == Init => IInv
  <1> SUFFICES ASSUME Init PROVE IInv
    OBVIOUS
  <1>1. Typed
    BY TypedInit
  <1>2. ClockOK /\ LedgerLogged /\ LoggedReported
    BY DEF Init, ClockOK, LedgerLogged, LoggedReported
  <1>3. NothingSkipped
    BY DEF Init, NothingSkipped, Behind, Prompt
  <1>4. \A w \in Workers : JobOK(w)
    BY <1>1, IdleJobOK DEF Init, Typed
  <1> QED
    BY <1>1, <1>2, <1>3, <1>4 DEF IInv, Rest

\* A job the step does not touch stays good: what is settled stays settled and
\* what was posted stays posted.
LEMMA OtherJob ==
  ASSUME IInv, NEW v \in Workers, job'[v] = job[v],
         UNCHANGED <<pushedAt, dated>>, now' \in Nat, now <= now',
         logged \subseteq logged', missed \subseteq missed',
         \A c \in Commits : posts[c] > 0 => posts'[c] > 0
  PROVE  JobOK(v)'
  <1>1. JobOK(v)
    BY DEF IInv, Rest
  <1>2. job[v].fresh \subseteq Commits
    BY DEF IInv, Typed, TypeOK, Job
  <1>3. Settled \subseteq Settled'
    BY DEF Settled
  <1>4. Shown' = Shown
    BY DEF Shown
  <1>5. \A s \in Sources : /\ Behind(s, job[v].since[s])' = Behind(s, job[v].since[s])
                           /\ Behind(s, job[v].upto[s])' = Behind(s, job[v].upto[s])
    BY DEF Behind, Prompt, Stamp
  <1>6. \A s \in Sources : job[v].since[s] <= now' /\ job[v].upto[s] <= now'
    BY <1>1 DEF JobOK, IInv, Typed, TypeOK, Job, Times
  <1> QED
    BY <1>1, <1>2, <1>3, <1>4, <1>5, <1>6 DEF JobOK

\* The jobs of the other workers when w's job becomes j.
LEMMA Others ==
  ASSUME IInv, NEW w \in Workers, NEW j, Becomes(w, j), UNCHANGED env,
         logged \subseteq logged', missed \subseteq missed',
         \A c \in Commits : posts[c] > 0 => posts'[c] > 0
  PROVE  job'[w] = j /\ \A v \in Workers \ {w} : JobOK(v)'
  <1>1. job'[w] = j /\ \A v \in Workers \ {w} : job'[v] = job[v]
    BY DEF Becomes, IInv, Typed, TypeOK
  <1>2. now' \in Nat /\ now <= now'
    BY DEF env, IInv, Typed, TypeOK
  <1> QED
    BY <1>1, <1>2, OtherJob DEF env

\* What does not depend on the jobs, when nothing but job and queue changed.
LEMMA StoreKept ==
  ASSUME IInv, UNCHANGED <<env, store, history>>
  PROVE  ClockOK' /\ LedgerLogged' /\ LoggedReported' /\ NothingSkipped'
  BY DEF env, store, history, IInv, Rest, ClockOK, LedgerLogged, LoggedReported,
         NothingSkipped, Behind, Prompt, Stamp

\* A push is stamped with the present, so it is behind no cursor.
LEMMA PushIsAhead ==
  ASSUME IInv, NEW c \in Commits, Push(c), NEW s \in Sources, NEW t \in Times, t <= now
  PROVE  Behind(s, t)' = Behind(s, t)
  <1>1. ASSUME NEW d \in Feed(s) PROVE (Prompt(d) /\ Stamp(s, d) < t)' <=> (Prompt(d) /\ Stamp(s, d) < t)
    <2>1. d \in Commits
      BY FeedsAreCommits
    <2>2. CASE d = c
      <3>1. pushedAt[c] = 0 /\ pushedAt'[c] = now
        BY DEF Push, IInv, Typed, TypeOK
      <3>2. ~ Prompt(c)
        BY <3>1 DEF Prompt
      <3>3. Prompt(c)' => Stamp(s, c)' = now
        BY <3>1 DEF Prompt, Stamp
      <3> QED
        BY <2>2, <3>2, <3>3 DEF IInv, Typed, TypeOK, Times
    <2>3. CASE d # c
      BY <2>1, <2>3 DEF Push, Prompt, Stamp, IInv, Typed, TypeOK
    <2> QED
      BY <2>2, <2>3
  <1> QED
    BY <1>1 DEF Behind

LEMMA RestPush == ASSUME IInv, NEW c \in Commits, Push(c) PROVE Rest'
  <1> USE DEF store, history
  <1>1. ClockOK'
    <2>1. ASSUME NEW d \in Commits PROVE dated'[d] <= pushedAt'[d] /\ pushedAt'[d] <= now'
      <3>1. PICK e \in 1 .. now : dated' = [dated EXCEPT ![c] = e]
        BY DEF Push
      <3>2. CASE d = c
        BY <3>1, <3>2 DEF Push, IInv, Typed, TypeOK, Times
      <3>3. CASE d # c
        BY <3>1, <3>3 DEF Push, IInv, Typed, TypeOK, Rest, ClockOK
      <3> QED
        BY <3>2, <3>3
    <2> QED
      BY <2>1 DEF Push, IInv, Rest, ClockOK
  <1>2. LedgerLogged' /\ LoggedReported'
    BY DEF Push, IInv, Rest, LedgerLogged, LoggedReported
  <1>3. NothingSkipped'
    <2>1. ASSUME NEW s \in Sources PROVE Behind(s, cursor[s])' = Behind(s, cursor[s])
      <3>1. cursor[s] \in Times /\ cursor[s] <= now /\ cursor' = cursor
        BY DEF Push, IInv, Typed, TypeOK, Rest, ClockOK
      <3>2. \A t \in Times : t <= now => Behind(s, t)' = Behind(s, t)
        BY PushIsAhead
      <3> QED
        BY <3>1, <3>2 DEF Behind
    <2> QED
      BY <2>1 DEF Push, IInv, Rest, NothingSkipped
  <1>4. ASSUME NEW w \in Workers PROVE JobOK(w)'
    <2>1. JobOK(w) /\ job' = job /\ now' = now
      BY DEF Push, IInv, Rest
    <2>2. ASSUME NEW s \in Sources
          PROVE  /\ Behind(s, job[w].since[s])' = Behind(s, job[w].since[s])
                 /\ Behind(s, job[w].upto[s])' = Behind(s, job[w].upto[s])
      <3>1. /\ job[w].since[s] \in Times /\ job[w].since[s] <= now
            /\ job[w].upto[s] \in Times /\ job[w].upto[s] <= now
        BY <2>1 DEF JobOK, IInv, Typed, TypeOK, Job
      <3>2. \A t \in Times : t <= now => Behind(s, t)' = Behind(s, t)
        BY PushIsAhead
      <3> QED
        BY <2>1, <3>1, <3>2 DEF Behind
    <2>3. Shown \subseteq Shown'
      <3>1. now # 0
        BY DEF IInv, Typed, TypeOK
      <3> QED
        BY <3>1 DEF Push, Shown, IInv, Typed, TypeOK
    <2>4. Settled' = Settled /\ posts' = posts
      BY DEF Push, Settled
    <2> QED
      BY <2>1, <2>2, <2>3, <2>4 DEF JobOK
  <1> QED
    BY <1>1, <1>2, <1>3, <1>4 DEF Rest

LEMMA RestTick == ASSUME IInv, Tick PROVE Rest'
  <1> USE DEF store, history
  <1>1. now \in Nat /\ now' = now + 1
    BY DEF Tick, IInv, Typed, TypeOK
  <1>2. ClockOK'
    <2>1. \A c \in Commits : dated[c] <= pushedAt[c] /\ pushedAt[c] <= now + 1
      BY <1>1 DEF IInv, Rest, ClockOK, Typed, TypeOK, Times
    <2>2. \A s \in Sources : cursor[s] <= now + 1
      BY <1>1 DEF IInv, Rest, ClockOK, Typed, TypeOK, Times
    <2> QED
      BY <1>1, <2>1, <2>2 DEF Tick, ClockOK
  <1>3. LedgerLogged' /\ LoggedReported'
    BY DEF Tick, IInv, Rest, LedgerLogged, LoggedReported
  <1>4. NothingSkipped'
    BY DEF Tick, IInv, Rest, NothingSkipped, Behind, Prompt, Stamp
  <1>5. ASSUME NEW w \in Workers PROVE JobOK(w)'
    <2>1. /\ job'[w] = job[w] /\ UNCHANGED <<pushedAt, dated>>
          /\ logged' = logged /\ missed' = missed /\ posts' = posts
      BY DEF Tick
    <2> QED
      BY <1>1, <2>1, OtherJob
  <1> QED
    BY <1>2, <1>3, <1>4, <1>5 DEF Rest

LEMMA RestExpire == ASSUME IInv, NEW c \in Commits, Expire(c) PROVE Rest'
  <1> USE DEF env
  <1>1. ClockOK' /\ LoggedReported'
    BY DEF Expire, IInv, Rest, ClockOK, LoggedReported
  <1>2. LedgerLogged'
    BY DEF Expire, IInv, Typed, TypeOK, Rest, LedgerLogged
  <1>3. NothingSkipped'
    BY DEF Expire, IInv, Rest, NothingSkipped, Behind, Prompt, Stamp
  <1>4. ASSUME NEW w \in Workers PROVE JobOK(w)'
    <2>1. /\ job'[w] = job[w] /\ UNCHANGED <<pushedAt, dated>> /\ now' = now
          /\ logged' = logged /\ missed' = missed /\ posts' = posts
      BY DEF Expire
    <2>2. now \in Nat
      BY DEF IInv, Typed, TypeOK
    <2> QED
      BY <2>1, <2>2, OtherJob
  <1> QED
    BY <1>1, <1>2, <1>3, <1>4 DEF Rest

\* Steps that end w's job and change nothing the invariant relates.
LEMMA RestIdle ==
  ASSUME IInv, TypeOK', NEW w \in Workers, Becomes(w, Idle), UNCHANGED <<env, store, history>>
  PROVE  Rest'
  <1>1. ClockOK' /\ LedgerLogged' /\ LoggedReported' /\ NothingSkipped'
    BY StoreKept
  <1>2. job'[w] = Idle /\ \A v \in Workers \ {w} : JobOK(v)'
    BY Others DEF history
  <1>3. JobOK(w)'
    BY <1>2 DEF JobOK, Idle, TypeOK, Behind, Stamp, Times
  <1> QED
    BY <1>1, <1>2, <1>3 DEF Rest

LEMMA RestEnqueue == ASSUME IInv, NEW t \in Tasks, Enqueue(t) PROVE Rest'
  <1>1. ClockOK' /\ LedgerLogged' /\ LoggedReported' /\ NothingSkipped'
    BY StoreKept DEF Enqueue
  <1>2. ASSUME NEW w \in Workers PROVE JobOK(w)'
    <2>1. /\ job'[w] = job[w] /\ UNCHANGED <<pushedAt, dated>> /\ now' = now
          /\ logged' = logged /\ missed' = missed /\ posts' = posts
      BY DEF Enqueue, env, history
    <2>2. now \in Nat
      BY DEF IInv, Typed, TypeOK
    <2> QED
      BY <2>1, <2>2, OtherJob
  <1> QED
    BY <1>1, <1>2 DEF Rest

LEMMA RestTimeout == ASSUME IInv, NEW w \in Workers, Timeout(w) PROVE Rest'
  <1>1. ClockOK' /\ LedgerLogged' /\ LoggedReported' /\ NothingSkipped'
    BY StoreKept DEF Timeout
  <1>2. /\ job'[w] = [job[w] EXCEPT !.attempt = 0]
        /\ \A v \in Workers \ {w} : JobOK(v)'
    BY Others DEF Timeout, history
  <1>3. JobOK(w)'
    <2>1. JobOK(w) /\ job[w] \in Job
      BY DEF IInv, Rest, Typed, TypeOK
    <2>2. UNCHANGED <<env, history>>
      BY DEF Timeout
    <2> QED
      BY <1>2, <2>1, <2>2
      DEF Job, JobOK, Settled, Shown, Behind, Prompt, Stamp, env, history
  <1> QED
    BY <1>1, <1>2, <1>3 DEF Rest

LEMMA RestStart ==
  ASSUME IInv, NEW w \in Workers, NEW m \in queue, Start(w, m)
  PROVE  Rest'
  <1>1. ClockOK' /\ LedgerLogged' /\ LoggedReported' /\ NothingSkipped'
    BY StoreKept DEF Start
  <1> DEFINE since == [s \in Sources |-> IF s \in Scans(m.task) THEN cursor[s] ELSE 0]
             j == [Idle EXCEPT
                     !.pc = "scan", !.task = m.task, !.attempt = m.attempt,
                     !.todo = Scans(m.task), !.since = since]
  <1>2. job'[w] = j /\ \A v \in Workers \ {w} : JobOK(v)'
    BY Others DEF Start, history
  <1>3. JobOK(w)'
    <2>1. /\ j.pc = "scan" /\ j.unchecked = {} /\ j.fresh = {}
          /\ j.since = since /\ j.upto = [s \in Sources |-> 0]
      BY DEF Idle
    <2>2. UNCHANGED <<env, history>>
      BY DEF Start
    <2>3. \A s \in Sources : /\ 0 <= now /\ since[s] <= now
                             /\ Behind(s, since[s]) \subseteq Settled
                             /\ Behind(s, 0) = {}
      <3>1. ASSUME NEW s \in Sources PROVE Behind(s, 0) = {}
        BY FeedsAreCommits DEF Behind, Stamp, IInv, Typed, TypeOK, Times
      <3>2. \A s \in Sources : cursor[s] <= now /\ Behind(s, cursor[s]) \subseteq Settled
        BY DEF IInv, Rest, ClockOK, NothingSkipped, Settled
      <3>3. now \in Nat
        BY DEF IInv, Typed, TypeOK
      <3> QED
        BY <3>1, <3>2, <3>3
    <2> HIDE DEF since, j
    <2> QED
      BY <1>2, <2>1, <2>2, <2>3
      DEF JobOK, Settled, Shown, Behind, Prompt, Stamp, env, history
  <1> QED
    BY <1>1, <1>2, <1>3 DEF Rest

\* What lies behind the new cursor was fetched, or left out by the fetch, or
\* lay behind the old one.
LEMMA RestKeep ==
  ASSUME IInv, NEW w \in Workers, NEW s \in Sources, NEW got, job[w].pc = "scan",
         got \subseteq Eligible(s, job[w].since[s]), Keep(w, s, got),
         UNCHANGED <<env, store, posts, logged, expired>>
  PROVE  Rest'
  <1>1. PICK t \in Times :
          /\ NewCursor(s, got, t)
          /\ Becomes(w, [job[w] EXCEPT
               !.pc = IF got \intersect Signal = {} THEN "scan" ELSE "check",
               !.todo = @ \ {s},
               !.unchecked = got \intersect Signal,
               !.upto = [job[w].upto EXCEPT ![s] = t]])
    BY DEF Keep
  <1>2. job[w] \in Job /\ JobOK(w) /\ now \in Nat
    BY DEF IInv, Rest, Typed, TypeOK
  <1>3. missed \subseteq missed' /\ Eligible(s, job[w].since[s]) \subseteq got \union missed'
    BY DEF Keep
  <1>4. ClockOK' /\ LedgerLogged' /\ LoggedReported' /\ NothingSkipped'
    BY <1>3 DEF env, store, IInv, Rest, ClockOK, LedgerLogged, LoggedReported,
                NothingSkipped, Behind, Prompt, Stamp
  <1> DEFINE j == [job[w] EXCEPT
                     !.pc = IF got \intersect Signal = {} THEN "scan" ELSE "check",
                     !.todo = @ \ {s},
                     !.unchecked = got \intersect Signal,
                     !.upto = [job[w].upto EXCEPT ![s] = t]]
  <1>5. job'[w] = j /\ \A v \in Workers \ {w} : JobOK(v)'
    BY <1>1, <1>3, Others
  <1>6. JobOK(w)'
    <2>1. /\ j.since = job[w].since /\ j.fresh = job[w].fresh
          /\ j.unchecked = got \intersect Signal
          /\ j.pc = IF got \intersect Signal = {} THEN "scan" ELSE "check"
          /\ j.upto = [job[w].upto EXCEPT ![s] = t]
      BY <1>2 DEF Job
    <2>2. j.upto[s] = t /\ \A r \in Sources \ {s} : j.upto[r] = job[w].upto[r]
      BY <1>2, <2>1 DEF Job
    <2>3. got \subseteq Feed(s) /\ got \subseteq Commits /\ got \subseteq Shown
      BY FeedsAreCommits DEF Eligible, Shown
    <2>4. t <= now
      <3>1. \A c \in got : Stamp(s, c) <= now
        BY <2>3 DEF Stamp, IInv, Rest, ClockOK, Typed, TypeOK, Times
      <3> QED
        BY <1>1, <1>2, <3>1 DEF NewCursor
    <2>5. job[w].unchecked = {}
      BY <1>2 DEF JobOK
    <2>6. Behind(s, t) \subseteq Settled' \union (got \intersect Signal)
      <3> SUFFICES ASSUME NEW c \in Behind(s, t), c \notin got PROVE c \in Settled'
        BY DEF Behind
      <3>1. CASE Stamp(s, c) < job[w].since[s]
        <4>1. c \in Behind(s, job[w].since[s])
          BY <3>1 DEF Behind
        <4> QED
          BY <1>2, <1>3, <4>1 DEF JobOK, Settled
      <3>2. CASE ~ (Stamp(s, c) < job[w].since[s])
        <4>1. Stamp(s, c) \in Int /\ job[w].since[s] \in Int
          BY <1>2, FeedsAreCommits DEF Behind, Stamp, IInv, Typed, TypeOK, Times, Job
        <4>2. c \in Eligible(s, job[w].since[s])
          BY <3>2, <4>1 DEF Behind, Prompt, Eligible, Reached
        <4> QED
          BY <1>3, <4>2 DEF Settled
      <3> QED
        BY <3>1, <3>2
    <2>7. \A r \in Sources :
            Behind(r, j.upto[r]) \subseteq Settled' \union j.unchecked \union j.fresh
      <3>1. \A r \in Sources \ {s} :
              Behind(r, j.upto[r]) \subseteq Settled' \union j.unchecked \union j.fresh
        BY <1>2, <1>3, <2>1, <2>2, <2>5 DEF JobOK, Settled
      <3>2. Behind(s, j.upto[s]) \subseteq Settled' \union j.unchecked \union j.fresh
        BY <2>1, <2>2, <2>6
      <3> QED
        BY <3>1, <3>2
    <2>8. \A r \in Sources : j.since[r] <= now /\ j.upto[r] <= now
      BY <1>2, <2>1, <2>2, <2>4 DEF JobOK
    <2>9. \A r \in Sources : Behind(r, j.since[r]) \subseteq Settled'
      BY <1>2, <1>3, <2>1 DEF JobOK, Settled
    <2>10. j.unchecked \union j.fresh \subseteq Shown \intersect Signal
      BY <1>2, <2>1, <2>3 DEF JobOK
    <2>11. j.pc \notin {"idle", "write"} /\ (j.pc # "check" => j.unchecked = {})
      BY <2>1
    <2>12. UNCHANGED env
      OBVIOUS
    <2> HIDE DEF j
    <2> QED
      BY <1>5, <2>7, <2>8, <2>9, <2>10, <2>11, <2>12
      DEF JobOK, Shown, Behind, Prompt, Stamp, env
  <1> QED
    BY <1>4, <1>5, <1>6 DEF Rest

LEMMA RestCheck ==
  ASSUME IInv, NEW w \in Workers, NEW c \in Commits, Check(w, c)
  PROVE  Rest'
  <1>1. ClockOK' /\ LedgerLogged' /\ LoggedReported' /\ NothingSkipped'
    BY StoreKept DEF Check
  <1> DEFINE j == [job[w] EXCEPT
                     !.pc = IF job[w].unchecked = {c} THEN "scan" ELSE "check",
                     !.unchecked = @ \ {c},
                     !.fresh = IF IsNew(c) THEN @ \union {c} ELSE @]
  <1>2. job'[w] = j /\ \A v \in Workers \ {w} : JobOK(v)'
    BY Others DEF Check, history
  <1>3. JobOK(w)'
    <2>1. job[w] \in Job /\ JobOK(w) /\ UNCHANGED <<env, history>> /\ c \in job[w].unchecked
      BY DEF IInv, Rest, Typed, TypeOK, Check
    <2>2. /\ j.since = job[w].since /\ j.upto = job[w].upto
          /\ j.unchecked = job[w].unchecked \ {c}
          /\ j.fresh = IF IsNew(c) THEN job[w].fresh \union {c} ELSE job[w].fresh
          /\ j.pc = IF job[w].unchecked = {c} THEN "scan" ELSE "check"
      BY <2>1 DEF Job
    <2>3. ~ IsNew(c) => c \in Settled
      BY DEF IsNew, IInv, Rest, LedgerLogged, Settled
    <2>4. job[w].unchecked \union job[w].fresh \subseteq Settled \union j.unchecked \union j.fresh
      BY <2>2, <2>3
    <2>5. \A s \in Sources :
            Behind(s, j.upto[s]) \subseteq Settled \union j.unchecked \union j.fresh
      BY <2>1, <2>2, <2>4 DEF JobOK
    <2>6. j.unchecked \union j.fresh \subseteq Shown \intersect Signal
      BY <2>1, <2>2 DEF JobOK
    <2>7. j.pc # "write" /\ (j.pc # "check" => j.unchecked = {})
      BY <2>1, <2>2
    <2> HIDE DEF j
    <2> QED
      BY <1>2, <2>1, <2>2, <2>5, <2>6, <2>7
      DEF JobOK, Settled, Shown, Behind, Prompt, Stamp, env, history
  <1> QED
    BY <1>1, <1>2, <1>3 DEF Rest

\* Posting adds to what was reported.
LEMMA ReportedMore ==
  ASSUME IInv, NEW w \in Workers, Reported(w)
  PROVE  /\ \A c \in Commits : posts[c] > 0 => posts'[c] > 0
         /\ \A c \in job[w].fresh : posts'[c] > 0
  BY DEF Reported, IInv, Typed, TypeOK, Job

LEMMA RestReported ==
  ASSUME IInv, NEW w \in Workers, Reported(w),
         UNCHANGED <<env, store, logged, missed, expired>>
  PROVE  ClockOK' /\ LedgerLogged' /\ LoggedReported' /\ NothingSkipped'
  <1>1. ClockOK' /\ LedgerLogged' /\ NothingSkipped'
    BY DEF env, store, IInv, Rest, ClockOK, LedgerLogged,
           NothingSkipped, Behind, Prompt, Stamp
  <1>2. LoggedReported'
    BY ReportedMore DEF IInv, Typed, TypeOK, Rest, LoggedReported
  <1> QED
    BY <1>1, <1>2

LEMMA RestPost == ASSUME IInv, NEW w \in Workers, Post(w) PROVE Rest'
  <1>1. ClockOK' /\ LedgerLogged' /\ LoggedReported' /\ NothingSkipped'
    BY RestReported DEF Post
  <1> DEFINE j == [job[w] EXCEPT
                     !.pc = "write",
                     !.owed = {s \in Scans(job[w].task) :
                                 job[w].fresh \intersect Feed(s) # {}}]
  <1>2. job'[w] = j /\ \A v \in Workers \ {w} : JobOK(v)'
    BY Others, ReportedMore DEF Post
  <1>3. JobOK(w)'
    <2>1. /\ job[w] \in Job /\ JobOK(w) /\ job[w].pc = "scan"
          /\ UNCHANGED <<env, logged, missed>>
      BY DEF IInv, Rest, Typed, TypeOK, Post, Scanned
    <2>2. /\ j.since = job[w].since /\ j.upto = job[w].upto
          /\ j.unchecked = job[w].unchecked /\ j.fresh = job[w].fresh
          /\ j.pc = "write"
      BY <2>1 DEF Job
    <2>3. \A c \in j.fresh : posts'[c] > 0
      BY <2>2, ReportedMore DEF Post
    <2>4. j.unchecked = {}
      BY <2>1, <2>2 DEF JobOK
    <2> HIDE DEF j
    <2> QED
      BY <1>2, <2>1, <2>2, <2>3, <2>4
      DEF JobOK, Settled, Shown, Behind, Prompt, Stamp, env
  <1> QED
    BY <1>1, <1>2, <1>3 DEF Rest

LEMMA RestPostUnconfirmed ==
  ASSUME IInv, TypeOK', NEW w \in Workers, PostUnconfirmed(w)
  PROVE  Rest'
  <1>1. ClockOK' /\ LedgerLogged' /\ LoggedReported' /\ NothingSkipped'
    BY RestReported DEF PostUnconfirmed
  <1>2. job'[w] = Idle /\ \A v \in Workers \ {w} : JobOK(v)'
    BY Others, ReportedMore DEF PostUnconfirmed, Abort
  <1>3. JobOK(w)'
    BY <1>2 DEF JobOK, Idle, TypeOK, Behind, Stamp, Times
  <1> QED
    BY <1>1, <1>2, <1>3 DEF Rest

LEMMA RestRecord == ASSUME IInv, NEW w \in Workers, NEW r, Record(w, r) PROVE Rest'
  <1> DEFINE batch == {c \in job[w].fresh : RepoOf[c] = r}
             j == [job[w] EXCEPT !.fresh = @ \ batch]
  <1>1. /\ logged' = logged \union batch /\ Becomes(w, j) /\ job[w].pc = "write"
        /\ ledger' = [c \in Commits |-> IF c \in batch THEN now + TTL ELSE ledger[c]]
        /\ UNCHANGED <<env, cursor, queue, faults, posts, missed, expired>>
    BY DEF Record
  <1>2. job[w] \in Job /\ JobOK(w) /\ batch \subseteq job[w].fresh
    BY DEF IInv, Rest, Typed, TypeOK
  <1> HIDE DEF batch
  <1>3. ClockOK' /\ NothingSkipped'
    BY <1>1 DEF env, IInv, Rest, ClockOK, NothingSkipped, Behind, Prompt, Stamp
  <1>4. LedgerLogged'
    BY <1>1 DEF IInv, Rest, LedgerLogged
  <1>5. LoggedReported'
    BY <1>1, <1>2 DEF IInv, Rest, LoggedReported, JobOK
  <1>6. job'[w] = j /\ \A v \in Workers \ {w} : JobOK(v)'
    BY <1>1, Others
  <1>7. JobOK(w)'
    <2>1. /\ j.since = job[w].since /\ j.upto = job[w].upto /\ j.pc = "write"
          /\ j.unchecked = job[w].unchecked /\ j.fresh = job[w].fresh \ batch
      BY <1>1, <1>2 DEF Job
    <2>2. Settled' = Settled \union batch
      BY <1>1 DEF Settled
    <2>3. \A s \in Sources :
            /\ Behind(s, j.since[s]) \subseteq Settled'
            /\ Behind(s, j.upto[s]) \subseteq Settled' \union j.unchecked \union j.fresh
      BY <1>2, <2>1, <2>2 DEF JobOK
    <2> HIDE DEF j
    <2> QED
      BY <1>1, <1>2, <1>6, <2>1, <2>2, <2>3
      DEF JobOK, Shown, Behind, Prompt, Stamp, env
  <1> QED
    BY <1>3, <1>4, <1>5, <1>6, <1>7 DEF Rest

\* The cursor is written when nothing of its section is left to record, so
\* what lies behind it is settled.
LEMMA CursorSettled ==
  ASSUME IInv, NEW w \in Workers, NEW s \in Sources, SetCursor(w, s)
  PROVE  Behind(s, job[w].upto[s]) \subseteq Settled
  <1>1. JobOK(w) /\ job[w].pc = "write" /\ job[w].fresh \intersect Feed(s) = {}
    BY DEF IInv, Rest, SetCursor
  <1>2. job[w].unchecked = {}
    BY <1>1 DEF JobOK
  <1>3. Behind(s, job[w].upto[s]) \subseteq Feed(s)
    BY DEF Behind
  <1> QED
    BY <1>1, <1>2, <1>3 DEF JobOK

LEMMA RestSetCursor ==
  ASSUME IInv, TypeOK', NEW w \in Workers, NEW s \in Sources, SetCursor(w, s)
  PROVE  Rest'
  <1> DEFINE j == IF job[w].owed = {s} THEN Idle ELSE [job[w] EXCEPT !.owed = @ \ {s}]
  <1>1. /\ cursor' = [cursor EXCEPT ![s] = job[w].upto[s]] /\ Becomes(w, j)
        /\ job[w].pc = "write" /\ UNCHANGED <<env, ledger, history>>
    BY DEF SetCursor
  <1>2. job[w] \in Job /\ JobOK(w)
    BY DEF IInv, Rest, Typed, TypeOK
  <1>3. ClockOK'
    BY <1>1, <1>2 DEF env, IInv, Typed, TypeOK, Rest, ClockOK, JobOK
  <1>4. LedgerLogged' /\ LoggedReported'
    BY <1>1 DEF history, IInv, Rest, LedgerLogged, LoggedReported
  <1>5. NothingSkipped'
    <2>1. \A r \in Sources : Behind(r, cursor'[r]) \subseteq Settled
      BY <1>1, CursorSettled DEF IInv, Rest, NothingSkipped, Typed, TypeOK, Settled
    <2> QED
      BY <1>1, <2>1 DEF NothingSkipped, Settled, Behind, Prompt, Stamp, env, history
  <1>6. job'[w] = j /\ \A v \in Workers \ {w} : JobOK(v)'
    BY <1>1, Others DEF history
  <1>7. JobOK(w)'
    <2>1. CASE job[w].owed = {s}
      BY <1>6, <2>1 DEF JobOK, Idle, TypeOK, Behind, Stamp, Times
    <2>2. CASE job[w].owed # {s}
      <3>1. /\ j.since = job[w].since /\ j.upto = job[w].upto /\ j.pc = job[w].pc
            /\ j.unchecked = job[w].unchecked /\ j.fresh = job[w].fresh
        BY <1>2, <2>2 DEF Job
      <3> HIDE DEF j
      <3> QED
        BY <1>1, <1>2, <1>6, <3>1
        DEF JobOK, Settled, Shown, Behind, Prompt, Stamp, env, history
    <2> QED
      BY <2>1, <2>2
  <1> QED
    BY <1>3, <1>4, <1>5, <1>6, <1>7 DEF Rest

LEMMA IInvNext == IInv /\ [Next]_vars => IInv'
  <1> SUFFICES ASSUME IInv, [Next]_vars PROVE IInv'
    OBVIOUS
  <1>1. Typed' /\ TypeOK'
    BY TypedNext DEF IInv, Typed
  <1>2. CASE Tick
    BY <1>1, <1>2, RestTick DEF IInv
  <1>3. ASSUME NEW c \in Commits, Push(c) PROVE Rest'
    BY <1>3, RestPush
  <1>3a. ASSUME NEW c \in Commits, Expire(c) PROVE Rest'
    BY <1>3a, RestExpire
  <1>4. ASSUME NEW t \in Tasks, Enqueue(t) PROVE Rest'
    BY <1>4, RestEnqueue
  <1>5. ASSUME NEW w \in Workers, Timeout(w) PROVE Rest'
    BY <1>5, RestTimeout
  <1>6. ASSUME NEW w \in Workers, NEW m \in queue, Start(w, m) PROVE Rest'
    BY <1>6, RestStart
  <1>7. ASSUME NEW w \in Workers, NEW s \in Sources, Fetch(w, s) PROVE Rest'
    <2>1. PICK got \in SUBSET Eligible(s, job[w].since[s]) : Keep(w, s, got)
      BY <1>7 DEF Fetch
    <2> QED
      BY <1>7, <2>1, RestKeep DEF Fetch
  <1>8. ASSUME NEW w \in Workers, NEW s \in Sources, FetchPartly(w, s) PROVE Rest'
    <2>1. PICK got \in SUBSET Eligible(s, job[w].since[s]) : Keep(w, s, got)
      BY <1>8 DEF FetchPartly
    <2> QED
      BY <1>8, <2>1, RestKeep DEF FetchPartly
  <1>9. ASSUME NEW w \in Workers, NEW c \in Commits, Check(w, c) PROVE Rest'
    BY <1>9, RestCheck
  <1>10. ASSUME NEW w \in Workers, NothingNew(w) PROVE Rest'
    BY <1>1, <1>10, RestIdle DEF NothingNew
  <1>11. ASSUME NEW w \in Workers, Post(w) PROVE Rest'
    BY <1>11, RestPost
  <1>12. ASSUME NEW w \in Workers, PostUnconfirmed(w) PROVE Rest'
    BY <1>1, <1>12, RestPostUnconfirmed
  <1>13. ASSUME NEW w \in Workers, NEW r, Record(w, r) PROVE Rest'
    BY <1>13, RestRecord
  <1>14. ASSUME NEW w \in Workers, NEW s \in Sources, SetCursor(w, s) PROVE Rest'
    BY <1>1, <1>14, RestSetCursor
  <1>15. ASSUME NEW w \in Workers, Fail(w) PROVE Rest'
    BY <1>1, <1>15, RestIdle DEF Fail, Abort
  <1>16. CASE UNCHANGED vars
    <2>1. ClockOK' /\ LedgerLogged' /\ LoggedReported' /\ NothingSkipped'
      BY <1>16, StoreKept DEF vars
    <2>2. ASSUME NEW w \in Workers PROVE JobOK(w)'
      <3>1. /\ job'[w] = job[w] /\ UNCHANGED <<pushedAt, dated>> /\ now' = now
            /\ logged' = logged /\ missed' = missed /\ posts' = posts
        BY <1>16 DEF vars, env, history
      <3>2. now \in Nat
        BY DEF IInv, Typed, TypeOK
      <3> QED
        BY <3>1, <3>2, OtherJob
    <2> QED
      BY <1>1, <2>1, <2>2 DEF IInv, Rest
  <1> QED
    BY <1>1, <1>2, <1>3, <1>3a, <1>4, <1>5, <1>6, <1>7, <1>8, <1>9, <1>10, <1>11,
       <1>12, <1>13, <1>14, <1>15, <1>16
    DEF Next, World, Queue, Handler, Step, IInv

LEMMA IInvAlways == Spec => []IInv
  BY IInvInit, IInvNext, PTL DEF Spec

-----------------------------------------------------------------------------
\* However handlers race, fail and are retried, the ledger only holds commits
\* that some message reported.
THEOREM LedgerSound == Spec => []LedgerOnlyReported
  <1>1. IInv => LedgerOnlyReported
    BY DEF IInv, Rest, LedgerLogged, LoggedReported, LedgerOnlyReported
  <1> QED
    BY <1>1, IInvAlways, PTL

\* No cursor ever moves past a signal commit that was neither reported and
\* recorded nor left out by a fetch.
THEOREM NoCommitSkipped == Spec => []NothingSkipped
  <1>1. IInv => NothingSkipped
    BY DEF IInv, Rest
  <1> QED
    BY <1>1, IInvAlways, PTL

-----------------------------------------------------------------------------
(***************************************************************************)
(* Refinement: every step is a step of Reporting or leaves it alone.       *)
(***************************************************************************)
LEMMA PromiseInit == IInv /\ Init => Promise!Init
  BY DEF IInv, Typed, TypeOK, Init, Promise!Init, Behind, Prompt

\* A step that leaves alone what GitHub shows, the cursors and the history.
LEMMA PromiseStutter ==
  ASSUME UNCHANGED <<env, cursor, posts, logged, missed>>
  PROVE  UNCHANGED Promise!promise
  BY DEF env, Promise!promise, Behind, Prompt, Stamp

LEMMA PromiseReport ==
  ASSUME IInv, NEW w \in Workers, Reported(w),
         UNCHANGED <<env, store, logged, missed, expired>>
  PROVE  Promise!Next
  <1>1. job[w].fresh \subseteq Shown \intersect Signal
    BY DEF IInv, Rest, JobOK
  <1>2. job[w].fresh \in SUBSET Commits
    BY DEF IInv, Typed, TypeOK, Job
  <1>3. {c \in Commits : posts'[c] > 0} = {c \in Commits : posts[c] > 0} \union job[w].fresh
    BY <1>2 DEF Reported, IInv, Typed, TypeOK
  <1>4. UNCHANGED <<Shown, logged, missed, [s \in Sources |-> Behind(s, cursor[s])]>>
    BY DEF env, store, Shown, Behind, Prompt, Stamp
  <1>5. PICK batch \in SUBSET Commits : batch = job[w].fresh
    BY <1>2
  <1>6. Promise!Report(batch)
    <2>1. batch \subseteq {c \in Commits : pushedAt[c] # 0} \intersect Signal
      BY <1>1, <1>5 DEF Shown
    <2>2. UNCHANGED <<{c \in Commits : pushedAt[c] # 0}, logged, missed,
                      [s \in Sources |-> Behind(s, cursor[s])]>>
      BY <1>4 DEF Shown
    <2> QED
      BY <1>3, <1>5, <2>1, <2>2, Zenon DEF Promise!Report
  <1> QED
    BY <1>6 DEF Promise!Next

LEMMA PromiseKeep ==
  ASSUME IInv, NEW w \in Workers, NEW s \in Sources, NEW got, Keep(w, s, got),
         UNCHANGED <<env, store, posts, logged, expired>>
  PROVE  Promise!Next
  <1> DEFINE left == Eligible(s, job[w].since[s]) \ got
  <1>1. left \in SUBSET Commits /\ left \subseteq {c \in Commits : pushedAt[c] # 0}
    BY FeedsAreCommits DEF Eligible
  <1>2. Promise!Drop(left)
    BY <1>1 DEF Keep, Promise!Drop, env, store, Behind, Prompt, Stamp
  <1> QED
    BY <1>1, <1>2 DEF Promise!Next

LEMMA PromiseStep == IInv /\ [Next]_vars => [Promise!Next]_(Promise!promise)
  <1> SUFFICES ASSUME IInv, [Next]_vars PROVE Promise!Next \/ UNCHANGED Promise!promise
    OBVIOUS
  <1> USE DEF store, history
  <1>1. CASE Tick
    BY <1>1 DEF Tick, Promise!promise, Behind, Prompt, Stamp
  <1>2. ASSUME NEW c \in Commits, Push(c) PROVE Promise!Next
    <2>1. {d \in Commits : pushedAt'[d] # 0} = {d \in Commits : pushedAt[d] # 0} \union {c}
      BY <1>2 DEF Push, IInv, Typed, TypeOK
    <2>2. ASSUME NEW s \in Sources PROVE Behind(s, cursor[s])' = Behind(s, cursor[s])
      <3>1. cursor[s] \in Times /\ cursor[s] <= now /\ cursor' = cursor
        BY <1>2 DEF Push, IInv, Typed, TypeOK, Rest, ClockOK
      <3>2. \A t \in Times : t <= now => Behind(s, t)' = Behind(s, t)
        BY <1>2, PushIsAhead
      <3> QED
        BY <3>1, <3>2 DEF Behind
    <2>3. Promise!Show(c)
      BY <1>2, <2>1, <2>2 DEF Push, Promise!Show
    <2> QED
      BY <2>3 DEF Promise!Next
  <1>3. ASSUME NEW c \in Commits, Expire(c) PROVE UNCHANGED Promise!promise
    BY <1>3, PromiseStutter DEF Expire
  <1>4. ASSUME NEW t \in Tasks, Enqueue(t) PROVE UNCHANGED Promise!promise
    BY <1>4, PromiseStutter DEF Enqueue
  <1>5. ASSUME NEW w \in Workers, Timeout(w) PROVE UNCHANGED Promise!promise
    BY <1>5, PromiseStutter DEF Timeout
  <1>6. ASSUME NEW w \in Workers, NEW m \in queue, Start(w, m)
        PROVE  UNCHANGED Promise!promise
    BY <1>6, PromiseStutter DEF Start
  <1>7. ASSUME NEW w \in Workers, NEW s \in Sources, Fetch(w, s) PROVE Promise!Next
    <2>1. PICK got : Keep(w, s, got)
      BY <1>7 DEF Fetch
    <2> QED
      BY <1>7, <2>1, PromiseKeep DEF Fetch
  <1>8. ASSUME NEW w \in Workers, NEW s \in Sources, FetchPartly(w, s) PROVE Promise!Next
    <2>1. PICK got : Keep(w, s, got)
      BY <1>8 DEF FetchPartly
    <2> QED
      BY <1>8, <2>1, PromiseKeep DEF FetchPartly
  <1>9. ASSUME NEW w \in Workers, NEW c \in Commits, Check(w, c)
        PROVE  UNCHANGED Promise!promise
    BY <1>9, PromiseStutter DEF Check
  <1>10. ASSUME NEW w \in Workers, NothingNew(w) PROVE UNCHANGED Promise!promise
    BY <1>10, PromiseStutter DEF NothingNew
  <1>11. ASSUME NEW w \in Workers, Post(w) PROVE Promise!Next
    BY <1>11, PromiseReport DEF Post
  <1>12. ASSUME NEW w \in Workers, PostUnconfirmed(w) PROVE Promise!Next
    BY <1>12, PromiseReport DEF PostUnconfirmed
  <1>13. ASSUME NEW w \in Workers, NEW r, Record(w, r) PROVE Promise!Next
    <2> DEFINE batch == {c \in job[w].fresh : RepoOf[c] = r}
    <2>1. batch \in SUBSET Commits /\ batch \subseteq {c \in Commits : posts[c] > 0}
      BY <1>13 DEF Record, IInv, Typed, TypeOK, Job, Rest, JobOK
    <2>2. Promise!Record(batch)
      BY <1>13, <2>1 DEF Record, Promise!Record, env, Behind, Prompt, Stamp
    <2> QED
      BY <2>1, <2>2 DEF Promise!Next
  <1>14. ASSUME NEW w \in Workers, NEW s \in Sources, SetCursor(w, s) PROVE Promise!Next
    <2> DEFINE batch == Behind(s, job[w].upto[s])
    <2>1. batch \in SUBSET Commits /\ batch \subseteq logged \union missed
      BY <1>14, CursorSettled, FeedsAreCommits DEF Behind, Settled
    <2>2. cursor' = [cursor EXCEPT ![s] = job[w].upto[s]] /\ UNCHANGED env
      BY <1>14 DEF SetCursor
    <2>3. [r \in Sources |-> Behind(r, cursor[r])]'
            = [[r \in Sources |-> Behind(r, cursor[r])] EXCEPT ![s] = batch]
      <3>1. ASSUME NEW r \in Sources
            PROVE  Behind(r, cursor[r])' = IF r = s THEN batch ELSE Behind(r, cursor[r])
        BY <2>2 DEF env, Behind, Prompt, Stamp, IInv, Typed, TypeOK
      <3> HIDE DEF batch
      <3> QED
        BY <3>1
    <2>4. Promise!Settle(s, batch)
      <3> HIDE DEF batch
      <3> QED
        BY <1>14, <2>1, <2>3 DEF SetCursor, Promise!Settle, env
    <2> QED
      BY <2>1, <2>4 DEF Promise!Next
  <1>15. ASSUME NEW w \in Workers, Fail(w) PROVE UNCHANGED Promise!promise
    BY <1>15, PromiseStutter DEF Fail, Abort
  <1>16. CASE UNCHANGED vars
    BY <1>16, PromiseStutter DEF vars
  <1> QED
    BY <1>1, <1>2, <1>3, <1>4, <1>5, <1>6, <1>7, <1>8, <1>9, <1>10, <1>11, <1>12,
       <1>13, <1>14, <1>15, <1>16
    DEF Next, World, Queue, Handler, Step

\* The handlers implement the promise of Reporting: each step posts only shown
\* signal commits, records only posted ones, settles only recorded or dropped
\* ones, or changes nothing the promise speaks of.
THEOREM DeliveryKeepsPromise == Spec => KeepsPromise
  <1>1. Spec => Init /\ []IInv /\ [][Next]_vars
    BY IInvAlways, PTL DEF Spec
  <1>2. IInv /\ Init => Promise!Init
    BY PromiseInit
  <1>3. IInv /\ [Next]_vars => [Promise!Next]_(Promise!promise)
    BY PromiseStep
  <1> QED
    BY <1>1, <1>2, <1>3, PTL DEF KeepsPromise, Promise!Spec

-----------------------------------------------------------------------------
(***************************************************************************)
(* Repeats are bounded.  While the ledger does not hold a commit, every    *)
(* worker may still post it but those that did and have not recorded it    *)
(* yet; while it does, only those that looked it up before may.  The posts *)
(* made and the workers that may still post are at most what the workers,  *)
(* the expired documents and the faults allow.                             *)
(*                                                                         *)
(* A worker stops writing with nothing left to record, since each commit   *)
(* it reported belongs to a source whose cursor it owes: this is Scoped.   *)
(***************************************************************************)
Scoped(w) ==
  LET j == job[w] IN
  /\ j.pc = "idle" => j.fresh = {}
  /\ j.pc \in {"scan", "check"} =>
       /\ j.todo \subseteq Scans(j.task)
       /\ \A c \in j.unchecked \union j.fresh : \E s \in Scans(j.task) : c \in Feed(s)
  /\ j.pc = "write" => \A c \in j.fresh : \E s \in j.owed : c \in Feed(s)

SInv == IInv /\ \A w \in Workers : Scoped(w)

\* The job of w becomes j and is scoped; the others stay what they were.
LEMMA ScopedStep ==
  ASSUME SInv, NEW w \in Workers, NEW j, Becomes(w, j), job'[w] = j => Scoped(w)'
  PROVE  \A v \in Workers : Scoped(v)'
  <1>1. job'[w] = j /\ \A v \in Workers \ {w} : job'[v] = job[v]
    BY DEF Becomes, SInv, IInv, Typed, TypeOK
  <1>2. ASSUME NEW v \in Workers \ {w} PROVE Scoped(v)'
    BY <1>1, <1>2 DEF SInv, Scoped
  <1> QED
    BY <1>1, <1>2

LEMMA IdleFields ==
  /\ Idle.pc = "idle" /\ Idle.fresh = {} /\ Idle.unchecked = {} /\ Idle.todo = {}
  BY DEF Idle

LEMMA ScopedIdle ==
  ASSUME SInv, NEW w \in Workers, Becomes(w, Idle)
  PROVE  \A v \in Workers : Scoped(v)'
  <1>1. job'[w] = Idle => Scoped(w)'
    BY IdleFields DEF Scoped
  <1> QED
    BY <1>1, ScopedStep

LEMMA ScopedKeep ==
  ASSUME SInv, NEW w \in Workers, NEW s \in job[w].todo, NEW got, job[w].pc = "scan",
         got \subseteq Eligible(s, job[w].since[s]), Keep(w, s, got)
  PROVE  \A v \in Workers : Scoped(v)'
  <1>1. PICK t \in Times :
          Becomes(w, [job[w] EXCEPT
            !.pc = IF got \intersect Signal = {} THEN "scan" ELSE "check",
            !.todo = @ \ {s},
            !.unchecked = got \intersect Signal,
            !.upto = [job[w].upto EXCEPT ![s] = t]])
    BY DEF Keep
  <1> DEFINE j == [job[w] EXCEPT
                     !.pc = IF got \intersect Signal = {} THEN "scan" ELSE "check",
                     !.todo = @ \ {s},
                     !.unchecked = got \intersect Signal,
                     !.upto = [job[w].upto EXCEPT ![s] = t]]
  <1>2. job[w] \in Job /\ Scoped(w)
    BY DEF SInv, IInv, Typed, TypeOK
  <1>3. /\ j.pc = IF got \intersect Signal = {} THEN "scan" ELSE "check"
        /\ j.task = job[w].task /\ j.todo = job[w].todo \ {s}
        /\ j.unchecked = got \intersect Signal /\ j.fresh = job[w].fresh
    BY <1>2 DEF Job
  <1>4. Becomes(w, j)
    BY <1>1
  <1> HIDE DEF j
  <1>5. s \in Scans(job[w].task) /\ got \subseteq Feed(s)
    BY <1>2 DEF Scoped, Eligible
  <1>6. job'[w] = j => Scoped(w)'
    BY <1>2, <1>3, <1>5 DEF Scoped
  <1> QED
    BY <1>4, <1>6, ScopedStep

LEMMA ScopedNext == SInv /\ [Next]_vars => SInv'
  <1> SUFFICES ASSUME SInv, [Next]_vars PROVE \A v \in Workers : Scoped(v)'
    BY IInvNext DEF SInv
  <1>0. \A w \in Workers : job[w] \in Job /\ Scoped(w)
    BY DEF SInv, IInv, Typed, TypeOK
  <1>1. ASSUME UNCHANGED job PROVE \A v \in Workers : Scoped(v)'
    BY <1>0, <1>1 DEF Scoped
  <1>2. CASE World
    BY <1>1, <1>2 DEF World, Tick, Push, Expire
  <1>3. ASSUME NEW t \in Tasks, Enqueue(t) PROVE \A v \in Workers : Scoped(v)'
    BY <1>1, <1>3 DEF Enqueue
  <1>4. ASSUME NEW w \in Workers, Timeout(w) PROVE \A v \in Workers : Scoped(v)'
    <2> DEFINE j == [job[w] EXCEPT !.attempt = 0]
    <2>1. /\ j.pc = job[w].pc /\ j.task = job[w].task /\ j.todo = job[w].todo
          /\ j.unchecked = job[w].unchecked /\ j.fresh = job[w].fresh /\ j.owed = job[w].owed
      BY <1>0 DEF Job
    <2>2. Becomes(w, j)
      BY <1>4 DEF Timeout
    <2> HIDE DEF j
    <2>3. job'[w] = j => Scoped(w)'
      BY <1>0, <2>1 DEF Scoped
    <2> QED
      BY <2>2, <2>3, ScopedStep
  <1>5. ASSUME NEW w \in Workers, NEW m \in queue, Start(w, m)
        PROVE  \A v \in Workers : Scoped(v)'
    <2> DEFINE j == [Idle EXCEPT
                       !.pc = "scan", !.task = m.task, !.attempt = m.attempt,
                       !.todo = Scans(m.task),
                       !.since = [s \in Sources |-> IF s \in Scans(m.task) THEN cursor[s] ELSE 0]]
    <2>1. /\ j.pc = "scan" /\ j.task = m.task /\ j.todo = Scans(m.task)
          /\ j.unchecked = {} /\ j.fresh = {}
      BY DEF Idle
    <2>2. Becomes(w, j)
      BY <1>5 DEF Start
    <2> HIDE DEF j
    <2>3. job'[w] = j => Scoped(w)'
      BY <2>1 DEF Scoped
    <2> QED
      BY <2>2, <2>3, ScopedStep
  <1>6. ASSUME NEW w \in Workers, NEW s \in Sources, Fetch(w, s) \/ FetchPartly(w, s)
        PROVE  \A v \in Workers : Scoped(v)'
    <2>1. PICK got : got \subseteq Eligible(s, job[w].since[s]) /\ Keep(w, s, got)
      BY <1>6 DEF Fetch, FetchPartly
    <2>2. job[w].pc = "scan" /\ s \in job[w].todo
      BY <1>6 DEF Fetch, FetchPartly
    <2> QED
      BY <2>1, <2>2, ScopedKeep
  <1>7. ASSUME NEW w \in Workers, NEW c \in Commits, Check(w, c)
        PROVE  \A v \in Workers : Scoped(v)'
    <2> DEFINE j == [job[w] EXCEPT
                       !.pc = IF job[w].unchecked = {c} THEN "scan" ELSE "check",
                       !.unchecked = @ \ {c},
                       !.fresh = IF IsNew(c) THEN @ \union {c} ELSE @]
    <2>1. /\ j.pc = IF job[w].unchecked = {c} THEN "scan" ELSE "check"
          /\ j.task = job[w].task /\ j.todo = job[w].todo
          /\ j.unchecked = job[w].unchecked \ {c}
          /\ j.fresh = IF IsNew(c) THEN job[w].fresh \union {c} ELSE job[w].fresh
      BY <1>0 DEF Job
    <2>2. Becomes(w, j) /\ job[w].pc = "check" /\ c \in job[w].unchecked
      BY <1>7 DEF Check
    <2> HIDE DEF j
    <2>3. j.unchecked \union j.fresh \subseteq job[w].unchecked \union job[w].fresh
          /\ j.pc \in {"scan", "check"}
      BY <2>1, <2>2
    <2>4. job'[w] = j => Scoped(w)'
      BY <1>0, <2>1, <2>2, <2>3 DEF Scoped
    <2> QED
      BY <2>2, <2>4, ScopedStep
  <1>8. ASSUME NEW w \in Workers, NothingNew(w) \/ PostUnconfirmed(w) \/ Fail(w)
        PROVE  \A v \in Workers : Scoped(v)'
    BY <1>8, ScopedIdle DEF NothingNew, PostUnconfirmed, Fail, Abort
  <1>9. ASSUME NEW w \in Workers, Post(w) PROVE \A v \in Workers : Scoped(v)'
    <2> DEFINE owed == {s \in Scans(job[w].task) : job[w].fresh \intersect Feed(s) # {}}
               j == [job[w] EXCEPT !.pc = "write", !.owed = owed]
    <2>1. j.pc = "write" /\ j.fresh = job[w].fresh /\ j.owed = owed
      BY <1>0 DEF Job
    <2>2. Becomes(w, j) /\ job[w].pc = "scan"
      BY <1>9 DEF Post, Scanned
    <2>3. \A c \in job[w].fresh : \E s \in owed : c \in Feed(s)
      BY <1>0, <2>2 DEF Scoped
    <2> HIDE DEF j, owed
    <2>4. job'[w] = j => Scoped(w)'
      BY <2>1, <2>3 DEF Scoped
    <2> QED
      BY <2>2, <2>4, ScopedStep
  <1>10. ASSUME NEW w \in Workers, NEW r, Record(w, r) PROVE \A v \in Workers : Scoped(v)'
    <2> DEFINE batch == {c \in job[w].fresh : RepoOf[c] = r}
               j == [job[w] EXCEPT !.fresh = @ \ batch]
    <2> HIDE DEF batch
    <2>1. j.pc = job[w].pc /\ j.fresh = job[w].fresh \ batch /\ j.owed = job[w].owed
      BY <1>0 DEF Job
    <2>2. Becomes(w, j) /\ job[w].pc = "write"
      BY <1>10 DEF Record, batch
    <2> HIDE DEF j
    <2>3. job'[w] = j => Scoped(w)'
      BY <1>0, <2>1, <2>2 DEF Scoped
    <2> QED
      BY <2>2, <2>3, ScopedStep
  <1>11. ASSUME NEW w \in Workers, NEW s \in Sources, SetCursor(w, s)
         PROVE  \A v \in Workers : Scoped(v)'
    <2>1. CASE job[w].owed = {s}
      BY <1>11, <2>1, ScopedIdle DEF SetCursor
    <2>2. CASE job[w].owed # {s}
      <3> DEFINE j == [job[w] EXCEPT !.owed = @ \ {s}]
      <3>1. j.pc = job[w].pc /\ j.fresh = job[w].fresh /\ j.owed = job[w].owed \ {s}
        BY <1>0 DEF Job
      <3>2. Becomes(w, j) /\ job[w].pc = "write" /\ job[w].fresh \intersect Feed(s) = {}
        BY <1>11, <2>2 DEF SetCursor
      <3> HIDE DEF j
      <3>3. job'[w] = j => Scoped(w)'
        BY <1>0, <3>1, <3>2 DEF Scoped
      <3> QED
        BY <3>2, <3>3, ScopedStep
    <2> QED
      BY <2>1, <2>2
  <1>12. CASE UNCHANGED vars
    BY <1>1, <1>12 DEF vars
  <1> QED
    BY <1>2, <1>3, <1>4, <1>5, <1>6, <1>7, <1>8, <1>9, <1>10, <1>11, <1>12
    DEF Next, Queue, Handler, Step

-----------------------------------------------------------------------------
MayPost(w, c) ==
  IF ledger[c] = 0 THEN ~ (job[w].pc = "write" /\ c \in job[w].fresh)
  ELSE job[w].pc \in {"scan", "check"} /\ c \in job[w].fresh

Posters(c) == {w \in Workers : MayPost(w, c)}

Allowed(c) == Cardinality(Workers) * (1 + expired[c]) + faults

Within(c) == posts[c] + Cardinality(Posters(c)) <= Allowed(c)

RInv == SInv /\ \A c \in Commits : Within(c)

LEMMA PostersCount ==
  ASSUME NEW c
  PROVE  /\ IsFiniteSet(Posters(c)) /\ Cardinality(Posters(c)) \in Nat
         /\ Cardinality(Workers) \in Nat /\ Cardinality(Posters(c)) <= Cardinality(Workers)
  <1>1. Posters(c) \in SUBSET Workers
    BY DEF Posters
  <1> QED
    BY <1>1, WorkersFinite, Part

LEMMA AllowedNat ==
  ASSUME TypeOK, NEW c \in Commits
  PROVE  Allowed(c) \in Nat /\ posts[c] \in Nat /\ faults \in Nat /\ expired[c] \in Nat
  <1>1. posts[c] \in Nat /\ faults \in Nat /\ expired[c] \in Nat
    BY DEF TypeOK
  <1>2. \A n, k \in Nat : n * k \in Nat
    OBVIOUS
  <1> QED
    BY <1>1, <1>2, PostersCount DEF Allowed

\* No worker may post the commit that could not before.
LEMMA NoNewPoster ==
  ASSUME RInv, TypeOK', NEW c \in Commits,
         posts'[c] = posts[c], expired'[c] = expired[c],
         faults' = faults \/ faults' = faults + 1,
         \A w \in Workers : MayPost(w, c)' => MayPost(w, c)
  PROVE  Within(c)'
  <1>1. Posters(c)' \in SUBSET Posters(c)
    BY DEF Posters
  <1>2. Cardinality(Posters(c)') \in Nat /\ Cardinality(Posters(c)') <= Cardinality(Posters(c))
    BY <1>1, PostersCount, Part
  <1>3. TypeOK
    BY DEF RInv, SInv, IInv, Typed
  <1>4. Cardinality(Workers) * (1 + expired[c]) \in Nat
    <2>1. \A n, k \in Nat : n * k \in Nat
      OBVIOUS
    <2> QED
      BY <1>3, <2>1, PostersCount, AllowedNat
  <1>5. Allowed(c)' = Allowed(c) \/ Allowed(c)' = Allowed(c) + 1
    BY <1>3, <1>4, AllowedNat DEF Allowed
  <1> QED
    BY <1>2, <1>3, <1>5, PostersCount, AllowedNat DEF RInv, Within

\* An expired document gives every worker one more post.
LEMMA ExpireWithin ==
  ASSUME RInv, TypeOK', NEW c \in Commits, faults' = faults, posts'[c] = posts[c],
         expired'[c] = expired[c] + 1
  PROVE  Within(c)'
  <1>1. TypeOK
    BY DEF RInv, SInv, IInv, Typed
  <1>2. Posters(c)' \in SUBSET Workers
    BY DEF Posters
  <1>3. Cardinality(Posters(c)') \in Nat /\ Cardinality(Posters(c)') <= Cardinality(Workers)
    BY <1>2, WorkersFinite, Part
  <1>4. Allowed(c)' = Allowed(c) + Cardinality(Workers)
    <2>1. \A n, k \in Nat : n * (1 + (k + 1)) = n * (1 + k) + n /\ n * (1 + k) \in Nat
      OBVIOUS
    <2> QED
      BY <1>1, <2>1, PostersCount, AllowedNat DEF Allowed
  <1> QED
    BY <1>1, <1>3, <1>4, PostersCount, AllowedNat DEF RInv, Within

\* What happens to w alone: a post that w was entitled to, or a fault.
LEMMA OnePoster ==
  ASSUME RInv, TypeOK', NEW w \in Workers, NEW j, Becomes(w, j), UNCHANGED <<ledger, expired>>,
         NEW c \in Commits,
         posts'[c] + In(w, Posters(c)') + faults <= posts[c] + In(w, Posters(c)) + faults'
  PROVE  Within(c)'
  <1>1. TypeOK
    BY DEF RInv, SInv, IInv, Typed
  <1>2. \A v \in Workers \ {w} : job'[v] = job[v]
    BY <1>1 DEF Becomes, TypeOK
  <1>3. Posters(c)' \ {w} \subseteq Posters(c)
    BY <1>2 DEF Posters, MayPost
  <1>4. /\ Cardinality(Posters(c)') \in Nat
        /\ Cardinality(Posters(c)') + In(w, Posters(c)) <= Cardinality(Posters(c)) + In(w, Posters(c)')
    BY <1>3, PostersCount, OneMoves
  <1>5. In(w, Posters(c)) \in Nat /\ In(w, Posters(c)') \in Nat
    BY DEF In
  <1>6. posts'[c] \in Nat /\ faults' \in Nat /\ Allowed(c)' + faults = Allowed(c) + faults'
        /\ Allowed(c)' \in Nat
    <2>1. posts'[c] \in Nat /\ faults' \in Nat
      BY DEF TypeOK
    <2>2. \A n, k \in Nat : n * k \in Nat
      OBVIOUS
    <2>3. Cardinality(Workers) * (1 + expired[c]) \in Nat
      BY <1>1, <2>2, PostersCount, AllowedNat
    <2> QED
      BY <1>1, <2>1, <2>3, AllowedNat DEF Allowed
  <1> QED
    BY <1>1, <1>4, <1>5, <1>6, PostersCount, AllowedNat DEF RInv, Within

\* A message posts each fresh commit once more.
LEMMA PostWithin ==
  ASSUME RInv, TypeOK', NEW w \in Workers, Scanned(w), Reported(w), NEW j, Becomes(w, j),
         UNCHANGED <<ledger, expired>>,
         \/ j.pc = "write" /\ j.fresh = job[w].fresh /\ faults' = faults
         \/ j = Idle /\ faults' = faults + 1,
         NEW c \in Commits
  PROVE  Within(c)'
  <1>1. TypeOK
    BY DEF RInv, SInv, IInv, Typed
  <1>2. job'[w] = j /\ job[w].pc = "scan" /\ ledger' = ledger
    BY <1>1 DEF Becomes, TypeOK, Scanned
  <1>3. posts'[c] = IF c \in job[w].fresh THEN posts[c] + 1 ELSE posts[c]
    BY DEF Reported
  <1>4. w \in Posters(c) <=> (ledger[c] = 0 \/ c \in job[w].fresh)
    BY <1>2 DEF Posters, MayPost
  <1>5. /\ w \in Posters(c)' => ledger[c] = 0
        /\ w \in Posters(c)' /\ faults' = faults => c \notin job[w].fresh
    <2>1. CASE j.pc = "write" /\ j.fresh = job[w].fresh
      BY <1>2, <2>1 DEF Posters, MayPost
    <2>2. CASE j = Idle /\ faults' = faults + 1
      BY <1>1, <1>2, <2>2, IdleFields, AllowedNat DEF Posters, MayPost
    <2> QED
      BY <2>1, <2>2
  <1>6. faults' = faults \/ faults' = faults + 1
    OBVIOUS
  <1>7. posts'[c] + In(w, Posters(c)') + faults <= posts[c] + In(w, Posters(c)) + faults'
    BY <1>1, <1>3, <1>4, <1>5, <1>6, AllowedNat DEF In
  <1> QED
    BY <1>7, OnePoster

\* A handler that dies may have to post again.
LEMMA FailWithin ==
  ASSUME RInv, TypeOK', NEW w \in Workers, NEW j, Becomes(w, j), NEW c \in Commits,
         UNCHANGED <<ledger, expired, posts>>, faults' = faults + 1
  PROVE  Within(c)'
  <1>1. TypeOK
    BY DEF RInv, SInv, IInv, Typed
  <1>2. In(w, Posters(c)) \in {0, 1} /\ In(w, Posters(c)') \in {0, 1}
    BY DEF In
  <1>3. posts'[c] + In(w, Posters(c)') + faults <= posts[c] + In(w, Posters(c)) + faults'
    BY <1>1, <1>2, AllowedNat
  <1> QED
    BY <1>3, OnePoster

\* Any other step of a handler makes no new poster, if it does not end the
\* recording of what it reported.
LEMMA QuietWithin ==
  ASSUME RInv, TypeOK', NEW w \in Workers, NEW j, Becomes(w, j), NEW c \in Commits,
         UNCHANGED <<ledger, expired, posts>>, faults' = faults \/ faults' = faults + 1,
         MayPost(w, c)' => MayPost(w, c)
  PROVE  Within(c)'
  <1>1. \A v \in Workers \ {w} : job'[v] = job[v]
    BY DEF Becomes, RInv, SInv, IInv, Typed, TypeOK
  <1>2. \A v \in Workers : MayPost(v, c)' => MayPost(v, c)
    BY <1>1 DEF MayPost
  <1> QED
    BY <1>2, NoNewPoster

LEMMA RInvNext == RInv /\ [Next]_vars => RInv'
  <1> SUFFICES ASSUME RInv, [Next]_vars, NEW c \in Commits PROVE Within(c)'
    BY ScopedNext DEF RInv
  <1>0. /\ TypeOK' /\ faults \in Nat /\ \A d \in Commits : expired[d] \in Nat
        /\ \A w \in Workers : job[w] \in Job /\ Scoped(w)
        /\ \A w \in Workers : \A j : Becomes(w, j) => job'[w] = j
    BY ScopedNext, AllowedNat DEF RInv, SInv, IInv, Typed, TypeOK, Becomes
  <1>1. ASSUME UNCHANGED <<ledger, expired, posts, job, faults>> PROVE Within(c)'
    BY <1>0, <1>1, NoNewPoster DEF MayPost
  <1>2. CASE Tick
    BY <1>1, <1>2 DEF Tick, store, history
  <1>3. ASSUME NEW d \in Commits, Push(d) PROVE Within(c)'
    BY <1>1, <1>3 DEF Push, store, history
  <1>4. ASSUME NEW d \in Commits, Expire(d) PROVE Within(c)'
    <2>1. CASE c = d
      <3>1. expired'[c] = expired[c] + 1
        BY <1>4, <2>1 DEF Expire, RInv, SInv, IInv, Typed, TypeOK
      <3> QED
        BY <1>0, <1>4, <3>1, ExpireWithin DEF Expire
    <2>2. CASE c # d
      <3>1. /\ ledger'[c] = ledger[c] /\ expired'[c] = expired[c]
            /\ UNCHANGED <<job, posts, faults>>
        BY <1>4, <2>2 DEF Expire, RInv, SInv, IInv, Typed, TypeOK
      <3>2. \A w \in Workers : MayPost(w, c)' => MayPost(w, c)
        BY <3>1 DEF MayPost
      <3> QED
        BY <1>0, <3>1, <3>2, NoNewPoster
    <2> QED
      BY <2>1, <2>2
  <1>5. ASSUME NEW t \in Tasks, Enqueue(t) PROVE Within(c)'
    BY <1>1, <1>5 DEF Enqueue, store, history
  <1>6. ASSUME NEW w \in Workers, Timeout(w) PROVE Within(c)'
    BY <1>0, <1>6, FailWithin DEF Timeout, store, history
  <1>7. ASSUME NEW w \in Workers, NEW m \in queue, Start(w, m) PROVE Within(c)'
    <2> DEFINE j == [Idle EXCEPT
                       !.pc = "scan", !.task = m.task, !.attempt = m.attempt,
                       !.todo = Scans(m.task),
                       !.since = [s \in Sources |-> IF s \in Scans(m.task) THEN cursor[s] ELSE 0]]
    <2>1. j.fresh = {}
      BY DEF Idle
    <2>2. Becomes(w, j) /\ job[w].pc = "idle" /\ UNCHANGED <<ledger, expired, posts, faults>>
      BY <1>7 DEF Start, store, history
    <2> HIDE DEF j
    <2>3. MayPost(w, c)' => MayPost(w, c)
      BY <1>0, <2>1, <2>2 DEF MayPost
    <2> QED
      BY <1>0, <2>2, <2>3, QuietWithin
  <1>8. ASSUME NEW w \in Workers, NEW s \in Sources, Fetch(w, s) \/ FetchPartly(w, s)
        PROVE  Within(c)'
    <2>1. PICK got : Keep(w, s, got)
      BY <1>8 DEF Fetch, FetchPartly
    <2>2. /\ job[w].pc = "scan" /\ UNCHANGED <<ledger, expired, posts>>
          /\ faults' = faults \/ faults' = faults + 1
      BY <1>8 DEF Fetch, FetchPartly, store
    <2>3. PICK t \in Times :
            Becomes(w, [job[w] EXCEPT
              !.pc = IF got \intersect Signal = {} THEN "scan" ELSE "check",
              !.todo = @ \ {s},
              !.unchecked = got \intersect Signal,
              !.upto = [job[w].upto EXCEPT ![s] = t]])
      BY <2>1 DEF Keep
    <2> DEFINE j == [job[w] EXCEPT
                       !.pc = IF got \intersect Signal = {} THEN "scan" ELSE "check",
                       !.todo = @ \ {s},
                       !.unchecked = got \intersect Signal,
                       !.upto = [job[w].upto EXCEPT ![s] = t]]
    <2>4. j.pc \in {"scan", "check"} /\ j.fresh = job[w].fresh
      BY <1>0 DEF Job
    <2>5. Becomes(w, j)
      BY <2>3
    <2> HIDE DEF j
    <2>6. MayPost(w, c)' => MayPost(w, c)
      BY <1>0, <2>2, <2>4, <2>5 DEF MayPost
    <2> QED
      BY <1>0, <2>2, <2>5, <2>6, QuietWithin
  <1>9. ASSUME NEW w \in Workers, NEW d \in Commits, Check(w, d) PROVE Within(c)'
    <2> DEFINE j == [job[w] EXCEPT
                       !.pc = IF job[w].unchecked = {d} THEN "scan" ELSE "check",
                       !.unchecked = @ \ {d},
                       !.fresh = IF IsNew(d) THEN @ \union {d} ELSE @]
    <2>1. /\ j.pc \in {"scan", "check"}
          /\ j.fresh = IF IsNew(d) THEN job[w].fresh \union {d} ELSE job[w].fresh
      BY <1>0 DEF Job
    <2>2. /\ Becomes(w, j) /\ job[w].pc = "check"
          /\ UNCHANGED <<ledger, expired, posts, faults>>
      BY <1>9 DEF Check, store, history
    <2> HIDE DEF j
    <2>3. MayPost(w, c)' => MayPost(w, c)
      BY <1>0, <2>1, <2>2 DEF MayPost, IsNew
    <2> QED
      BY <1>0, <2>2, <2>3, QuietWithin
  <1>10. ASSUME NEW w \in Workers, NothingNew(w) PROVE Within(c)'
    <2>1. /\ Becomes(w, Idle) /\ job[w].pc = "scan"
          /\ UNCHANGED <<ledger, expired, posts, faults>>
      BY <1>10 DEF NothingNew, Scanned, store, history
    <2>2. MayPost(w, c)' => MayPost(w, c)
      BY <1>0, <2>1, IdleFields DEF MayPost
    <2> QED
      BY <1>0, <2>1, <2>2, QuietWithin
  <1>11. ASSUME NEW w \in Workers, Post(w) PROVE Within(c)'
    <2> DEFINE j == [job[w] EXCEPT
                       !.pc = "write",
                       !.owed = {s \in Scans(job[w].task) : job[w].fresh \intersect Feed(s) # {}}]
    <2>1. j.pc = "write" /\ j.fresh = job[w].fresh
      BY <1>0 DEF Job
    <2>2. /\ Becomes(w, j) /\ Scanned(w) /\ Reported(w)
          /\ UNCHANGED <<ledger, expired, faults>>
      BY <1>11 DEF Post, store
    <2> HIDE DEF j
    <2> QED
      BY <1>0, <2>1, <2>2, PostWithin
  <1>12. ASSUME NEW w \in Workers, PostUnconfirmed(w) PROVE Within(c)'
    BY <1>0, <1>12, PostWithin DEF PostUnconfirmed, Abort, store
  <1>13. ASSUME NEW w \in Workers, NEW r, Record(w, r) PROVE Within(c)'
    <2> DEFINE batch == {d \in job[w].fresh : RepoOf[d] = r}
               j == [job[w] EXCEPT !.fresh = @ \ batch]
    <2>1. /\ Becomes(w, j) /\ job[w].pc = "write" /\ UNCHANGED <<expired, posts, faults>>
          /\ ledger'[c] = IF c \in batch THEN now + TTL ELSE ledger[c]
      BY <1>13 DEF Record
    <2> HIDE DEF batch
    <2>2. j.pc = job[w].pc /\ j.fresh = job[w].fresh \ batch
      BY <1>0 DEF Job
    <2> HIDE DEF j
    <2>3. \A v \in Workers \ {w} : job'[v] = job[v]
      BY <2>1 DEF Becomes, RInv, SInv, IInv, Typed, TypeOK
    <2>4. now + TTL # 0
      BY DEF RInv, SInv, IInv, Typed, TypeOK
    <2>5. ASSUME NEW v \in Workers PROVE MayPost(v, c)' => MayPost(v, c)
      <3>1. CASE v = w
        BY <1>0, <2>1, <2>2, <2>4, <3>1 DEF MayPost
      <3>2. CASE v # w
        BY <2>1, <2>3, <2>4, <3>2 DEF MayPost
      <3> QED
        BY <3>1, <3>2
    <2> QED
      BY <1>0, <2>1, <2>5, NoNewPoster
  <1>14. ASSUME NEW w \in Workers, NEW s \in Sources, SetCursor(w, s) PROVE Within(c)'
    <2> DEFINE j == IF job[w].owed = {s} THEN Idle ELSE [job[w] EXCEPT !.owed = @ \ {s}]
    <2>1. /\ Becomes(w, j) /\ job[w].pc = "write" /\ UNCHANGED <<ledger, expired, posts, faults>>
          /\ job[w].fresh \intersect Feed(s) = {}
      BY <1>14 DEF SetCursor, history
    <2>2. CASE job[w].owed = {s}
      <3>1. job[w].fresh = {}
        BY <1>0, <2>1, <2>2 DEF Scoped
      <3>2. MayPost(w, c)' => MayPost(w, c)
        BY <1>0, <2>1, <2>2, <3>1, IdleFields DEF MayPost
      <3> QED
        BY <1>0, <2>1, <3>2, QuietWithin
    <2>3. CASE job[w].owed # {s}
      <3>1. j.pc = job[w].pc /\ j.fresh = job[w].fresh
        BY <1>0, <2>3 DEF Job
      <3> HIDE DEF j
      <3>2. MayPost(w, c)' => MayPost(w, c)
        BY <1>0, <2>1, <3>1 DEF MayPost
      <3> QED
        BY <1>0, <2>1, <3>2, QuietWithin
    <2> QED
      BY <2>2, <2>3
  <1>15. ASSUME NEW w \in Workers, Fail(w) PROVE Within(c)'
    BY <1>0, <1>15, FailWithin DEF Fail, Abort, store, history
  <1>16. CASE UNCHANGED vars
    BY <1>1, <1>16 DEF vars, store, history
  <1> QED
    BY <1>2, <1>3, <1>4, <1>5, <1>6, <1>7, <1>8, <1>9, <1>10, <1>11, <1>12,
       <1>13, <1>14, <1>15, <1>16
    DEF Next, World, Queue, Handler, Step

LEMMA RInvInit == Init => RInv
  <1> SUFFICES ASSUME Init PROVE RInv
    OBVIOUS
  <1>1. SInv
    BY IInvInit, IdleFields DEF Init, SInv, Scoped
  <1>2. ASSUME NEW c \in Commits PROVE Within(c)
    <2>1. posts[c] = 0 /\ expired[c] = 0 /\ faults = 0
      BY DEF Init
    <2>2. Allowed(c) = Cardinality(Workers)
      BY <2>1, PostersCount DEF Allowed
    <2> QED
      BY <2>1, <2>2, PostersCount DEF Within
  <1> QED
    BY <1>1, <1>2 DEF RInv

\* Each worker reports a commit at most once before the ledger holds it, and
\* again only after a fault or after its document expired.
THEOREM RepeatsBounded == Spec => []BoundedRepeats
  <1>1. RInv => BoundedRepeats
    <2> SUFFICES ASSUME RInv, NEW c \in Commits PROVE posts[c] <= Allowed(c)
      BY DEF BoundedRepeats, Allowed
    <2>1. TypeOK
      BY DEF RInv, SInv, IInv, Typed
    <2> QED
      BY <2>1, PostersCount, AllowedNat DEF RInv, Within
  <1> QED
    BY <1>1, RInvInit, RInvNext, PTL DEF Spec
=============================================================================
