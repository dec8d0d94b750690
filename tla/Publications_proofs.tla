------------------------ MODULE Publications_proofs -------------------------
(***************************************************************************)
(* Proofs about Publications, for any posts, workers, limits and bounds.   *)
(***************************************************************************)
EXTENDS Publications, Lemmas

USE PublicationsAssumption DEF feed, store, history

LEMMA TimesAreNat ==
  /\ \A t \in Times : t \in Nat
  /\ \A t \in Dates : t \in Nat /\ t # 0 /\ t \in Times
  /\ 0 \in Times /\ 1 \in Times
  BY DEF Times

LEMMA IdleIsJob ==
  /\ Idle \in Job
  /\ Idle.pc = "idle" /\ Idle.attempt = 0 /\ Idle.since = 0 /\ Idle.upto = 0
  /\ Idle.unchecked = {} /\ Idle.fresh = {}
  BY TimesAreNat DEF Idle, Job

-----------------------------------------------------------------------------
(***************************************************************************)
(* Type correctness.                                                       *)
(***************************************************************************)
LEMMA TypeInit == Init => TypeOK
  BY IdleIsJob, TimesAreNat DEF Init, TypeOK

LEMMA JobTyped ==
  ASSUME TypeOK, NEW w \in Workers, NEW j \in Job, Becomes(w, j)
  PROVE  /\ job' \in [Workers -> Job]
         /\ job'[w] = j /\ \A v \in Workers \ {w} : job'[v] = job[v]
  BY DEF Becomes, TypeOK

\* A repeated delivery stays within the attempts of the queue.
LEMMA RetryTyped ==
  ASSUME TypeOK, NEW w \in Workers
  PROVE  Retry(w) \subseteq 1 .. MaxAttempts
  <1>1. job[w].attempt \in 0 .. MaxAttempts
    BY DEF TypeOK, Job
  <1> QED
    BY <1>1 DEF Retry

LEMMA AbortTyped ==
  ASSUME TypeOK, NEW w \in Workers, Abort(w)
  PROVE  /\ job' \in [Workers -> Job]
         /\ queue' \subseteq 1 .. MaxAttempts
         /\ faults' \in 0 .. MaxFaults
  <1>1. job' \in [Workers -> Job]
    BY IdleIsJob, JobTyped DEF Abort
  <1>2. queue' \subseteq 1 .. MaxAttempts
    BY RetryTyped DEF Abort, TypeOK
  <1>3. faults' \in 0 .. MaxFaults
    BY DEF Abort, Fault, TypeOK
  <1> QED
    BY <1>1, <1>2, <1>3

LEMMA ReportedTyped ==
  ASSUME TypeOK, NEW w \in Workers, Reported(w)
  PROVE  posts' \in [Posts -> Nat]
  BY DEF Reported, TypeOK

\* What a step of w's handler makes of its job.
LEMMA FetchJob ==
  ASSUME TypeOK, NEW w \in Workers, NEW kept \in SUBSET Posts, NEW t \in Times
  PROVE  LET j == [job[w] EXCEPT !.pc = "check", !.since = 0, !.unchecked = kept, !.upto = t]
         IN  /\ j \in Job /\ j.pc = "check" /\ j.unchecked = kept /\ j.upto = t
             /\ j.since = 0 /\ j.fresh = job[w].fresh
  BY TimesAreNat DEF TypeOK, Job

LEMMA NextPcJob ==
  ASSUME TypeOK, NEW w \in Workers, NEW pc \in {"record", "cursor"}
  PROVE  LET j == [job[w] EXCEPT !.pc = pc]
         IN  /\ j \in Job /\ j.pc = pc /\ j.unchecked = job[w].unchecked
             /\ j.fresh = job[w].fresh /\ j.since = job[w].since /\ j.upto = job[w].upto
  BY DEF TypeOK, Job

LEMMA TimeoutJob ==
  ASSUME TypeOK, NEW w \in Workers
  PROVE  LET j == [job[w] EXCEPT !.attempt = 0]
         IN  /\ j \in Job /\ j.pc = job[w].pc /\ j.attempt = 0
             /\ j.unchecked = job[w].unchecked /\ j.fresh = job[w].fresh
             /\ j.since = job[w].since /\ j.upto = job[w].upto
  BY DEF TypeOK, Job

LEMMA StartJob ==
  ASSUME TypeOK, NEW attempt \in 1 .. MaxAttempts
  PROVE  LET j == [Idle EXCEPT !.pc = "fetch", !.attempt = attempt, !.since = cursor]
         IN  /\ j \in Job /\ j.pc = "fetch" /\ j.since = cursor
             /\ j.unchecked = {} /\ j.fresh = {} /\ j.upto = 0
  <1>1. attempt \in 0 .. MaxAttempts /\ cursor \in Times
    BY DEF TypeOK
  <1> QED
    BY <1>1, IdleIsJob DEF Job

\* What is new, and the job that is left, when p has been looked up.
FreshAfter(w, p) == IF ledger[p] = 0 THEN job[w].fresh \union {p} ELSE job[w].fresh

Checked(w, p) ==
  LET last == job[w].unchecked = {p} IN
  IF last /\ FreshAfter(w, p) = {} THEN Idle
  ELSE [job[w] EXCEPT !.pc = IF last THEN "post" ELSE "check",
                      !.unchecked = @ \ {p}, !.fresh = FreshAfter(w, p)]

LEMMA CheckedJob ==
  ASSUME TypeOK, NEW w \in Workers, NEW p \in Posts
  PROVE  /\ Checked(w, p) \in Job
         /\ \/ Checked(w, p) = Idle /\ job[w].unchecked = {p} /\ FreshAfter(w, p) = {}
            \/ /\ Checked(w, p).pc = IF job[w].unchecked = {p} THEN "post" ELSE "check"
               /\ Checked(w, p).unchecked = job[w].unchecked \ {p}
               /\ Checked(w, p).fresh = FreshAfter(w, p)
               /\ Checked(w, p).since = job[w].since
               /\ Checked(w, p).upto = job[w].upto
  <1>1. FreshAfter(w, p) \in SUBSET Posts
    BY DEF TypeOK, Job, FreshAfter
  <1>2. CASE job[w].unchecked = {p} /\ FreshAfter(w, p) = {}
    BY <1>2, IdleIsJob DEF Checked
  <1>3. CASE ~(job[w].unchecked = {p} /\ FreshAfter(w, p) = {})
    <2> DEFINE pc == IF job[w].unchecked = {p} THEN "post" ELSE "check"
    <2> DEFINE j == [job[w] EXCEPT !.pc = pc, !.unchecked = @ \ {p}, !.fresh = FreshAfter(w, p)]
    <2>1. Checked(w, p) = j
      BY <1>3 DEF Checked
    <2>2. pc \in {"post", "check"}
      OBVIOUS
    <2> HIDE DEF pc
    <2>3. /\ j \in Job /\ j.pc = pc /\ j.unchecked = job[w].unchecked \ {p}
          /\ j.fresh = FreshAfter(w, p) /\ j.since = job[w].since /\ j.upto = job[w].upto
      BY <1>1, <2>2 DEF TypeOK, Job
    <2> HIDE DEF j
    <2> QED
      BY <2>1, <2>3 DEF pc
  <1> QED
    BY <1>2, <1>3

LEMMA TypeNext == TypeOK /\ [Next]_vars => TypeOK'
  <1> SUFFICES ASSUME TypeOK, [Next]_vars PROVE TypeOK'
    OBVIOUS
  <1>1. CASE Tick
    BY <1>1 DEF Tick, TypeOK
  <1>2. CASE Enqueue
    BY <1>2 DEF Enqueue, TypeOK
  <1>3. ASSUME NEW p \in Posts, NEW t \in Dates, Publish(p, t) PROVE TypeOK'
    BY <1>3, TimesAreNat DEF Publish, Dated, TypeOK
  <1>4. ASSUME NEW p \in Posts, NEW t \in Dates, Republish(p, t) PROVE TypeOK'
    <2>1. edited' \in [Posts -> Nat]
      BY <1>4 DEF Republish, TypeOK
    <2> QED
      BY <1>4, <2>1, TimesAreNat DEF Republish, Dated, TypeOK
  <1>4a. ASSUME NEW p \in Posts, FallOff(p) PROVE TypeOK'
    BY <1>4a DEF FallOff, TypeOK
  <1>5. ASSUME NEW p \in Posts, Expire(p) PROVE TypeOK'
    <2>1. ledger' \in [Posts -> Nat] /\ expired' \in [Posts -> Nat]
      BY <1>5 DEF Expire, TypeOK
    <2> QED
      BY <1>5, <2>1 DEF Expire, TypeOK
  <1>6. ASSUME NEW w \in Workers, Handler(w) PROVE TypeOK'
    <2>1. ASSUME NEW attempt \in queue, Start(w, attempt) PROVE TypeOK'
      <3>1. attempt \in 1 .. MaxAttempts
        BY DEF TypeOK
      <3>2. job' \in [Workers -> Job]
        BY <2>1, <3>1, StartJob, JobTyped DEF Start
      <3> QED
        BY <2>1, <3>2 DEF Start, TypeOK
    <2>2. CASE Fetch(w)
      <3> DEFINE new == Newer(job[w].since)
      <3>1. PICK kept \in SUBSET new, t \in Times :
              /\ Becomes(w, [job[w] EXCEPT !.pc = "check", !.since = 0, !.unchecked = kept, !.upto = t])
              /\ missed' = missed \union (new \ kept)
        BY <2>2 DEF Fetch
      <3>2. new \subseteq Posts
        BY DEF Newer
      <3>3. job' \in [Workers -> Job]
        BY <3>1, <3>2, FetchJob, JobTyped
      <3> QED
        BY <2>2, <3>1, <3>2, <3>3 DEF Fetch, TypeOK
    <2>3. CASE NothingFetched(w)
      <3>1. job' \in [Workers -> Job]
        BY <2>3, IdleIsJob, JobTyped DEF NothingFetched
      <3> QED
        BY <2>3, <3>1 DEF NothingFetched, TypeOK
    <2>4. CASE FeedSkipped(w)
      <3>1. job' \in [Workers -> Job]
        BY <2>4, IdleIsJob, JobTyped DEF FeedSkipped
      <3> QED
        BY <2>4, <3>1 DEF FeedSkipped, Fault, TypeOK
    <2>5. ASSUME NEW p \in Posts, Check(w, p) PROVE TypeOK'
      <3>1. Becomes(w, Checked(w, p))
        BY <2>5 DEF Check, Checked, FreshAfter
      <3>2. job' \in [Workers -> Job]
        BY <3>1, CheckedJob, JobTyped
      <3> QED
        BY <2>5, <3>2 DEF Check, TypeOK
    <2>6. CASE Post(w)
      <3>1. job' \in [Workers -> Job]
        BY <2>6, NextPcJob, JobTyped DEF Post
      <3> QED
        BY <2>6, <3>1, ReportedTyped DEF Post, TypeOK
    <2>7. CASE PostUnconfirmed(w)
      BY <2>7, AbortTyped, ReportedTyped DEF PostUnconfirmed, TypeOK
    <2>8. CASE Record(w)
      <3>1. job' \in [Workers -> Job]
        BY <2>8, NextPcJob, JobTyped DEF Record
      <3>2. ledger' \in [Posts -> Nat]
        BY <2>8 DEF Record, TypeOK
      <3>3. job[w].fresh \subseteq Posts
        BY DEF TypeOK, Job
      <3> QED
        BY <2>8, <3>1, <3>2, <3>3 DEF Record, TypeOK
    <2>9. CASE SetCursor(w)
      <3>1. job' \in [Workers -> Job]
        BY <2>9, IdleIsJob, JobTyped DEF SetCursor
      <3>2. job[w].upto \in Times
        BY DEF TypeOK, Job
      <3> QED
        BY <2>9, <3>1, <3>2 DEF SetCursor, TypeOK
    <2>10. CASE Timeout(w)
      <3>1. job' \in [Workers -> Job]
        BY <2>10, TimeoutJob, JobTyped DEF Timeout
      <3> QED
        BY <2>10, <3>1, RetryTyped DEF Timeout, Fault, TypeOK
    <2>11. CASE Fail(w)
      BY <2>11, AbortTyped DEF Fail, TypeOK
    <2> QED
      BY <1>6, <2>1, <2>2, <2>3, <2>4, <2>5, <2>6, <2>7, <2>8, <2>9, <2>10, <2>11 DEF Handler
  <1>7. CASE UNCHANGED vars
    BY <1>7 DEF vars, TypeOK
  <1> QED
    BY <1>1, <1>2, <1>3, <1>4, <1>4a, <1>5, <1>6, <1>7 DEF Next

\* The feed, the documents and the handlers keep their shape, and no delivery
\* is repeated beyond the attempts of the queue.
THEOREM TypeCorrect == Spec => []TypeOK
  BY TypeInit, TypeNext, PTL DEF Spec

-----------------------------------------------------------------------------
(***************************************************************************)
(* Nothing is skipped.  What the cursor promises holds already of the two  *)
(* dates a handler works with: the cursor it read and the one it will      *)
(* write.  A post dated at or before one of the three is late.             *)
(***************************************************************************)
\* Every post up to t that was not late is recorded, missed or in S.
Accounted(t, S) ==
  \A p \in Posts \ late :
    published[p] # 0 /\ published[p] <= t => p \in logged \union missed \union S

JobOK(w) ==
  LET j == job[w] IN
  /\ Accounted(j.since, {})
  /\ Accounted(j.upto, j.unchecked \union j.fresh)
  /\ j.pc # "check" => j.unchecked = {}
  /\ j.pc \in {"idle", "fetch"} => j.fresh = {} /\ j.upto = 0
  /\ j.pc = "idle" => j.attempt = 0
  /\ j.pc = "cursor" => j.fresh \subseteq logged
  /\ j.pc = "record" => \A p \in j.fresh : posts[p] > 0
  /\ \A p \in j.unchecked \union j.fresh : published[p] # 0

\* Nor is a post forgotten that left the feed.
CursorOK == Accounted(cursor, {}) /\ gone \ late \subseteq logged \union missed

LedgerOK ==
  /\ \A p \in gone : published[p] # 0
  /\ \A p \in Posts : ledger[p] # 0 => p \in logged
  /\ \A p \in logged : posts[p] > 0

Bookkeeping == CursorOK /\ LedgerOK /\ \A w \in Workers : JobOK(w)

Inv == TypeOK /\ Bookkeeping

LEMMA BookkeepingInit == Init => Bookkeeping
  BY IdleIsJob DEF Init, Bookkeeping, CursorOK, LedgerOK, JobOK, Accounted

-----------------------------------------------------------------------------
\* The history only grows in a step that does not touch the feed.
Grows ==
  /\ UNCHANGED <<published, gone, late>>
  /\ logged \subseteq logged' /\ missed \subseteq missed'
  /\ \A p \in Posts : posts'[p] >= posts[p]

LEMMA GrowsKeepsJob ==
  ASSUME Inv, TypeOK', Grows, NEW w \in Workers, JobOK(w), job'[w] = job[w]
  PROVE  JobOK(w)'
  <1>1. job[w].fresh \subseteq Posts /\ \A p \in Posts : posts[p] \in Nat /\ posts'[p] \in Nat
    BY DEF Inv, TypeOK, Job
  <1> QED
    BY <1>1 DEF Grows, JobOK, Accounted

LEMMA GrowsKeepsCursor ==
  ASSUME CursorOK, Grows, cursor' = cursor
  PROVE  CursorOK'
  BY DEF CursorOK, Grows, Accounted

\* A date that no cursor and no handler has passed is above all of theirs.
LEMMA DatedKeeps ==
  ASSUME TypeOK, NEW p \in Posts, NEW d \in Dates, Dated(p, d), UNCHANGED <<logged, missed>>,
         NEW t \in Times, ~Passed(d) => d > t,
         NEW S, Accounted(t, S)
  PROVE  \A q \in Posts \ late' :
           published'[q] # 0 /\ published'[q] <= t => q \in logged' \union missed' \union S
  <1> SUFFICES ASSUME NEW q \in Posts \ late', published'[q] # 0, published'[q] <= t
               PROVE  q \in logged' \union missed' \union S
    OBVIOUS
  <1>1. /\ published'[p] = d
        /\ \A r \in Posts \ {p} : published'[r] = published[r]
        /\ late' \ {p} = late \ {p} /\ (Passed(d) => p \in late')
    BY DEF Dated, TypeOK
  <1>2. t \in Int /\ d \in Int
    BY TimesAreNat
  <1>3. q # p
    BY <1>1, <1>2
  <1> QED
    BY <1>1, <1>3 DEF Accounted

LEMMA DatedNext ==
  ASSUME Inv, NEW p \in Posts, NEW d \in Dates, Dated(p, d), p \notin gone,
         UNCHANGED <<gone, cursor, ledger, job, posts, logged, missed>>
  PROVE  Bookkeeping'
  <1>1. /\ published'[p] = d /\ d # 0
        /\ \A q \in Posts \ {p} : published'[q] = published[q]
        /\ late' \ {p} = late \ {p}
    BY DEF Dated, Inv, TypeOK
  <1>2. CursorOK'
    <2>1. cursor \in Times /\ Accounted(cursor, {}) /\ gone \subseteq Posts
          /\ gone \ late \subseteq logged \union missed
      BY DEF Inv, TypeOK, Bookkeeping, CursorOK
    <2>2. ~Passed(d) => d > cursor
      <3>1. d \in Nat /\ cursor \in Nat
        BY <2>1, TimesAreNat
      <3>2. ~Passed(d) => ~(d <= cursor)
        BY Zenon DEF Passed
      <3> QED
        BY <3>1, <3>2
    <2>3. Accounted(cursor, {})'
      BY <2>1, <2>2, DatedKeeps DEF Inv, Accounted
    <2> QED
      BY <1>1, <2>1, <2>3 DEF CursorOK
  <1>3. LedgerOK'
    BY <1>1 DEF Inv, TypeOK, Bookkeeping, LedgerOK
  <1>4. ASSUME NEW w \in Workers PROVE JobOK(w)'
    <2>1. job[w] \in Job /\ JobOK(w)
      BY DEF Inv, TypeOK, Bookkeeping
    <2>2. job[w].since \in Times /\ job[w].upto \in Times
          /\ job[w].unchecked \subseteq Posts /\ job[w].fresh \subseteq Posts
      BY <2>1 DEF Job
    <2>3. ~Passed(d) => d > job[w].since /\ d > job[w].upto
      <3>1. d \in Nat /\ job[w].since \in Nat /\ job[w].upto \in Nat
        BY <2>2, TimesAreNat
      <3>2. ~Passed(d) => ~(d <= job[w].since) /\ ~(d <= job[w].upto)
        BY Zenon DEF Passed
      <3> QED
        BY <3>1, <3>2
    <2>4. \A q \in Posts \ late' :
            published'[q] # 0 /\ published'[q] <= job[w].since
              => q \in logged' \union missed' \union {}
      BY <2>1, <2>2, <2>3, DatedKeeps DEF Inv, JobOK
    <2>5. \A q \in Posts \ late' :
            published'[q] # 0 /\ published'[q] <= job[w].upto
              => q \in logged' \union missed' \union (job[w].unchecked \union job[w].fresh)
      BY <2>1, <2>2, <2>3, DatedKeeps DEF Inv, JobOK
    <2>6. \A q \in job[w].unchecked \union job[w].fresh : published'[q] # 0
      BY <1>1, <2>1, <2>2 DEF JobOK
    <2> QED
      BY <2>1, <2>4, <2>5, <2>6 DEF JobOK, Accounted
  <1> QED
    BY <1>2, <1>3, <1>4 DEF Bookkeeping

\* A post that leaves the feed is behind the cursor, or missed.
LEMMA FallOffKeeps ==
  ASSUME Inv, NEW p \in Posts, FallOff(p)
  PROVE  Bookkeeping'
  <1>1. /\ gone' = gone \union {p} /\ published[p] # 0
        /\ missed' = IF published[p] > cursor THEN missed \union {p} ELSE missed
        /\ UNCHANGED <<published, ledger, cursor, job, posts, logged, late>>
    BY DEF FallOff
  <1>2. missed \subseteq missed'
    BY <1>1
  <1>3. CursorOK'
    <2>1. published[p] \in Int /\ cursor \in Int
      BY TimesAreNat DEF Inv, TypeOK
    <2>2. Accounted(cursor, {}) /\ gone \ late \subseteq logged \union missed
      BY DEF Inv, Bookkeeping, CursorOK
    <2>3. p \in late \/ p \in logged \union missed'
      BY <1>1, <2>1, <2>2 DEF Accounted
    <2> QED
      BY <1>1, <1>2, <2>2, <2>3 DEF CursorOK, Accounted
  <1>4. LedgerOK'
    BY <1>1 DEF Inv, Bookkeeping, LedgerOK
  <1>5. ASSUME NEW w \in Workers PROVE JobOK(w)'
    BY <1>1, <1>2 DEF Inv, Bookkeeping, JobOK, Accounted
  <1> QED
    BY <1>3, <1>4, <1>5 DEF Bookkeeping

-----------------------------------------------------------------------------
\* A step of w's handler is judged by the job it leaves.
LEMMA HandlerKeeps ==
  ASSUME Inv, TypeOK', NEW w \in Workers, NEW j \in Job, Becomes(w, j), Grows,
         JobOK(w)', LedgerOK', cursor' = cursor \/ CursorOK'
  PROVE  Bookkeeping'
  <1>1. \A v \in Workers \ {w} : job'[v] = job[v]
    BY JobTyped DEF Inv
  <1>2. ASSUME NEW v \in Workers PROVE JobOK(v)'
    BY <1>1, GrowsKeepsJob DEF Inv, Bookkeeping
  <1>3. CursorOK'
    BY GrowsKeepsCursor DEF Inv, Bookkeeping
  <1> QED
    BY <1>2, <1>3 DEF Bookkeeping

\* An idle handler carries nothing.
LEMMA IdleOK ==
  ASSUME TypeOK', NEW w \in Workers, job'[w] = Idle
  PROVE  JobOK(w)'
  <1>1. /\ job'[w].pc = "idle" /\ job'[w].attempt = 0 /\ job'[w].since = 0
        /\ job'[w].upto = 0 /\ job'[w].unchecked = {} /\ job'[w].fresh = {}
    BY IdleIsJob
  <1>2. \A p \in Posts : published'[p] \in Nat
    BY TimesAreNat DEF TypeOK
  <1> QED
    BY <1>1, <1>2 DEF JobOK, Accounted

LEMMA StopKeeps ==
  ASSUME Inv, TypeOK', NEW w \in Workers, Becomes(w, Idle), Grows, LedgerOK', cursor' = cursor
  PROVE  Bookkeeping'
  <1>1. job'[w] = Idle
    BY IdleIsJob, JobTyped DEF Inv
  <1> QED
    BY <1>1, IdleIsJob, IdleOK, HandlerKeeps

LEMMA LedgerUnchanged ==
  ASSUME Inv, UNCHANGED <<published, gone, ledger, posts, logged>>
  PROVE  LedgerOK'
  BY DEF Inv, Bookkeeping, LedgerOK

\* What a message shows counts, whatever becomes of the handler.
LEMMA ReportedGrows ==
  ASSUME Inv, NEW w \in Workers, Reported(w),
         UNCHANGED <<published, gone, ledger, late, logged, missed>>
  PROVE  Grows /\ LedgerOK' /\ \A p \in job[w].fresh : posts'[p] > 0
  <1>1. \A p \in Posts : posts[p] \in Nat /\ (posts'[p] = posts[p] \/ posts'[p] = posts[p] + 1)
    BY DEF Reported, Inv, TypeOK
  <1>2. \A p \in job[w].fresh : p \in Posts /\ posts'[p] = posts[p] + 1
    BY DEF Reported, Inv, TypeOK, Job
  <1>3. logged \subseteq Posts
    BY DEF Inv, TypeOK
  <1> QED
    BY <1>1, <1>2, <1>3 DEF Grows, LedgerOK, Inv, Bookkeeping

\* What a fetch keeps, and what it cuts off, are all the posts up to the new
\* cursor that the old one did not account for.
LEMMA FetchKeeps ==
  ASSUME Inv, TypeOK', NEW w \in Workers, Fetch(w)
  PROVE  Bookkeeping'
  <1> DEFINE new == Newer(job[w].since)
  <1>1. PICK kept \in SUBSET new, t \in Times :
          /\ Newest(new, kept)
          /\ \A p \in kept : published[p] <= t
          /\ \E p \in kept : published[p] = t
          /\ Becomes(w, [job[w] EXCEPT !.pc = "check", !.since = 0, !.unchecked = kept, !.upto = t])
          /\ missed' = missed \union (new \ kept)
    BY DEF Fetch
  <1> DEFINE j == [job[w] EXCEPT !.pc = "check", !.since = 0, !.unchecked = kept, !.upto = t]
  <1>2. kept \subseteq Posts /\ \A p \in kept : published[p] > job[w].since
    BY DEF Newer
  <1>3. /\ j \in Job /\ j.pc = "check" /\ j.unchecked = kept /\ j.upto = t
        /\ j.since = 0 /\ j.fresh = job[w].fresh
    <2>1. TypeOK /\ kept \in SUBSET Posts /\ t \in Times
      BY <1>2 DEF Inv
    <2> QED
      BY <2>1, TimesAreNat, ZenonT(60) DEF TypeOK, Job
  <1>4. Becomes(w, j)
    BY <1>1
  <1> HIDE DEF j
  <1>5. job'[w] = j
    BY <1>3, <1>4, JobTyped DEF Inv
  <1>6. Grows /\ LedgerOK'
    <2>1. /\ UNCHANGED <<published, gone, ledger, late, logged, posts>>
          /\ missed \subseteq missed' /\ \A p \in Posts : posts[p] \in Nat
      BY <1>1 DEF Fetch, Inv, TypeOK
    <2> QED
      BY <2>1, LedgerUnchanged DEF Grows
  <1>7. JobOK(w)'
    <2>1. JobOK(w) /\ job[w].pc = "fetch" /\ job[w].fresh = {}
      BY DEF Fetch, Inv, Bookkeeping, JobOK
    <2>2. Accounted(job[w].since, {}) /\ gone \ late \subseteq logged \union missed
      BY <2>1 DEF JobOK, Inv, Bookkeeping, CursorOK
    <2>3. \A p \in Posts : published[p] \in Nat
      BY TimesAreNat DEF Inv, TypeOK
    <2>4. job[w].since \in Nat /\ t \in Nat
      BY TimesAreNat DEF Inv, TypeOK, Job
    <2>5. ASSUME NEW p \in Posts \ late', published'[p] # 0, published'[p] <= t
          PROVE  p \in logged' \union missed' \union (kept \union job[w].fresh)
      <3>0. UNCHANGED <<published, late, logged>>
        BY DEF Fetch
      <3>1. CASE published[p] <= job[w].since \/ p \in gone
        BY <1>6, <2>2, <2>5, <3>0, <3>1 DEF Accounted, Grows
      <3>2. CASE published[p] > job[w].since /\ p \notin gone
        BY <1>1, <3>2 DEF Newer
      <3> QED
        BY <2>3, <2>4, <3>1, <3>2
    <2>8. UNCHANGED <<published, late, logged>>
      BY DEF Fetch
    <2>9. \A p \in kept : published[p] # 0
      BY <1>2, <2>3, <2>4
    <2>10. \A p \in Posts \ late' :
             published'[p] # 0 /\ published'[p] <= j.upto
               => p \in logged' \union missed' \union (j.unchecked \union j.fresh)
      BY <1>3, <2>5
    <2>11. \A p \in Posts : ~(published'[p] # 0 /\ published'[p] <= j.since)
      BY <1>3, <2>3, <2>8
    <2> QED
      BY <1>3, <1>5, <2>1, <2>8, <2>9, <2>10, <2>11 DEF JobOK, Accounted
  <1>8. cursor' = cursor
    BY DEF Fetch
  <1> QED
    BY <1>3, <1>4, <1>6, <1>7, <1>8, HandlerKeeps

\* A post that was found in the ledger is recorded, the others stay fresh.
LEMMA CheckKeeps ==
  ASSUME Inv, TypeOK', NEW w \in Workers, NEW p \in Posts, Check(w, p)
  PROVE  Bookkeeping'
  <1> DEFINE fresh == FreshAfter(w, p)
             j     == Checked(w, p)
  <1>1. /\ job[w].pc = "check" /\ p \in job[w].unchecked /\ Becomes(w, j)
        /\ UNCHANGED <<published, gone, ledger, cursor, posts, logged, missed, late>>
    BY DEF Check, Checked, FreshAfter
  <1>2. /\ j \in Job
        /\ \/ j = Idle
           \/ /\ j.pc = IF job[w].unchecked = {p} THEN "post" ELSE "check"
              /\ j.unchecked = job[w].unchecked \ {p} /\ j.fresh = fresh
              /\ j.since = job[w].since /\ j.upto = job[w].upto
    BY CheckedJob DEF Inv
  <1> HIDE DEF j
  <1>3. job'[w] = j
    BY <1>1, <1>2, JobTyped DEF Inv
  <1>4. Grows /\ LedgerOK'
    <2>1. \A q \in Posts : posts[q] \in Nat
      BY DEF Inv, TypeOK
    <2> QED
      BY <1>1, <2>1, LedgerUnchanged DEF Grows
  <1>5. CASE j = Idle
    BY <1>1, <1>3, <1>4, <1>5, StopKeeps
  <1>6. CASE j # Idle
    <2>1. JobOK(w) /\ \A q \in Posts : ledger[q] # 0 => q \in logged
      BY DEF Inv, Bookkeeping, LedgerOK
    <2>2. p \in logged \union fresh /\ job[w].fresh \subseteq fresh
          /\ fresh \subseteq job[w].unchecked \union job[w].fresh
      BY <1>1, <2>1 DEF FreshAfter
    <2>3. job[w].unchecked \union job[w].fresh \subseteq logged \union (j.unchecked \union j.fresh)
      BY <1>2, <1>6, <2>2
    <2>4. j.unchecked \union j.fresh \subseteq job[w].unchecked \union job[w].fresh
      BY <1>2, <1>6, <2>2
    <2>5. j.pc \in {"check", "post"} /\ (j.pc # "check" => j.unchecked = {})
      BY <1>2, <1>6
    <2>6. j.since = job[w].since /\ j.upto = job[w].upto
      BY <1>2, <1>6
    <2>7. JobOK(w)'
      BY <1>1, <1>3, <2>1, <2>3, <2>4, <2>5, <2>6 DEF JobOK, Accounted
    <2> QED
      BY <1>1, <1>2, <1>4, <2>7, HandlerKeeps
  <1> QED
    BY <1>5, <1>6

\* A handler that only moves on, or is no longer waited for.
LEMMA MoveKeeps ==
  ASSUME Inv, TypeOK', NEW w \in Workers, NEW j \in Job, Becomes(w, j), Grows, LedgerOK',
         cursor' = cursor,
         j.unchecked = job[w].unchecked, j.fresh = job[w].fresh,
         j.since = job[w].since, j.upto = job[w].upto,
         j.pc # "check" => job[w].unchecked = {},
         j.pc \in {"idle", "fetch"} => job[w].pc \in {"idle", "fetch"},
         j.pc = "idle" => j.attempt = 0,
         j.pc = "record" => \A p \in job[w].fresh : posts'[p] > 0,
         j.pc = "cursor" => job[w].fresh \subseteq logged'
  PROVE  Bookkeeping'
  <1>1. job'[w] = j
    BY JobTyped DEF Inv
  <1>2. JobOK(w)
    BY DEF Inv, Bookkeeping
  <1>3. JobOK(w)'
    BY <1>1, <1>2 DEF JobOK, Accounted, Grows
  <1> QED
    BY <1>3, HandlerKeeps

LEMMA PostKeeps ==
  ASSUME Inv, TypeOK', NEW w \in Workers, Post(w)
  PROVE  Bookkeeping'
  <1> DEFINE j == [job[w] EXCEPT !.pc = "record"]
  <1>1. /\ j \in Job /\ j.pc = "record" /\ j.unchecked = job[w].unchecked
        /\ j.fresh = job[w].fresh /\ j.since = job[w].since /\ j.upto = job[w].upto
    BY NextPcJob DEF Inv
  <1>2. Becomes(w, j) /\ job[w].pc = "post" /\ Reported(w) /\ cursor' = cursor
        /\ UNCHANGED <<published, gone, ledger, late, logged, missed>>
    BY DEF Post
  <1> HIDE DEF j
  <1>3. job[w].unchecked = {}
    BY <1>2 DEF Inv, Bookkeeping, JobOK
  <1>4. Grows /\ LedgerOK' /\ \A p \in job[w].fresh : posts'[p] > 0
    BY <1>2, ReportedGrows
  <1> QED
    BY <1>1, <1>2, <1>3, <1>4, MoveKeeps

LEMMA RecordKeeps ==
  ASSUME Inv, TypeOK', NEW w \in Workers, Record(w)
  PROVE  Bookkeeping'
  <1> DEFINE j == [job[w] EXCEPT !.pc = "cursor"]
  <1>1. /\ j \in Job /\ j.pc = "cursor" /\ j.unchecked = job[w].unchecked
        /\ j.fresh = job[w].fresh /\ j.since = job[w].since /\ j.upto = job[w].upto
    BY NextPcJob DEF Inv
  <1>2. Becomes(w, j) /\ job[w].pc = "record" /\ cursor' = cursor
        /\ UNCHANGED <<published, gone, late, posts, missed>>
        /\ logged' = logged \union job[w].fresh
        /\ \A p \in Posts : ledger'[p] = IF p \in job[w].fresh THEN now + TTL ELSE ledger[p]
    BY DEF Record
  <1> HIDE DEF j
  <1>3. JobOK(w) /\ LedgerOK
    BY DEF Inv, Bookkeeping
  <1>4. job[w].unchecked = {} /\ \A p \in job[w].fresh : posts[p] > 0
    BY <1>2, <1>3 DEF JobOK
  <1>5. Grows /\ LedgerOK'
    <2>1. \A p \in Posts : posts[p] \in Nat
      BY DEF Inv, TypeOK
    <2> QED
      BY <1>2, <1>3, <1>4, <2>1 DEF Grows, LedgerOK
  <1> QED
    BY <1>1, <1>2, <1>4, <1>5, MoveKeeps

\* All that the job fetched is recorded when the cursor moves to its last date.
LEMMA SetCursorKeeps ==
  ASSUME Inv, TypeOK', NEW w \in Workers, SetCursor(w)
  PROVE  Bookkeeping'
  <1>1. /\ job[w].pc = "cursor" /\ cursor' = job[w].upto /\ Becomes(w, Idle)
        /\ UNCHANGED <<published, gone, ledger, posts, logged, missed, late>>
    BY DEF SetCursor
  <1>2. Grows /\ LedgerOK'
    <2>1. \A p \in Posts : posts[p] \in Nat
      BY DEF Inv, TypeOK
    <2> QED
      BY <1>1, <2>1, LedgerUnchanged DEF Grows
  <1>3. CursorOK'
    <2>1. /\ Accounted(job[w].upto, job[w].unchecked \union job[w].fresh)
          /\ gone \ late \subseteq logged \union missed
          /\ job[w].unchecked = {} /\ job[w].fresh \subseteq logged
      BY <1>1 DEF Inv, Bookkeeping, CursorOK, JobOK
    <2> QED
      BY <1>1, <2>1 DEF CursorOK, Accounted
  <1>4. JobOK(w)'
    <2>1. job'[w] = Idle
      BY <1>1, IdleIsJob, JobTyped DEF Inv
    <2> QED
      BY <2>1, IdleOK
  <1> QED
    BY <1>1, <1>2, <1>3, <1>4, IdleIsJob, HandlerKeeps

LEMMA StartKeeps ==
  ASSUME Inv, TypeOK', NEW w \in Workers, NEW attempt \in queue, Start(w, attempt)
  PROVE  Bookkeeping'
  <1> DEFINE j == [Idle EXCEPT !.pc = "fetch", !.attempt = attempt, !.since = cursor]
  <1>1. attempt \in 1 .. MaxAttempts
    BY DEF Inv, TypeOK
  <1>2. /\ j \in Job /\ j.pc = "fetch" /\ j.since = cursor
        /\ j.unchecked = {} /\ j.fresh = {} /\ j.upto = 0
    BY <1>1, StartJob DEF Inv
  <1>3. Becomes(w, j) /\ UNCHANGED <<published, gone, ledger, cursor, posts, logged, missed, late>>
    BY DEF Start
  <1> HIDE DEF j
  <1>4. job'[w] = j
    BY <1>2, <1>3, JobTyped DEF Inv
  <1>5. Grows /\ LedgerOK'
    <2>1. \A p \in Posts : posts[p] \in Nat
      BY DEF Inv, TypeOK
    <2> QED
      BY <1>3, <2>1, LedgerUnchanged DEF Grows
  <1>6. JobOK(w)'
    <2>1. \A p \in Posts : published'[p] \in Nat
      BY TimesAreNat DEF TypeOK
    <2>2. Accounted(cursor, {})
      BY DEF Inv, Bookkeeping, CursorOK
    <2> QED
      BY <1>2, <1>3, <1>4, <2>1, <2>2 DEF JobOK, Accounted
  <1> QED
    BY <1>2, <1>3, <1>5, <1>6, HandlerKeeps

LEMMA TimeoutKeeps ==
  ASSUME Inv, TypeOK', NEW w \in Workers, Timeout(w)
  PROVE  Bookkeeping'
  <1> DEFINE j == [job[w] EXCEPT !.attempt = 0]
  <1>1. /\ j \in Job /\ j.pc = job[w].pc /\ j.attempt = 0
        /\ j.unchecked = job[w].unchecked /\ j.fresh = job[w].fresh
        /\ j.since = job[w].since /\ j.upto = job[w].upto
    BY TimeoutJob DEF Inv
  <1>2. Becomes(w, j) /\ UNCHANGED <<published, gone, ledger, cursor, posts, logged, missed, late>>
    BY DEF Timeout
  <1> HIDE DEF j
  <1>3. Grows /\ LedgerOK'
    <2>1. \A p \in Posts : posts[p] \in Nat
      BY DEF Inv, TypeOK
    <2> QED
      BY <1>2, <2>1, LedgerUnchanged DEF Grows
  <1>4. /\ job[w].pc # "check" => job[w].unchecked = {}
        /\ job[w].pc = "record" => \A p \in job[w].fresh : posts'[p] > 0
        /\ job[w].pc = "cursor" => job[w].fresh \subseteq logged'
    BY <1>2 DEF Inv, Bookkeeping, JobOK
  <1> QED
    BY <1>1, <1>2, <1>3, <1>4, MoveKeeps

LEMMA BookkeepingNext == Inv /\ [Next]_vars => Inv'
  <1> SUFFICES ASSUME Inv, [Next]_vars PROVE Bookkeeping'
    BY TypeNext DEF Inv
  <1>0. TypeOK'
    BY TypeNext DEF Inv
  <1>1. CASE Tick
    BY <1>1 DEF Tick, Inv, Bookkeeping, CursorOK, LedgerOK, JobOK, Accounted
  <1>2. CASE Enqueue
    BY <1>2 DEF Enqueue, Inv, Bookkeeping, CursorOK, LedgerOK, JobOK, Accounted
  <1>3. ASSUME NEW p \in Posts, NEW t \in Dates, Publish(p, t) PROVE Bookkeeping'
    <2>1. p \notin gone
      BY <1>3 DEF Publish, Inv, Bookkeeping, LedgerOK
    <2> QED
      BY <1>3, <2>1, DatedNext DEF Publish
  <1>4. ASSUME NEW p \in Posts, NEW t \in Dates, Republish(p, t) PROVE Bookkeeping'
    BY <1>4, DatedNext DEF Republish
  <1>4a. ASSUME NEW p \in Posts, FallOff(p) PROVE Bookkeeping'
    BY <1>4a, FallOffKeeps
  <1>5. ASSUME NEW p \in Posts, Expire(p) PROVE Bookkeeping'
    <2>1. UNCHANGED <<published, gone, cursor, job, posts, logged, missed, late>>
          /\ \A q \in Posts : ledger'[q] # 0 => ledger[q] # 0
      BY <1>5 DEF Expire, Inv, TypeOK
    <2> QED
      BY <2>1 DEF Inv, Bookkeeping, CursorOK, LedgerOK, JobOK, Accounted
  <1>6. ASSUME NEW w \in Workers, Handler(w) PROVE Bookkeeping'
    <2>1. ASSUME UNCHANGED <<published, gone, ledger, posts, logged, missed, late>>
          PROVE  Grows /\ LedgerOK'
      <3>1. \A p \in Posts : posts[p] \in Nat
        BY DEF Inv, TypeOK
      <3> QED
        BY <2>1, <3>1, LedgerUnchanged DEF Grows
    <2>2. ASSUME NEW attempt \in queue, Start(w, attempt) PROVE Bookkeeping'
      BY <1>0, <2>2, StartKeeps
    <2>3. CASE Fetch(w)
      BY <1>0, <2>3, FetchKeeps
    <2>4. CASE NothingFetched(w)
      BY <1>0, <2>1, <2>4, StopKeeps DEF NothingFetched
    <2>5. CASE FeedSkipped(w)
      BY <1>0, <2>1, <2>5, StopKeeps DEF FeedSkipped
    <2>6. ASSUME NEW p \in Posts, Check(w, p) PROVE Bookkeeping'
      BY <1>0, <2>6, CheckKeeps
    <2>7. CASE Post(w)
      BY <1>0, <2>7, PostKeeps
    <2>8. CASE PostUnconfirmed(w)
      BY <1>0, <2>8, ReportedGrows, StopKeeps DEF PostUnconfirmed, Abort
    <2>9. CASE Record(w)
      BY <1>0, <2>9, RecordKeeps
    <2>10. CASE SetCursor(w)
      BY <1>0, <2>10, SetCursorKeeps
    <2>11. CASE Timeout(w)
      BY <1>0, <2>11, TimeoutKeeps
    <2>12. CASE Fail(w)
      BY <1>0, <2>1, <2>12, StopKeeps DEF Fail, Abort
    <2> QED
      BY <1>6, <2>2, <2>3, <2>4, <2>5, <2>6, <2>7, <2>8, <2>9, <2>10, <2>11, <2>12 DEF Handler
  <1>7. CASE UNCHANGED vars
    BY <1>7 DEF vars, Inv, Bookkeeping, CursorOK, LedgerOK, JobOK, Accounted
  <1> QED
    BY <1>1, <1>2, <1>3, <1>4, <1>4a, <1>5, <1>6, <1>7 DEF Next

LEMMA InvHolds == Spec => []Inv
  <1>1. Init => Inv
    BY TypeInit, BookkeepingInit DEF Inv
  <1> QED
    BY <1>1, BookkeepingNext, PTL DEF Spec

\* The cursor reaches a post only once it is reported and recorded, was cut off
\* by the limit or left the feed, unless it was dated where the cursor was.
THEOREM CursorSkipsNothing == Spec => []NothingSkipped
  <1>1. Inv => NothingSkipped
    <2> SUFFICES ASSUME Inv PROVE NothingSkipped
      OBVIOUS
    <2>1. cursor \in Nat /\ \A p \in Posts : published[p] \in Nat
      BY TimesAreNat DEF Inv, TypeOK
    <2>2. Accounted(cursor, {})
      BY DEF Inv, Bookkeeping, CursorOK
    <2> QED
      BY <2>1, <2>2 DEF Accounted, NothingSkipped
  <1> QED
    BY <1>1, InvHolds, PTL

-----------------------------------------------------------------------------
(***************************************************************************)
(* Repeated reports are explained.  Beside the reports of a post that      *)
(* were made, count those that are still to come without another cause:    *)
(* the handlers that hold the post and have not reported it, and those     *)
(* that would fetch it (again) as things are.  Only a fault, a new date or *)
(* a cursor that moves back raises the sum.                                *)
(***************************************************************************)
Carries(w, p) ==
  job[w].pc \in {"check", "post"} /\ p \in job[w].unchecked \union job[w].fresh

Returns(w, p) ==
  \/ published[p] = 0
  \/ IF p \in job[w].unchecked \union job[w].fresh
       THEN published[p] > job[w].upto
       ELSE \/ published[p] > cursor
            \/ job[w].pc = "fetch" /\ published[p] > job[w].since

Carrying(p)  == {w \in Workers : Carries(w, p)}
Returning(p) == {w \in Workers : Returns(w, p)}

Causes(p) == Cardinality(Workers) * (1 + edited[p] + rewound) + faults

Explained(p) ==
  posts[p] + Cardinality(Carrying(p)) + Cardinality(Returning(p)) <= Causes(p)

CInv == Inv /\ \A p \in Posts : Explained(p)

\* The worker counts, before and after a step.
LEMMA Counts ==
  ASSUME NEW p
  PROVE  /\ Carrying(p) \in SUBSET Workers /\ Returning(p) \in SUBSET Workers
         /\ IsFiniteSet(Carrying(p)) /\ IsFiniteSet(Returning(p))
         /\ Cardinality(Carrying(p)) \in Nat /\ Cardinality(Returning(p)) \in Nat
         /\ Cardinality(Workers) \in Nat
         /\ Cardinality(Carrying(p)) <= Cardinality(Workers)
         /\ Cardinality(Returning(p)) <= Cardinality(Workers)
  <1>1. Carrying(p) \in SUBSET Workers /\ Returning(p) \in SUBSET Workers
    BY DEF Carrying, Returning
  <1> QED
    BY <1>1, WorkersFinite, Part

LEMMA CausesNat ==
  ASSUME TypeOK, NEW p \in Posts
  PROVE  /\ Causes(p) \in Nat /\ faults \in Nat /\ posts[p] \in Nat
         /\ edited[p] \in Nat /\ rewound \in Nat
  <1>1. Cardinality(Workers) \in Nat
    BY WorkersFinite, FS_CardinalityType
  <1>2. edited[p] \in Nat /\ rewound \in Nat /\ faults \in Nat /\ posts[p] \in Nat
    BY DEF TypeOK
  <1>3. \A n, k \in Nat : n * k \in Nat
    OBVIOUS
  <1>4. 1 + edited[p] + rewound \in Nat
    BY <1>2
  <1> QED
    BY <1>1, <1>2, <1>3, <1>4 DEF Causes

\* One more edit, or one more move back, makes room for every worker.
LEMMA MoreCauses ==
  ASSUME TypeOK, TypeOK', NEW p \in Posts, faults' = faults,
         edited'[p] + rewound' = edited[p] + rewound + 1
  PROVE  Causes(p)' = Causes(p) + Cardinality(Workers)
  <1>1. Cardinality(Workers) \in Nat
    BY WorkersFinite, FS_CardinalityType
  <1>2. /\ edited[p] \in Nat /\ rewound \in Nat /\ faults \in Nat
        /\ edited'[p] \in Nat /\ rewound' \in Nat
    BY DEF TypeOK
  <1>3. \A n, k \in Nat : n * (k + 1) = n * k + n
    OBVIOUS
  <1>4. 1 + edited[p] + rewound \in Nat
        /\ 1 + edited'[p] + rewound' = (1 + edited[p] + rewound) + 1
    BY <1>2
  <1>5. Cardinality(Workers) * (1 + edited'[p] + rewound')
          = Cardinality(Workers) * (1 + edited[p] + rewound) + Cardinality(Workers)
    BY <1>1, <1>3, <1>4
  <1>6. \A n, k \in Nat : n * k \in Nat
    OBVIOUS
  <1>7. Cardinality(Workers) * (1 + edited[p] + rewound) \in Nat
    BY <1>1, <1>4, <1>6
  <1> QED
    BY <1>1, <1>2, <1>5, <1>7 DEF Causes

LEMMA NewCause ==
  ASSUME CInv, TypeOK', NEW p \in Posts, faults' = faults,
         edited'[p] + rewound' = edited[p] + rewound + 1,
         posts'[p] = posts[p], \A w \in Workers : Carries(w, p)' => Carries(w, p)
  PROVE  Explained(p)'
  <1>1. Causes(p)' = Causes(p) + Cardinality(Workers)
    BY MoreCauses DEF CInv, Inv
  <1>2. Carrying(p)' \in SUBSET Carrying(p) /\ Returning(p)' \in SUBSET Workers
    BY DEF Carrying, Returning
  <1>3. Cardinality(Carrying(p)') \in Nat /\ Cardinality(Carrying(p)') <= Cardinality(Carrying(p))
    BY <1>2, Counts, Part
  <1>4. Cardinality(Returning(p)') \in Nat /\ Cardinality(Returning(p)') <= Cardinality(Workers)
    BY <1>2, WorkersFinite, Part
  <1> QED
    BY <1>1, <1>3, <1>4, Counts, CausesNat DEF CInv, Inv, Explained

\* A step that makes no worker hold, or fetch, the post.
LEMMA NobodyJoins ==
  ASSUME CInv, TypeOK', NEW p \in Posts,
         posts'[p] = posts[p], edited'[p] = edited[p], rewound' = rewound, faults' = faults,
         \A w \in Workers : (Carries(w, p)' => Carries(w, p)) /\ (Returns(w, p)' => Returns(w, p))
  PROVE  Explained(p)'
  <1>1. Carrying(p)' \in SUBSET Carrying(p) /\ Returning(p)' \in SUBSET Returning(p)
    BY DEF Carrying, Returning
  <1>2. Cardinality(Carrying(p)') \in Nat /\ Cardinality(Carrying(p)') <= Cardinality(Carrying(p))
    BY <1>1, Counts, Part
  <1>3. Cardinality(Returning(p)') \in Nat /\ Cardinality(Returning(p)') <= Cardinality(Returning(p))
    BY <1>1, Counts, Part
  <1>4. Causes(p)' = Causes(p)
    BY DEF Causes
  <1> QED
    BY <1>2, <1>3, <1>4, Counts, CausesNat DEF CInv, Inv, Explained

Bit(b) == IF b THEN 1 ELSE 0

\* A step of w's handler is judged by what it does to w's own share.
LEMMA Shares ==
  ASSUME CInv, TypeOK', NEW w \in Workers, NEW j \in Job, Becomes(w, j),
         UNCHANGED <<published, cursor, edited, rewound>>, NEW p \in Posts,
         posts'[p] + Bit(Carries(w, p)') + Bit(Returns(w, p)') + faults
           <= posts[p] + Bit(Carries(w, p)) + Bit(Returns(w, p)) + faults'
  PROVE  Explained(p)'
  <1>1. \A v \in Workers \ {w} : job'[v] = job[v]
    BY JobTyped DEF CInv, Inv
  <1>2. Carrying(p)' \ {w} \subseteq Carrying(p) /\ Returning(p)' \ {w} \subseteq Returning(p)
    BY <1>1 DEF Carrying, Returning, Carries, Returns
  <1>3. /\ Cardinality(Carrying(p)') \in Nat
        /\ Cardinality(Carrying(p)') + In(w, Carrying(p)) <= Cardinality(Carrying(p)) + In(w, Carrying(p)')
    BY <1>2, Counts, OneMoves
  <1>4. /\ Cardinality(Returning(p)') \in Nat
        /\ Cardinality(Returning(p)') + In(w, Returning(p)) <= Cardinality(Returning(p)) + In(w, Returning(p)')
    BY <1>2, Counts, OneMoves
  <1>5. /\ In(w, Carrying(p)) = Bit(Carries(w, p)) /\ In(w, Carrying(p)') = Bit(Carries(w, p)')
        /\ In(w, Returning(p)) = Bit(Returns(w, p)) /\ In(w, Returning(p)') = Bit(Returns(w, p)')
    BY DEF In, Bit, Carrying, Returning
  <1>6. /\ Bit(Carries(w, p)) \in Nat /\ Bit(Carries(w, p)') \in Nat
        /\ Bit(Returns(w, p)) \in Nat /\ Bit(Returns(w, p)') \in Nat
    BY DEF Bit
  <1>7. Causes(p)' + faults = Causes(p) + faults' /\ Causes(p)' \in Nat /\ faults' \in Nat
        /\ posts'[p] \in Nat
    <2>1. faults' \in Nat /\ posts'[p] \in Nat
      BY DEF TypeOK
    <2>2. \A n, k \in Nat : n * k \in Nat
      OBVIOUS
    <2>3. Cardinality(Workers) * (1 + edited[p] + rewound) \in Nat
      BY <2>2, Counts, CausesNat DEF CInv, Inv
    <2> QED
      BY <2>1, <2>3, CausesNat DEF Causes, CInv, Inv
  <1> QED
    BY <1>3, <1>4, <1>5, <1>6, <1>7, Counts, CausesNat DEF CInv, Inv, Explained

\* The numbers that decide who carries and who returns.
LEMMA DatesTyped ==
  ASSUME TypeOK, NEW w \in Workers, NEW p \in Posts
  PROVE  /\ published[p] \in Nat /\ now \in Nat /\ cursor \in Nat
         /\ job[w].since \in Nat /\ job[w].upto \in Nat
         /\ posts[p] \in Nat /\ faults \in Nat
         /\ Bit(Carries(w, p)) \in {0, 1} /\ Bit(Returns(w, p)) \in {0, 1}
  BY TimesAreNat DEF TypeOK, Job, Bit

LEMMA StartExplained ==
  ASSUME CInv, TypeOK', NEW w \in Workers, NEW attempt \in queue, Start(w, attempt), NEW p \in Posts
  PROVE  Explained(p)'
  <1> DEFINE j == [Idle EXCEPT !.pc = "fetch", !.attempt = attempt, !.since = cursor]
  <1>1. attempt \in 1 .. MaxAttempts
    BY DEF CInv, Inv, TypeOK
  <1>2. j \in Job /\ j.pc = "fetch" /\ j.since = cursor /\ j.unchecked = {} /\ j.fresh = {}
    BY <1>1, StartJob DEF CInv, Inv
  <1>3. Becomes(w, j) /\ UNCHANGED <<published, cursor, edited, rewound, posts, faults>>
        /\ job[w].pc = "idle"
    BY DEF Start
  <1> HIDE DEF j
  <1>4. job'[w] = j
    BY <1>2, <1>3, JobTyped DEF CInv, Inv
  <1>5. job[w].unchecked = {} /\ job[w].fresh = {}
    BY <1>3 DEF CInv, Inv, Bookkeeping, JobOK
  <1>6. ~Carries(w, p)' /\ (Returns(w, p)' => Returns(w, p))
    BY <1>2, <1>3, <1>4, <1>5 DEF Carries, Returns
  <1>7. Bit(Carries(w, p)') = 0 /\ Bit(Returns(w, p)') <= Bit(Returns(w, p))
        /\ Bit(Returns(w, p)') \in Nat
    BY <1>6 DEF Bit
  <1>8. posts'[p] + Bit(Carries(w, p)') + Bit(Returns(w, p)') + faults
          <= posts[p] + Bit(Carries(w, p)) + Bit(Returns(w, p)) + faults'
    BY <1>3, <1>7, DatesTyped DEF CInv, Inv
  <1> QED
    BY <1>2, <1>3, <1>8, Shares

\* A handler that fetched a post holds it instead of being about to fetch it.
LEMMA FetchExplained ==
  ASSUME CInv, TypeOK', NEW w \in Workers, Fetch(w), NEW p \in Posts
  PROVE  Explained(p)'
  <1>1. PICK kept \in SUBSET Newer(job[w].since), t \in Times :
          /\ \A q \in kept : published[q] <= t
          /\ Becomes(w, [job[w] EXCEPT !.pc = "check", !.since = 0, !.unchecked = kept, !.upto = t])
    BY DEF Fetch
  <1> DEFINE j == [job[w] EXCEPT !.pc = "check", !.since = 0, !.unchecked = kept, !.upto = t]
  <1>2. kept \subseteq Posts /\ \A q \in kept : published[q] > job[w].since
    BY DEF Newer
  <1>3. /\ j \in Job /\ j.pc = "check" /\ j.unchecked = kept /\ j.upto = t
        /\ j.fresh = job[w].fresh
    <2>1. TypeOK /\ kept \in SUBSET Posts /\ t \in Times
      BY <1>2 DEF CInv, Inv
    <2> QED
      BY <2>1, TimesAreNat, ZenonT(60) DEF TypeOK, Job
  <1>4. Becomes(w, j) /\ UNCHANGED <<published, cursor, edited, rewound, posts, faults>>
        /\ job[w].pc = "fetch"
    BY <1>1 DEF Fetch
  <1> HIDE DEF j
  <1>5. job'[w] = j
    BY <1>3, <1>4, JobTyped DEF CInv, Inv
  <1>6. job[w].unchecked = {} /\ job[w].fresh = {}
    BY <1>4 DEF CInv, Inv, Bookkeeping, JobOK
  <1>7. published[p] \in Nat /\ t \in Nat /\ job[w].since \in Nat
    BY DatesTyped, TimesAreNat DEF CInv, Inv
  <1>8. /\ Carries(w, p)' => Returns(w, p) /\ ~Returns(w, p)'
        /\ Returns(w, p)' => Returns(w, p)
    BY <1>1, <1>2, <1>3, <1>4, <1>5, <1>6, <1>7 DEF Carries, Returns
  <1>9. Bit(Carries(w, p)') + Bit(Returns(w, p)') <= Bit(Returns(w, p))
        /\ Bit(Carries(w, p)') \in Nat /\ Bit(Returns(w, p)') \in Nat
    BY <1>8 DEF Bit
  <1>10. posts'[p] + Bit(Carries(w, p)') + Bit(Returns(w, p)') + faults
           <= posts[p] + Bit(Carries(w, p)) + Bit(Returns(w, p)) + faults'
    BY <1>4, <1>9, DatesTyped DEF CInv, Inv
  <1> QED
    BY <1>3, <1>4, <1>10, Shares

\* A handler that drops a post may fetch it again later.
LEMMA CheckExplained ==
  ASSUME CInv, TypeOK', NEW w \in Workers, NEW q \in Posts, Check(w, q), NEW p \in Posts
  PROVE  Explained(p)'
  <1> DEFINE fresh == FreshAfter(w, q)
             j     == Checked(w, q)
  <1>1. /\ job[w].pc = "check" /\ q \in job[w].unchecked /\ Becomes(w, j)
        /\ UNCHANGED <<published, cursor, edited, rewound, posts, faults>>
    BY DEF Check, Checked, FreshAfter
  <1>2. /\ j \in Job
        /\ \/ j = Idle /\ job[w].unchecked = {q} /\ fresh = {}
           \/ /\ j.pc = IF job[w].unchecked = {q} THEN "post" ELSE "check"
              /\ j.unchecked = job[w].unchecked \ {q} /\ j.fresh = fresh
              /\ j.since = job[w].since /\ j.upto = job[w].upto
    BY CheckedJob DEF CInv, Inv
  <1> HIDE DEF j
  <1>3. job'[w] = j
    BY <1>1, <1>2, JobTyped DEF CInv, Inv
  <1> DEFINE held == j.unchecked \union j.fresh
  <1>4. /\ held \subseteq job[w].unchecked \union job[w].fresh
        /\ p \in held => j.upto = job[w].upto
        /\ j.pc # "fetch"
    BY <1>1, <1>2, IdleIsJob DEF FreshAfter
  <1>5. /\ Carries(w, p)' => Carries(w, p)
        /\ Carries(w, p)' /\ Returns(w, p)' => Returns(w, p)
        /\ Returns(w, p)' => Carries(w, p) \/ Returns(w, p)
    BY <1>1, <1>3, <1>4 DEF Carries, Returns
  <1>6. Bit(Carries(w, p)') + Bit(Returns(w, p)') <= Bit(Carries(w, p)) + Bit(Returns(w, p))
        /\ Bit(Carries(w, p)') \in Nat /\ Bit(Returns(w, p)') \in Nat
    BY <1>5 DEF Bit
  <1>7. posts'[p] + Bit(Carries(w, p)') + Bit(Returns(w, p)') + faults
          <= posts[p] + Bit(Carries(w, p)) + Bit(Returns(w, p)) + faults'
    BY <1>1, <1>6, DatesTyped DEF CInv, Inv
  <1> QED
    BY <1>1, <1>2, <1>7, Shares

\* A handler that ends without a report: what it held, it may fetch again.
LEMMA StopExplained ==
  ASSUME CInv, TypeOK', NEW w \in Workers, Becomes(w, Idle),
         UNCHANGED <<published, cursor, edited, rewound, posts>>,
         faults' = faults + 1 \/ (faults' = faults /\ job[w].pc = "fetch"), NEW p \in Posts
  PROVE  Explained(p)'
  <1>1. job'[w] = Idle
    BY IdleIsJob, JobTyped DEF CInv, Inv
  <1>2. ~Carries(w, p)'
    BY <1>1, IdleIsJob DEF Carries
  <1>3. job[w].pc = "fetch" => (Returns(w, p)' => Returns(w, p))
    BY <1>1, IdleIsJob DEF Returns, CInv, Inv, Bookkeeping, JobOK
  <1>4. /\ Bit(Carries(w, p)') = 0 /\ Bit(Returns(w, p)') \in {0, 1}
        /\ job[w].pc = "fetch" => Bit(Returns(w, p)') <= Bit(Returns(w, p))
    BY <1>2, <1>3 DEF Bit
  <1>5. posts'[p] + Bit(Carries(w, p)') + Bit(Returns(w, p)') + faults
          <= posts[p] + Bit(Carries(w, p)) + Bit(Returns(w, p)) + faults'
    BY <1>4, DatesTyped DEF CInv, Inv
  <1> QED
    BY <1>5, IdleIsJob, Shares

\* The report of a post is the one that its handler owed.
LEMMA ReportExplained ==
  ASSUME CInv, TypeOK', NEW w \in Workers, job[w].pc = "post", Reported(w),
         NEW j \in Job, Becomes(w, j), UNCHANGED <<published, cursor, edited, rewound>>,
         \/ j = Idle /\ faults' = faults + 1
         \/ /\ j.pc = "record" /\ j.unchecked = job[w].unchecked /\ j.fresh = job[w].fresh
            /\ j.upto = job[w].upto /\ faults' = faults,
         NEW p \in Posts
  PROVE  Explained(p)'
  <1>1. job'[w] = j
    BY JobTyped DEF CInv, Inv
  <1>2. job[w].unchecked = {}
    BY DEF CInv, Inv, Bookkeeping, JobOK
  <1>3. ~Carries(w, p)'
    BY <1>1, IdleIsJob DEF Carries
  <1>4. posts'[p] = posts[p] + Bit(Carries(w, p))
    BY <1>2, DatesTyped DEF Reported, Carries, Bit, CInv, Inv
  <1>5. ASSUME faults' = faults PROVE Returns(w, p)' => Returns(w, p)
    <2>1. /\ j.pc = "record" /\ j.unchecked = job[w].unchecked /\ j.fresh = job[w].fresh
          /\ j.upto = job[w].upto
      BY <1>5, DatesTyped DEF CInv, Inv
    <2> QED
      BY <1>1, <2>1 DEF Returns
  <1>6. /\ Bit(Carries(w, p)') = 0 /\ Bit(Returns(w, p)') \in {0, 1}
        /\ faults' = faults => Bit(Returns(w, p)') <= Bit(Returns(w, p))
    BY <1>3, <1>5 DEF Bit
  <1>7. posts'[p] + Bit(Carries(w, p)') + Bit(Returns(w, p)') + faults
          <= posts[p] + Bit(Carries(w, p)) + Bit(Returns(w, p)) + faults'
    BY <1>4, <1>6, DatesTyped DEF CInv, Inv
  <1> QED
    BY <1>7, Shares

LEMMA RecordExplained ==
  ASSUME CInv, TypeOK', NEW w \in Workers, Record(w), NEW p \in Posts
  PROVE  Explained(p)'
  <1> DEFINE j == [job[w] EXCEPT !.pc = "cursor"]
  <1>1. /\ j \in Job /\ j.pc = "cursor" /\ j.unchecked = job[w].unchecked
        /\ j.fresh = job[w].fresh /\ j.upto = job[w].upto
    BY NextPcJob DEF CInv, Inv
  <1>2. Becomes(w, j) /\ UNCHANGED <<published, cursor, edited, rewound, posts, faults>>
    BY DEF Record
  <1> HIDE DEF j
  <1>3. job'[w] = j /\ \A v \in Workers \ {w} : job'[v] = job[v]
    BY <1>1, <1>2, JobTyped DEF CInv, Inv
  <1>4. ASSUME NEW v \in Workers
        PROVE  (Carries(v, p)' => Carries(v, p)) /\ (Returns(v, p)' => Returns(v, p))
    BY <1>1, <1>2, <1>3 DEF Carries, Returns
  <1> QED
    BY <1>2, <1>4, NobodyJoins

\* A cursor that moves on leaves fewer posts to fetch; what the job held is
\* behind it, unless it was dated again since.
LEMMA SetCursorExplained ==
  ASSUME CInv, TypeOK', NEW w \in Workers, SetCursor(w), NEW p \in Posts
  PROVE  Explained(p)'
  <1>1. /\ job[w].pc = "cursor" /\ cursor' = job[w].upto /\ Becomes(w, Idle)
        /\ UNCHANGED <<published, edited, posts, faults>>
        /\ rewound' = IF cursor' < cursor THEN rewound + 1 ELSE rewound
    BY DEF SetCursor
  <1>2. job'[w] = Idle /\ \A v \in Workers \ {w} : job'[v] = job[v]
    BY <1>1, IdleIsJob, JobTyped DEF CInv, Inv
  <1>3. ASSUME NEW v \in Workers PROVE Carries(v, p)' => Carries(v, p)
    BY <1>2, IdleIsJob DEF Carries
  <1>4. CASE cursor' < cursor
    <2>1. edited'[p] + rewound' = edited[p] + rewound + 1
      BY <1>1, <1>4, CausesNat DEF CInv, Inv
    <2> QED
      BY <1>1, <1>3, <2>1, NewCause
  <1>5. CASE ~(cursor' < cursor)
    <2>1. published[p] \in Nat /\ cursor \in Nat /\ cursor' \in Nat
      BY <1>1, DatesTyped DEF CInv, Inv
    <2>2. ASSUME NEW v \in Workers PROVE Returns(v, p)' => Returns(v, p)
      <3>1. CASE v = w
        BY <1>1, <1>2, <1>5, <2>1, <3>1, IdleIsJob DEF Returns
      <3>2. CASE v # w
        BY <1>1, <1>2, <1>5, <2>1, <3>2 DEF Returns
      <3> QED
        BY <3>1, <3>2
    <2> QED
      BY <1>1, <1>3, <1>5, <2>2, NobodyJoins
  <1> QED
    BY <1>4, <1>5

LEMMA CInvNext == CInv /\ [Next]_vars => CInv'
  <1> SUFFICES ASSUME CInv, [Next]_vars, NEW p \in Posts PROVE Explained(p)'
    BY BookkeepingNext DEF CInv
  <1>0. TypeOK' /\ \A q \in Posts : posts[q] \in Nat /\ edited[q] \in Nat /\ rewound \in Nat
    BY TypeNext, CausesNat DEF CInv, Inv
  <1>1. ASSUME UNCHANGED <<published, cursor, job, faults, posts, edited, rewound>>
        PROVE  Explained(p)'
    BY <1>0, <1>1, NobodyJoins DEF Carries, Returns
  <1>2. CASE Tick
    BY <1>1, <1>2 DEF Tick
  <1>3. CASE Enqueue
    BY <1>1, <1>3 DEF Enqueue
  <1>4. ASSUME NEW q \in Posts, NEW t \in Dates, Publish(q, t) PROVE Explained(p)'
    <2>1. UNCHANGED <<cursor, job, faults, posts, edited, rewound>> /\ published[q] = 0
          /\ \A r \in Posts \ {q} : published'[r] = published[r]
      BY <1>4 DEF Publish, Dated, CInv, Inv, TypeOK
    <2>2. ASSUME NEW w \in Workers
          PROVE  (Carries(w, p)' => Carries(w, p)) /\ (Returns(w, p)' => Returns(w, p))
      BY <2>1 DEF Carries, Returns
    <2> QED
      BY <1>0, <2>1, <2>2, NobodyJoins
  <1>5. ASSUME NEW q \in Posts, NEW t \in Dates, Republish(q, t) PROVE Explained(p)'
    <2>1. UNCHANGED <<cursor, job, faults, posts, rewound>>
          /\ edited'[q] = edited[q] + 1
          /\ \A r \in Posts \ {q} : published'[r] = published[r] /\ edited'[r] = edited[r]
      BY <1>5 DEF Republish, Dated, CInv, Inv, TypeOK
    <2>2. \A w \in Workers : Carries(w, p)' => Carries(w, p)
      BY <2>1 DEF Carries
    <2>3. CASE p = q
      <3>1. edited'[p] + rewound' = edited[p] + rewound + 1
        BY <1>0, <2>1, <2>3
      <3> QED
        BY <1>0, <2>1, <2>2, <3>1, NewCause
    <2>4. CASE p # q
      <3>1. \A w \in Workers : Returns(w, p)' => Returns(w, p)
        BY <2>1, <2>4 DEF Returns
      <3> QED
        BY <1>0, <2>1, <2>2, <2>4, <3>1, NobodyJoins
    <2> QED
      BY <2>3, <2>4
  <1>5a. ASSUME NEW q \in Posts, FallOff(q) PROVE Explained(p)'
    BY <1>1, <1>5a DEF FallOff
  <1>6. ASSUME NEW q \in Posts, Expire(q) PROVE Explained(p)'
    BY <1>1, <1>6 DEF Expire
  <1>7. ASSUME NEW w \in Workers, Handler(w) PROVE Explained(p)'
    <2>1. ASSUME NEW attempt \in queue, Start(w, attempt) PROVE Explained(p)'
      BY <1>0, <2>1, StartExplained
    <2>2. CASE Fetch(w)
      BY <1>0, <2>2, FetchExplained
    <2>3. CASE NothingFetched(w)
      BY <1>0, <2>3, StopExplained DEF NothingFetched
    <2>4. CASE FeedSkipped(w)
      BY <1>0, <2>4, StopExplained DEF FeedSkipped, Fault
    <2>5. ASSUME NEW q \in Posts, Check(w, q) PROVE Explained(p)'
      BY <1>0, <2>5, CheckExplained
    <2>6. CASE Post(w)
      <3> DEFINE j == [job[w] EXCEPT !.pc = "record"]
      <3>1. /\ j \in Job /\ j.pc = "record" /\ j.unchecked = job[w].unchecked
            /\ j.fresh = job[w].fresh /\ j.upto = job[w].upto
        BY NextPcJob DEF CInv, Inv
      <3>2. /\ job[w].pc = "post" /\ Reported(w) /\ Becomes(w, j)
            /\ UNCHANGED <<published, cursor, edited, rewound, faults>>
        BY <2>6 DEF Post
      <3> HIDE DEF j
      <3> QED
        BY <1>0, <3>1, <3>2, ReportExplained
    <2>7. CASE PostUnconfirmed(w)
      <3>1. /\ job[w].pc = "post" /\ Reported(w) /\ Becomes(w, Idle) /\ faults' = faults + 1
            /\ UNCHANGED <<published, cursor, edited, rewound>>
        BY <2>7 DEF PostUnconfirmed, Abort, Fault
      <3> QED
        BY <1>0, <3>1, IdleIsJob, ReportExplained
    <2>8. CASE Record(w)
      BY <1>0, <2>8, RecordExplained
    <2>9. CASE SetCursor(w)
      BY <1>0, <2>9, SetCursorExplained
    <2>10. CASE Timeout(w)
      <3> DEFINE j == [job[w] EXCEPT !.attempt = 0]
      <3>1. /\ j \in Job /\ j.pc = job[w].pc /\ j.unchecked = job[w].unchecked
            /\ j.fresh = job[w].fresh /\ j.since = job[w].since /\ j.upto = job[w].upto
        BY TimeoutJob DEF CInv, Inv
      <3>2. Becomes(w, j) /\ faults' = faults + 1
            /\ UNCHANGED <<published, cursor, edited, rewound, posts>>
        BY <2>10 DEF Timeout, Fault
      <3> HIDE DEF j
      <3>3. job'[w] = j
        BY <3>1, <3>2, JobTyped DEF CInv, Inv
      <3>4. Carries(w, p)' = Carries(w, p) /\ Returns(w, p)' = Returns(w, p)
        BY <3>1, <3>2, <3>3 DEF Carries, Returns
      <3>5. posts'[p] + Bit(Carries(w, p)') + Bit(Returns(w, p)') + faults
              <= posts[p] + Bit(Carries(w, p)) + Bit(Returns(w, p)) + faults'
        BY <3>2, <3>4, DatesTyped DEF CInv, Inv
      <3> QED
        BY <1>0, <3>1, <3>2, <3>5, Shares
    <2>11. CASE Fail(w)
      BY <1>0, <2>11, StopExplained DEF Fail, Abort, Fault
    <2> QED
      BY <1>7, <2>1, <2>2, <2>3, <2>4, <2>5, <2>6, <2>7, <2>8, <2>9, <2>10, <2>11 DEF Handler
  <1>8. CASE UNCHANGED vars
    BY <1>1, <1>8 DEF vars
  <1> QED
    BY <1>2, <1>3, <1>4, <1>5, <1>5a, <1>6, <1>7, <1>8 DEF Next

LEMMA CInvInit == Init => CInv
  <1> SUFFICES ASSUME Init, NEW p \in Posts PROVE Explained(p)
    BY TypeInit, BookkeepingInit DEF CInv, Inv
  <1>1. posts[p] = 0 /\ edited[p] = 0 /\ rewound = 0 /\ faults = 0
    BY DEF Init
  <1>2. Carrying(p) = {}
    BY IdleIsJob DEF Init, Carrying, Carries
  <1>3. Cardinality(Carrying(p)) = 0
    BY <1>2, Nobody
  <1>4. Causes(p) = Cardinality(Workers)
    <2>1. Cardinality(Workers) \in Nat
      BY Counts
    <2> HIDE PublicationsAssumption
    <2> QED
      BY <1>1, <2>1, Z3 DEF Causes
  <1> QED
    BY <1>1, <1>3, <1>4, Counts DEF Explained

-----------------------------------------------------------------------------
(***************************************************************************)
(* The ledger bounds the reports a second time.  While no document of the  *)
(* post exists, every worker may still report it, but not the one that is  *)
(* about to record it; afterwards only those that found no document.       *)
(***************************************************************************)
MayPost(w, p) ==
  IF ledger[p] = 0 THEN ~ (job[w].pc = "record" /\ p \in job[w].fresh)
  ELSE job[w].pc \in {"check", "post"} /\ p \in job[w].fresh

Posters(p) == {w \in Workers : MayPost(w, p)}

Allowed(p) == Cardinality(Workers) * (1 + expired[p]) + faults

Within(p) == posts[p] + Cardinality(Posters(p)) <= Allowed(p)

RInv == Inv /\ \A p \in Posts : Within(p)

LEMMA PostersCount ==
  ASSUME NEW p
  PROVE  /\ IsFiniteSet(Posters(p)) /\ Cardinality(Posters(p)) \in Nat
         /\ Cardinality(Workers) \in Nat /\ Cardinality(Posters(p)) <= Cardinality(Workers)
  <1>1. Posters(p) \in SUBSET Workers
    BY DEF Posters
  <1> QED
    BY <1>1, WorkersFinite, Part

LEMMA AllowedNat ==
  ASSUME TypeOK, NEW p \in Posts
  PROVE  /\ Allowed(p) \in Nat /\ Cardinality(Workers) * (1 + expired[p]) \in Nat
         /\ posts[p] \in Nat /\ faults \in Nat /\ expired[p] \in Nat
  <1>1. posts[p] \in Nat /\ faults \in Nat /\ expired[p] \in Nat
    BY DEF TypeOK
  <1>2. \A n, k \in Nat : n * k \in Nat /\ n + k \in Nat
    OBVIOUS
  <1>3. Cardinality(Workers) \in Nat /\ 1 + expired[p] \in Nat
    BY <1>1, PostersCount
  <1>4. Cardinality(Workers) * (1 + expired[p]) \in Nat
    BY <1>2, <1>3, Zenon
  <1>5. Allowed(p) \in Nat
    BY <1>1, <1>2, <1>4, Zenon DEF Allowed
  <1> QED
    BY <1>1, <1>4, <1>5

\* No worker may report the post that could not before.
LEMMA NoNewPoster ==
  ASSUME RInv, TypeOK', NEW p \in Posts,
         posts'[p] = posts[p], expired'[p] = expired[p],
         faults' = faults \/ faults' = faults + 1,
         \A w \in Workers : MayPost(w, p)' => MayPost(w, p)
  PROVE  Within(p)'
  <1>1. Posters(p)' \in SUBSET Posters(p)
    BY DEF Posters
  <1>2. Cardinality(Posters(p)') \in Nat /\ Cardinality(Posters(p)') <= Cardinality(Posters(p))
    BY <1>1, PostersCount, Part
  <1>3. Allowed(p)' = Allowed(p) \/ Allowed(p)' = Allowed(p) + 1
    BY AllowedNat DEF Allowed, RInv, Inv
  <1> QED
    BY <1>2, <1>3, PostersCount, AllowedNat DEF RInv, Inv, Within

\* An expired document gives every worker one more report.
LEMMA ExpireWithin ==
  ASSUME RInv, TypeOK', NEW p \in Posts, faults' = faults, posts'[p] = posts[p],
         expired'[p] = expired[p] + 1
  PROVE  Within(p)'
  <1>1. Posters(p)' \in SUBSET Workers
    BY DEF Posters
  <1>2. Cardinality(Posters(p)') \in Nat /\ Cardinality(Posters(p)') <= Cardinality(Workers)
    BY <1>1, WorkersFinite, Part
  <1>3. Allowed(p)' = Allowed(p) + Cardinality(Workers)
    <2>1. \A n, k \in Nat : n * (1 + (k + 1)) = n * (1 + k) + n /\ n * (1 + k) \in Nat
      OBVIOUS
    <2>2. expired[p] \in Nat /\ faults \in Nat
      BY AllowedNat DEF RInv, Inv
    <2>3. Cardinality(Workers) \in Nat
      BY PostersCount
    <2>4. Cardinality(Workers) * (1 + expired'[p]) = Cardinality(Workers) * (1 + expired[p]) + Cardinality(Workers)
      BY <2>1, <2>2, <2>3
    <2>5. Cardinality(Workers) * (1 + expired[p]) \in Nat
      BY <2>1, <2>2, <2>3
    <2> QED
      BY <2>2, <2>3, <2>4, <2>5 DEF Allowed
  <1> QED
    BY <1>2, <1>3, PostersCount, AllowedNat DEF RInv, Inv, Within

\* What happens to w alone: a report that w was entitled to, or a fault.
LEMMA OnePoster ==
  ASSUME RInv, TypeOK', NEW w \in Workers, NEW j \in Job, Becomes(w, j),
         UNCHANGED <<ledger, expired>>, NEW p \in Posts,
         posts'[p] + In(w, Posters(p)') + faults <= posts[p] + In(w, Posters(p)) + faults'
  PROVE  Within(p)'
  <1>1. \A v \in Workers \ {w} : job'[v] = job[v]
    BY JobTyped DEF RInv, Inv
  <1>2. Posters(p)' \ {w} \subseteq Posters(p)
    BY <1>1 DEF Posters, MayPost
  <1>3. /\ Cardinality(Posters(p)') \in Nat
        /\ Cardinality(Posters(p)') + In(w, Posters(p)) <= Cardinality(Posters(p)) + In(w, Posters(p)')
    BY <1>2, PostersCount, OneMoves
  <1>4. In(w, Posters(p)) \in Nat /\ In(w, Posters(p)') \in Nat
    BY DEF In
  <1>5. posts'[p] \in Nat /\ faults' \in Nat /\ Allowed(p)' + faults = Allowed(p) + faults'
        /\ Allowed(p)' \in Nat
    <2>1. posts'[p] \in Nat /\ faults' \in Nat
      BY DEF TypeOK
    <2> QED
      BY <2>1, AllowedNat DEF Allowed, RInv, Inv
  <1> QED
    BY <1>3, <1>4, <1>5, PostersCount, AllowedNat DEF RInv, Inv, Within

\* A message reports each fresh post once more.
LEMMA PostWithin ==
  ASSUME RInv, TypeOK', NEW w \in Workers, job[w].pc = "post", Reported(w),
         NEW j \in Job, Becomes(w, j), UNCHANGED <<ledger, expired>>,
         \/ j.pc = "record" /\ j.fresh = job[w].fresh /\ faults' = faults
         \/ j = Idle /\ faults' = faults + 1,
         NEW p \in Posts
  PROVE  Within(p)'
  <1>1. job'[w] = j
    BY JobTyped DEF RInv, Inv
  <1>2. posts'[p] = IF p \in job[w].fresh THEN posts[p] + 1 ELSE posts[p]
    BY DEF Reported
  <1>3. w \in Posters(p) <=> (ledger[p] = 0 \/ p \in job[w].fresh)
    BY DEF Posters, MayPost
  <1>4. /\ w \in Posters(p)' => ledger[p] = 0
        /\ w \in Posters(p)' /\ faults' = faults => p \notin job[w].fresh
    <2>1. CASE j.pc = "record" /\ j.fresh = job[w].fresh
      BY <1>1, <2>1 DEF Posters, MayPost
    <2>2. CASE j = Idle /\ faults' = faults + 1
      BY <1>1, <2>2, IdleIsJob, AllowedNat DEF Posters, MayPost, RInv, Inv
    <2> QED
      BY <2>1, <2>2
  <1>5. faults' = faults \/ faults' = faults + 1
    OBVIOUS
  <1>6. posts'[p] + In(w, Posters(p)') + faults <= posts[p] + In(w, Posters(p)) + faults'
    BY <1>2, <1>3, <1>4, <1>5, AllowedNat DEF In, RInv, Inv
  <1> QED
    BY <1>6, OnePoster

\* A handler that dies may have to report again.
LEMMA FailWithin ==
  ASSUME RInv, TypeOK', NEW w \in Workers, NEW j \in Job, Becomes(w, j), NEW p \in Posts,
         UNCHANGED <<ledger, expired, posts>>, faults' = faults + 1
  PROVE  Within(p)'
  <1>1. In(w, Posters(p)) \in {0, 1} /\ In(w, Posters(p)') \in {0, 1}
    BY DEF In
  <1>2. posts'[p] + In(w, Posters(p)') + faults <= posts[p] + In(w, Posters(p)) + faults'
    BY <1>1, AllowedNat DEF RInv, Inv
  <1> QED
    BY <1>2, OnePoster

\* Any other step of a handler makes no new poster.
LEMMA QuietWithin ==
  ASSUME RInv, TypeOK', NEW w \in Workers, NEW j \in Job, Becomes(w, j), NEW p \in Posts,
         UNCHANGED <<ledger, expired, posts, faults>>,
         MayPost(w, p)' => MayPost(w, p)
  PROVE  Within(p)'
  <1>1. \A v \in Workers \ {w} : job'[v] = job[v]
    BY JobTyped DEF RInv, Inv
  <1>2. \A v \in Workers : MayPost(v, p)' => MayPost(v, p)
    BY <1>1 DEF MayPost
  <1> QED
    BY <1>2, NoNewPoster

LEMMA StartWithin ==
  ASSUME RInv, TypeOK', NEW w \in Workers, NEW attempt \in queue, Start(w, attempt), NEW p \in Posts
  PROVE  Within(p)'
  <1> DEFINE j == [Idle EXCEPT !.pc = "fetch", !.attempt = attempt, !.since = cursor]
  <1>1. attempt \in 1 .. MaxAttempts
    BY DEF RInv, Inv, TypeOK
  <1>2. j \in Job /\ j.pc = "fetch" /\ j.fresh = {}
    BY <1>1, StartJob DEF RInv, Inv
  <1>3. Becomes(w, j) /\ job[w].pc = "idle" /\ UNCHANGED <<ledger, expired, posts, faults>>
    BY DEF Start
  <1> HIDE DEF j
  <1>4. job'[w] = j
    BY <1>2, <1>3, JobTyped DEF RInv, Inv
  <1>5. MayPost(w, p)' => MayPost(w, p)
    BY <1>2, <1>3, <1>4 DEF MayPost
  <1> QED
    BY <1>2, <1>3, <1>5, QuietWithin

LEMMA FetchWithin ==
  ASSUME RInv, TypeOK', NEW w \in Workers, Fetch(w), NEW p \in Posts
  PROVE  Within(p)'
  <1>1. PICK kept \in SUBSET Newer(job[w].since), t \in Times :
          Becomes(w, [job[w] EXCEPT !.pc = "check", !.since = 0, !.unchecked = kept, !.upto = t])
    BY DEF Fetch
  <1> DEFINE j == [job[w] EXCEPT !.pc = "check", !.since = 0, !.unchecked = kept, !.upto = t]
  <1>2. kept \subseteq Posts
    BY DEF Newer
  <1>3. j \in Job /\ j.pc = "check" /\ j.fresh = job[w].fresh
    <2>1. TypeOK /\ kept \in SUBSET Posts /\ t \in Times
      BY <1>2 DEF RInv, Inv
    <2> QED
      BY <2>1, TimesAreNat, ZenonT(60) DEF TypeOK, Job
  <1>4. Becomes(w, j) /\ job[w].pc = "fetch" /\ UNCHANGED <<ledger, expired, posts, faults>>
    BY <1>1 DEF Fetch
  <1> HIDE DEF j
  <1>5. job'[w] = j /\ job[w].fresh = {}
    BY <1>3, <1>4, JobTyped DEF RInv, Inv, Bookkeeping, JobOK
  <1>6. MayPost(w, p)' => MayPost(w, p)
    BY <1>3, <1>4, <1>5 DEF MayPost
  <1> QED
    BY <1>3, <1>4, <1>6, QuietWithin

\* A post becomes fresh only where the ledger has no document of it.
LEMMA CheckWithin ==
  ASSUME RInv, TypeOK', NEW w \in Workers, NEW q \in Posts, Check(w, q), NEW p \in Posts
  PROVE  Within(p)'
  <1> DEFINE j == Checked(w, q)
  <1>1. /\ job[w].pc = "check" /\ Becomes(w, j)
        /\ UNCHANGED <<ledger, expired, posts, faults>>
    BY DEF Check, Checked, FreshAfter
  <1>2. /\ j \in Job
        /\ \/ j = Idle
           \/ j.pc \in {"post", "check"} /\ j.fresh = FreshAfter(w, q)
    <2>1. TypeOK
      BY DEF RInv, Inv
    <2> QED
      BY <2>1, CheckedJob
  <1> HIDE DEF j
  <1>3. job'[w] = j
    BY <1>1, <1>2, JobTyped DEF RInv, Inv
  <1>4. MayPost(w, p)' => MayPost(w, p)
    BY <1>1, <1>2, <1>3, IdleIsJob DEF MayPost, FreshAfter
  <1> QED
    BY <1>1, <1>2, <1>4, QuietWithin

\* The worker that records its posts has reported them; the others find them.
LEMMA RecordWithin ==
  ASSUME RInv, TypeOK', NEW w \in Workers, Record(w), NEW p \in Posts
  PROVE  Within(p)'
  <1> DEFINE j == [job[w] EXCEPT !.pc = "cursor"]
  <1>1. j \in Job /\ j.pc = "cursor" /\ j.fresh = job[w].fresh
    BY NextPcJob DEF RInv, Inv
  <1>2. /\ Becomes(w, j) /\ job[w].pc = "record" /\ UNCHANGED <<expired, posts, faults>>
        /\ ledger'[p] = IF p \in job[w].fresh THEN now + TTL ELSE ledger[p]
    BY DEF Record
  <1> HIDE DEF j
  <1>3. job'[w] = j /\ \A v \in Workers \ {w} : job'[v] = job[v]
    BY <1>1, <1>2, JobTyped DEF RInv, Inv
  <1>4. now + TTL # 0
    BY DEF RInv, Inv, TypeOK
  <1>5. ASSUME NEW v \in Workers PROVE MayPost(v, p)' => MayPost(v, p)
    <2>1. CASE v = w
      BY <1>1, <1>2, <1>3, <1>4, <2>1 DEF MayPost
    <2>2. CASE v # w
      BY <1>2, <1>3, <1>4, <2>2 DEF MayPost
    <2> QED
      BY <2>1, <2>2
  <1> QED
    BY <1>2, <1>5, NoNewPoster

LEMMA RInvNext == RInv /\ [Next]_vars => RInv'
  <1> SUFFICES ASSUME RInv, [Next]_vars, NEW p \in Posts PROVE Within(p)'
    BY BookkeepingNext DEF RInv
  <1>0. TypeOK' /\ Idle \in Job
    BY TypeNext, IdleIsJob DEF RInv, Inv
  <1>1. ASSUME UNCHANGED <<ledger, expired, posts, job, faults>> PROVE Within(p)'
    BY <1>0, <1>1, NoNewPoster DEF MayPost
  <1>2. CASE Tick
    BY <1>1, <1>2 DEF Tick
  <1>3. CASE Enqueue
    BY <1>1, <1>3 DEF Enqueue
  <1>4. ASSUME NEW q \in Posts, NEW t \in Dates, Publish(q, t) \/ Republish(q, t) PROVE Within(p)'
    BY <1>1, <1>4 DEF Publish, Republish
  <1>5. ASSUME NEW q \in Posts, FallOff(q) PROVE Within(p)'
    BY <1>1, <1>5 DEF FallOff
  <1>6. ASSUME NEW q \in Posts, Expire(q) PROVE Within(p)'
    <2>1. UNCHANGED <<job, posts, faults>>
      BY <1>6 DEF Expire
    <2>2. CASE p = q
      <3>1. expired'[p] = expired[p] + 1
        BY <1>6, <2>2 DEF Expire, RInv, Inv, TypeOK
      <3> QED
        BY <1>0, <2>1, <3>1, ExpireWithin
    <2>3. CASE p # q
      <3>1. ledger'[p] = ledger[p] /\ expired'[p] = expired[p]
        BY <1>6, <2>3 DEF Expire, RInv, Inv, TypeOK
      <3>2. \A w \in Workers : MayPost(w, p)' => MayPost(w, p)
        BY <2>1, <3>1 DEF MayPost
      <3> QED
        BY <1>0, <2>1, <3>1, <3>2, NoNewPoster
    <2> QED
      BY <2>2, <2>3
  <1>7. ASSUME NEW w \in Workers, Handler(w) PROVE Within(p)'
    <2>0. job[w].pc = "fetch" \/ job[w].pc = "cursor" => (MayPost(w, p) <=> ledger[p] = 0)
      BY DEF MayPost
    <2>1. ASSUME NEW attempt \in queue, Start(w, attempt) PROVE Within(p)'
      BY <1>0, <2>1, StartWithin
    <2>2. CASE Fetch(w)
      BY <1>0, <2>2, FetchWithin
    <2>3. CASE NothingFetched(w) \/ SetCursor(w)
      <3>1. Becomes(w, Idle) /\ UNCHANGED <<ledger, expired, posts, faults>>
            /\ (job[w].pc = "fetch" \/ job[w].pc = "cursor")
        BY <2>3 DEF NothingFetched, SetCursor
      <3>2. job'[w] = Idle
        BY <1>0, <3>1, JobTyped DEF RInv, Inv
      <3>3. MayPost(w, p)' => MayPost(w, p)
        BY <2>0, <3>1, <3>2, IdleIsJob DEF MayPost
      <3> QED
        BY <1>0, <3>1, <3>3, QuietWithin
    <2>4. CASE FeedSkipped(w)
      BY <1>0, <2>4, FailWithin DEF FeedSkipped, Fault
    <2>5. ASSUME NEW q \in Posts, Check(w, q) PROVE Within(p)'
      BY <1>0, <2>5, CheckWithin
    <2>6. CASE Post(w)
      <3> DEFINE j == [job[w] EXCEPT !.pc = "record"]
      <3>1. j \in Job /\ j.pc = "record" /\ j.fresh = job[w].fresh
        BY NextPcJob DEF RInv, Inv
      <3>2. job[w].pc = "post" /\ Reported(w) /\ Becomes(w, j) /\ UNCHANGED <<ledger, expired, faults>>
        BY <2>6 DEF Post
      <3> HIDE DEF j
      <3> QED
        BY <1>0, <3>1, <3>2, PostWithin
    <2>7. CASE PostUnconfirmed(w)
      BY <1>0, <2>7, PostWithin DEF PostUnconfirmed, Abort, Fault
    <2>8. CASE Record(w)
      BY <1>0, <2>8, RecordWithin
    <2>9. CASE Timeout(w)
      <3> DEFINE j == [job[w] EXCEPT !.attempt = 0]
      <3>1. j \in Job
        BY TimeoutJob DEF RInv, Inv
      <3>2. Becomes(w, j) /\ faults' = faults + 1 /\ UNCHANGED <<ledger, expired, posts>>
        BY <2>9 DEF Timeout, Fault
      <3> HIDE DEF j
      <3> QED
        BY <1>0, <3>1, <3>2, FailWithin
    <2>10. CASE Fail(w)
      BY <1>0, <2>10, FailWithin DEF Fail, Abort, Fault
    <2> QED
      BY <1>7, <2>1, <2>2, <2>3, <2>4, <2>5, <2>6, <2>7, <2>8, <2>9, <2>10 DEF Handler
  <1>8. CASE UNCHANGED vars
    BY <1>1, <1>8 DEF vars
  <1> QED
    BY <1>2, <1>3, <1>4, <1>5, <1>6, <1>7, <1>8 DEF Next

LEMMA RInvInit == Init => RInv
  <1> SUFFICES ASSUME Init, NEW p \in Posts PROVE Within(p)
    BY TypeInit, BookkeepingInit DEF RInv, Inv
  <1>1. posts[p] = 0 /\ expired[p] = 0 /\ faults = 0
    BY DEF Init
  <1>2. Allowed(p) = Cardinality(Workers)
    BY <1>1, PostersCount DEF Allowed
  <1> QED
    BY <1>1, <1>2, PostersCount DEF Within

\* Every worker reports a post at most once, and a fault costs one more report
\* at most, unless the document of the post expired and it was also edited or
\* fetched again after the cursor moved back.
THEOREM RepeatsAreExplained == Spec => []RepeatsExplained
  <1>1. CInv /\ RInv => RepeatsExplained
    <2> SUFFICES ASSUME CInv, RInv, NEW p \in Posts,
                        NEW causes \in {expired[p], edited[p] + rewound}
                 PROVE  posts[p] <= Cardinality(Workers) * (1 + causes) + faults
      BY DEF RepeatsExplained
    <2>1. posts[p] <= Allowed(p)
      BY PostersCount, AllowedNat DEF RInv, Inv, Within
    <2>2. posts[p] <= Causes(p)
      BY Counts, CausesNat DEF CInv, Inv, Explained
    <2>3. 1 + (edited[p] + rewound) = 1 + edited[p] + rewound
      BY CausesNat DEF CInv, Inv
    <2>4. CASE causes = expired[p]
      BY <2>1, <2>4 DEF Allowed
    <2>5. CASE causes = edited[p] + rewound
      BY <2>2, <2>3, <2>5 DEF Causes
    <2> QED
      BY <2>4, <2>5
  <1> QED
    BY <1>1, CInvInit, CInvNext, RInvInit, RInvNext, PTL DEF Spec

-----------------------------------------------------------------------------
(***************************************************************************)
(* The handlers implement the promise of Reporting.                        *)
(***************************************************************************)
LEMMA Skipless == Inv => SettledBy(cursor) \subseteq logged \union missed
  <1> SUFFICES ASSUME Inv PROVE SettledBy(cursor) \subseteq logged \union missed
    OBVIOUS
  <1>1. cursor \in Nat /\ \A p \in Posts : published[p] \in Nat
    BY TimesAreNat DEF Inv, TypeOK
  <1>2. Accounted(cursor, {})
    BY DEF Inv, Bookkeeping, CursorOK
  <1> QED
    BY <1>1, <1>2 DEF Accounted, SettledBy

LEMMA PromiseInit == Init => Promise!Init
  <1> SUFFICES ASSUME Init PROVE Promise!Init
    OBVIOUS
  <1>1. SettledBy(cursor) = {} /\ {p \in Posts : published[p] # 0} = {}
        /\ {p \in Posts : posts[p] > 0} = {} /\ logged = {} /\ missed = {}
    BY DEF Init, SettledBy
  <1> QED
    BY <1>1 DEF Promise!Init

\* A step that leaves alone what the feed shows, the cursor and the history.
LEMMA PromiseStutter ==
  ASSUME UNCHANGED <<published, late, cursor, posts, logged, missed>>
  PROVE  UNCHANGED Promise!promise
  BY DEF Promise!promise, SettledBy

\* The cursor moved, or a post left it behind.
LEMMA PromiseSettle ==
  ASSUME Inv, Inv', UNCHANGED <<posts, logged, missed>>,
         {p \in Posts : published'[p] # 0} = {p \in Posts : published[p] # 0}
  PROVE  Promise!Next
  <1> DEFINE batch == SettledBy(cursor)'
  <1>1. batch \in SUBSET Posts
    BY DEF SettledBy
  <1>2. batch \subseteq logged \union missed
    <2>1. /\ cursor' \in Nat /\ \A p \in Posts : published'[p] \in Nat
          /\ Accounted(cursor, {})'
      BY TimesAreNat DEF Inv, TypeOK, Bookkeeping, CursorOK
    <2> QED
      BY <2>1 DEF Accounted, SettledBy
  <1>3. [s \in {Publication} |-> SettledBy(cursor)]'
          = [[s \in {Publication} |-> SettledBy(cursor)] EXCEPT ![Publication] = batch]
    OBVIOUS
  <1>4. Promise!Settle(Publication, batch)
    <2> HIDE DEF batch
    <2> QED
      BY <1>2, <1>3 DEF Promise!Settle
  <1> HIDE DEF batch
  <1> QED
    BY <1>1, <1>4 DEF Promise!Next

LEMMA PromiseShow ==
  ASSUME Inv, NEW p \in Posts, NEW t \in Dates, Publish(p, t)
  PROVE  Promise!Next
  <1>1. /\ published'[p] = t /\ \A q \in Posts \ {p} : published'[q] = published[q]
        /\ late' \ {p} = late \ {p} /\ published[p] = 0
        /\ Passed(t) => p \in late'
        /\ UNCHANGED <<cursor, posts, logged, missed>>
    BY DEF Publish, Dated, Inv, TypeOK
  <1>2. t \in Nat /\ t # 0
    OBVIOUS
  <1>3. SettledBy(cursor)' = SettledBy(cursor)
    <2>1. p \notin SettledBy(cursor)
      BY <1>1 DEF SettledBy
    <2>2. p \notin SettledBy(cursor)'
      BY <1>1 DEF SettledBy, Passed
    <2>3. \A q \in Posts \ {p} : q \in SettledBy(cursor)' <=> q \in SettledBy(cursor)
      BY <1>1 DEF SettledBy
    <2>4. SettledBy(cursor) \subseteq Posts /\ SettledBy(cursor)' \subseteq Posts
      BY DEF SettledBy
    <2> QED
      BY <2>1, <2>2, <2>3, <2>4
  <1>4. {q \in Posts : published'[q] # 0} = {q \in Posts : published[q] # 0} \union {p}
    BY <1>1, <1>2
  <1>5. Promise!Show(p)
    BY <1>1, <1>3, <1>4 DEF Promise!Show
  <1> QED
    BY <1>5 DEF Promise!Next

\* A post that left the feed too early is dropped.
LEMMA PromiseDrop ==
  ASSUME Inv, NEW p \in Posts, FallOff(p)
  PROVE  Promise!Next \/ UNCHANGED Promise!promise
  <1>1. published[p] # 0 /\ UNCHANGED <<published, late, cursor, posts, logged>>
        /\ missed' = IF published[p] > cursor THEN missed \union {p} ELSE missed
    BY DEF FallOff
  <1>2. CASE published[p] > cursor
    <2>1. SettledBy(cursor)' = SettledBy(cursor)
      BY <1>1 DEF SettledBy
    <2>2. PICK left \in SUBSET Posts : left = {p}
      OBVIOUS
    <2>3. Promise!Drop(left)
      BY <1>1, <1>2, <2>1, <2>2 DEF Promise!Drop
    <2> QED
      BY <2>3 DEF Promise!Next
  <1>3. CASE ~(published[p] > cursor)
    BY <1>1, <1>3, PromiseStutter
  <1> QED
    BY <1>2, <1>3

LEMMA PromiseReport ==
  ASSUME Inv, NEW w \in Workers, Reported(w),
         UNCHANGED <<published, late, cursor, logged, missed>>
  PROVE  Promise!Next
  <1>1. job[w].fresh \in SUBSET Posts
    BY DEF Inv, TypeOK, Job
  <1>2. job[w].fresh \subseteq {p \in Posts : published[p] # 0}
    BY <1>1 DEF Inv, Bookkeeping, JobOK
  <1>3. {p \in Posts : posts'[p] > 0} = {p \in Posts : posts[p] > 0} \union job[w].fresh
    BY <1>1 DEF Reported, Inv, TypeOK
  <1>4. SettledBy(cursor)' = SettledBy(cursor)
    BY DEF SettledBy
  <1>5. PICK batch \in SUBSET Posts : batch = job[w].fresh
    BY <1>1
  <1>6. Promise!Report(batch)
    BY <1>2, <1>3, <1>4, <1>5, Zenon DEF Promise!Report
  <1> QED
    BY <1>6 DEF Promise!Next

LEMMA PromiseStep == Inv /\ Inv' /\ [Next]_vars => [Promise!Next]_(Promise!promise)
  <1> SUFFICES ASSUME Inv, Inv', [Next]_vars PROVE Promise!Next \/ UNCHANGED Promise!promise
    OBVIOUS
  <1>1. CASE Tick
    BY <1>1, PromiseStutter DEF Tick
  <1>2. CASE Enqueue
    BY <1>2, PromiseStutter DEF Enqueue
  <1>3. ASSUME NEW p \in Posts, NEW t \in Dates, Publish(p, t) PROVE Promise!Next
    BY <1>3, PromiseShow
  <1>4. ASSUME NEW p \in Posts, NEW t \in Dates, Republish(p, t) PROVE Promise!Next
    <2>1. {q \in Posts : published'[q] # 0} = {q \in Posts : published[q] # 0}
      BY <1>4 DEF Republish, Dated, Inv, TypeOK
    <2> QED
      BY <1>4, <2>1, PromiseSettle DEF Republish
  <1>4a. ASSUME NEW p \in Posts, FallOff(p) PROVE Promise!Next \/ UNCHANGED Promise!promise
    BY <1>4a, PromiseDrop
  <1>5. ASSUME NEW p \in Posts, Expire(p) PROVE UNCHANGED Promise!promise
    BY <1>5, PromiseStutter DEF Expire
  <1>6. ASSUME NEW w \in Workers, Handler(w) PROVE Promise!Next \/ UNCHANGED Promise!promise
    <2>1. ASSUME NEW attempt \in queue, Start(w, attempt) PROVE UNCHANGED Promise!promise
      BY <2>1, PromiseStutter DEF Start
    <2>2. CASE Fetch(w)
      <3>1. PICK left : missed' = missed \union left /\ left \subseteq Newer(job[w].since)
        BY <2>2 DEF Fetch
      <3>2. left \in SUBSET Posts /\ left \subseteq {p \in Posts : published[p] # 0}
        <4>1. job[w].since \in Nat
          BY DatesTyped, TimesAreNat DEF Inv, TypeOK, Job
        <4> QED
          BY <3>1, <4>1 DEF Newer
      <3>3. SettledBy(cursor)' = SettledBy(cursor) /\ UNCHANGED <<published, posts, logged>>
        BY <2>2 DEF Fetch, SettledBy
      <3>4. Promise!Drop(left)
        BY <3>1, <3>2, <3>3 DEF Promise!Drop
      <3> QED
        BY <3>2, <3>4 DEF Promise!Next
    <2>3. CASE NothingFetched(w)
      BY <2>3, PromiseStutter DEF NothingFetched
    <2>4. CASE FeedSkipped(w)
      BY <2>4, PromiseStutter DEF FeedSkipped
    <2>5. ASSUME NEW p \in Posts, Check(w, p) PROVE UNCHANGED Promise!promise
      BY <2>5, PromiseStutter DEF Check
    <2>6. CASE Post(w)
      BY <2>6, PromiseReport DEF Post
    <2>7. CASE PostUnconfirmed(w)
      BY <2>7, PromiseReport DEF PostUnconfirmed
    <2>8. CASE Record(w)
      <3>1. job[w].fresh \in SUBSET Posts /\ job[w].fresh \subseteq {p \in Posts : posts[p] > 0}
        BY <2>8 DEF Record, Inv, TypeOK, Job, Bookkeeping, JobOK
      <3>2. SettledBy(cursor)' = SettledBy(cursor) /\ UNCHANGED <<published, posts, missed>>
            /\ logged' = logged \union job[w].fresh
        BY <2>8 DEF Record, SettledBy
      <3>3. Promise!Record(job[w].fresh)
        BY <3>1, <3>2 DEF Promise!Record
      <3> QED
        BY <3>1, <3>3 DEF Promise!Next
    <2>9. CASE SetCursor(w)
      BY <2>9, PromiseSettle DEF SetCursor
    <2>10. CASE Timeout(w)
      BY <2>10, PromiseStutter DEF Timeout
    <2>11. CASE Fail(w)
      BY <2>11, PromiseStutter DEF Fail
    <2> QED
      BY <1>6, <2>1, <2>2, <2>3, <2>4, <2>5, <2>6, <2>7, <2>8, <2>9, <2>10, <2>11 DEF Handler
  <1>7. CASE UNCHANGED vars
    BY <1>7, PromiseStutter DEF vars
  <1> QED
    BY <1>1, <1>2, <1>3, <1>4, <1>4a, <1>5, <1>6, <1>7 DEF Next

\* Only published posts are reported, only reported ones recorded, and only
\* recorded or cut off ones left behind by the cursor.
THEOREM PublicationsKeepPromise == Spec => KeepsPromise
  <1>1. Spec => Init /\ []Inv /\ [][Next]_vars
    BY InvHolds, PTL DEF Spec
  <1> QED
    BY <1>1, PromiseInit, PromiseStep, PTL DEF KeepsPromise, Promise!Spec
=============================================================================
