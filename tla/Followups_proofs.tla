-------------------------- MODULE Followups_proofs --------------------------
(***************************************************************************)
(* Proofs about Followups and the cache it reads through, for any number   *)
(* of commands, workers, versions, changes and failures.                   *)
(***************************************************************************)
EXTENDS Followups, TLAPS

USE RepoCacheAssumption, FollowupsAssumption

-----------------------------------------------------------------------------
(***************************************************************************)
(* Type correctness.  A worker that is not idle serves some command, which *)
(* makes the delivery that follows a failure well formed.                  *)
(***************************************************************************)
Busy == \A w \in Workers : job[w].pc = "idle" \/ job[w].cmd \in Interactions

\* The answer to be stored is there.
Storing == \A w \in Workers : fetch[w].pc = "put" => fetch[w].answer \in Document

Typed == TypeOK /\ Busy /\ Storing

LEMMA NoCallIsCall == NoCall \in Call
  BY DEF NoCall, Call

LEMMA NoJobIsJob == NoJob \in Job
  BY DEF NoJob, Job, Answers

LEMMA TypedInit == Init => Typed
  <1> SUFFICES ASSUME Init PROVE Typed
    OBVIOUS
  <1>1. CacheTypeOK
    BY NoCallIsCall DEF Init, CacheInit, CacheTypeOK, Views
  <1>2. TypeOK
    BY <1>1, NoJobIsJob DEF Init, TypeOK, Answers
  <1>3. Busy /\ Storing
    BY DEF Init, CacheInit, Busy, Storing, NoJob, NoCall, Workers
  <1> QED
    BY <1>2, <1>3 DEF Typed

\* What happens to the call of one worker.
CallStep(w) ==
  \/ Call_fetch_repo(w) \/ Answered(w) \/ RateLimited(w) \/ CallFails(w)
  \/ CallEnds(w) /\ UNCHANGED <<shown, cache, changes>>

LEMMA ReturnsTyped ==
  ASSUME CacheTypeOK, NEW w \in Workers, NEW r \in Views \union {Failed}, Returns(w, r)
  PROVE  fetch' \in [Clients -> Call]
  <1>1. fetch[w].seen \subseteq Views
    BY DEF CacheTypeOK, Call, Workers
  <1>2. [NoCall EXCEPT !.pc = "done", !.result = r, !.seen = fetch[w].seen] \in Call
    BY <1>1, NoCallIsCall DEF Call
  <1> QED
    BY <1>2 DEF Returns, Becomes, CacheTypeOK, Workers

LEMMA CallStepTyped ==
  ASSUME CacheTypeOK, Storing, NEW w \in Workers, CallStep(w)
  PROVE  CacheTypeOK'
  <1> USE DEF CacheTypeOK, Becomes, Workers
  <1>0. fetch[w] \in Call
    OBVIOUS
  <1>1. CASE Call_fetch_repo(w)
    <2>1. [NoCall EXCEPT !.pc = "read", !.seen = {shown}] \in Call
      BY NoCallIsCall DEF Call
    <2> QED
      BY <1>1, <2>1 DEF Call_fetch_repo
  <1>2. CASE ReadCache(w)
    <2>1. [fetch[w] EXCEPT !.pc = "send", !.cached = cache] \in Call
      BY <1>0 DEF Call
    <2> QED
      BY <1>2, <2>1 DEF ReadCache
  <1>3. CASE NotModified(w)
    <2>1. fetch[w].cached \in Document
      BY <1>0, <1>3 DEF NotModified, Matches, Call
    <2>2. fetch[w].cached.content \in Views \union {Failed}
      BY <2>1 DEF Document, Views
    <2> QED
      BY <1>3, <2>2, ReturnsTyped DEF NotModified
  <1>4. CASE Modified(w)
    <2>1. PICK tag \in {shown, None} :
            Becomes(w, [NoCall EXCEPT !.pc = "put", !.seen = fetch[w].seen,
                                      !.answer = [content |-> shown, etag |-> tag]])
      BY <1>4 DEF Modified
    <2>2. [content |-> shown, etag |-> tag] \in Document
      BY <1>4 DEF Modified, Document
    <2>3. fetch[w].seen \subseteq Views
      BY <1>0 DEF Call
    <2>4. [NoCall EXCEPT !.pc = "put", !.seen = fetch[w].seen,
                         !.answer = [content |-> shown, etag |-> tag]] \in Call
      BY <2>2, <2>3, NoCallIsCall DEF Call
    <2> QED
      BY <1>4, <2>1, <2>4 DEF Modified
  <1>5. CASE NotFound(w)
    BY <1>5, ReturnsTyped DEF NotFound, Views
  <1>6. CASE Put(w)
    <2>1. fetch[w].answer \in Document
      BY <1>6 DEF Put, Storing
    <2>2. fetch[w].answer.content \in Views \union {Failed}
      BY <2>1 DEF Document, Views
    <2>3. fetch' \in [Clients -> Call]
      BY <1>6, <2>2, ReturnsTyped DEF Put
    <2> QED
      BY <1>6, <2>1, <2>3 DEF Put, Stored
  <1>7. CASE RateLimited(w)
    <2>1. CASE fetch[w].tries >= MaxRetries
      BY <1>7, <2>1, ReturnsTyped DEF RateLimited
    <2>2. CASE ~(fetch[w].tries >= MaxRetries)
      <3>1. [fetch[w] EXCEPT !.tries = @ + 1] \in Call
        BY <1>0, <2>2 DEF Call
      <3> QED
        BY <1>7, <2>2, <3>1 DEF RateLimited
    <2> QED
      BY <2>1, <2>2
  <1>8. CASE CallFails(w)
    BY <1>8, ReturnsTyped DEF CallFails
  <1>9. CASE CallEnds(w) /\ UNCHANGED <<shown, cache, changes>>
    BY <1>9, NoCallIsCall DEF CallEnds
  <1> QED
    BY <1>1, <1>2, <1>3, <1>4, <1>5, <1>6, <1>7, <1>8, <1>9 DEF CallStep, Answered

LEMMA CallStepStoring ==
  ASSUME CacheTypeOK, Storing, NEW w \in Workers, CallStep(w)
  PROVE  Storing'
  <1> SUFFICES ASSUME NEW x \in Workers, fetch'[x].pc = "put"
               PROVE  fetch'[x].answer \in Document
    BY DEF Storing
  <1>1. CASE x # w
    BY <1>1 DEF CacheTypeOK, Storing, CallStep, Call_fetch_repo, Answered, ReadCache, NotModified,
       Modified, NotFound, Put, RateLimited, CallFails, CallEnds, Returns, Becomes, Workers
  <1>2. CASE x = w
    <2>0. \A r : ~Returns(w, r)
      BY <1>2 DEF CacheTypeOK, Returns, Becomes, Workers, NoCall
    <2>1. Modified(w)
      <3>1. ~ReadCache(w) /\ ~Call_fetch_repo(w)
        BY <1>2, ZenonT(60) DEF CacheTypeOK, ReadCache, Call_fetch_repo, Becomes, Workers, NoCall, Call
      <3>2. ~NotModified(w) /\ ~NotFound(w) /\ ~Put(w) /\ ~CallFails(w)
        BY <2>0 DEF NotModified, NotFound, Put, CallFails
      <3>3. ~RateLimited(w) /\ ~CallEnds(w)
        BY <1>2, <2>0 DEF CacheTypeOK, RateLimited, CallEnds, Becomes, Workers, NoCall, Call
      <3> QED
        BY <3>1, <3>2, <3>3 DEF CallStep, Answered
    <2>2. shown \in Versions
      BY <2>1 DEF Modified
    <2>3. fetch'[w].answer.content = shown /\ fetch'[w].answer \in Document
      BY <2>1, <2>2 DEF Modified, Document, CacheTypeOK, NoCall, Becomes, Workers
    <2> QED
      BY <1>2, <2>3
  <1> QED
    BY <1>1, <1>2

\* The repository changes: calls only see it.
LEMMA ChangeTyped ==
  ASSUME CacheTypeOK, Storing, NEW v \in Views, Change(v)
  PROVE  CacheTypeOK' /\ Storing'
  <1>1. \A c \in Clients : [fetch[c] EXCEPT !.seen = @ \union {v}] \in Call
    BY DEF CacheTypeOK, Call
  <1>2. CacheTypeOK'
    BY <1>1 DEF Change, CacheTypeOK
  <1>3. Storing'
    BY DEF Change, Storing, CacheTypeOK, Workers
  <1> QED
    BY <1>2, <1>3

-----------------------------------------------------------------------------
\* Every step changes the cache, the repository and the calls in one of three
\* ways.
LEMMA CacheSteps ==
  ASSUME [Next]_vars
  PROVE  \/ UNCHANGED <<shown, cache, fetch, changes>>
         \/ \E v \in Views : Change(v)
         \/ \E w \in Workers : CallStep(w)
  <1> USE DEF vars, github, discord
  <1>1. CASE UNCHANGED vars
    BY <1>1
  <1>2. ASSUME NEW i \in Interactions,
               Invoke(i) \/ Dispatching(i) \/ EnqueueFails(i) \/ DispatchDies(i)
               \/ DeadlineMissed(i) \/ TokenExpires(i)
        PROVE  UNCHANGED <<shown, cache, fetch, changes>>
    BY <1>2 DEF Invoke, Dispatching, Reject, Enqueue, Acknowledge, EnqueueFails, DispatchDies,
       DeadlineMissed, TokenExpires
  <1>3. ASSUME NEW w \in Workers, NEW d \in queue, Start(w, d)
        PROVE  UNCHANGED <<shown, cache, fetch, changes>> \/ CallStep(w)
    BY <1>3 DEF Start, CallStep
  <1>4. ASSUME NEW w \in Workers, Working(w)
        PROVE  UNCHANGED <<shown, cache, fetch, changes>> \/ CallStep(w)
    BY <1>4 DEF Working, FetchStep, Fetched, Build, BuildRaises, Edit, EditRefused, CallStep
  <1>5. ASSUME NEW w \in Workers,
               \/ FetchFault(w) \/ BuildUnreachable(w)
               \/ EditUnconfirmed(w) \/ JobFails(w) \/ JobTimesOut(w)
        PROVE  UNCHANGED <<shown, cache, fetch, changes>> \/ CallStep(w)
    BY <1>5 DEF FetchFault, BuildUnreachable, EditUnconfirmed, JobFails, JobTimesOut, CallStep
  <1>6. ASSUME NEW v \in Views, RepositoryChanges(v) PROVE Change(v)
    BY <1>6 DEF RepositoryChanges
  <1> QED
    BY <1>1, <1>2, <1>3, <1>4, <1>5, <1>6 DEF Next, StartCommand

LEMMA CacheTyped ==
  ASSUME CacheTypeOK, Storing, [Next]_vars
  PROVE  CacheTypeOK' /\ Storing'
  <1>1. CASE UNCHANGED <<shown, cache, fetch, changes>>
    BY <1>1 DEF CacheTypeOK, Storing
  <1>2. CASE \E v \in Views : Change(v)
    BY <1>2, ChangeTyped
  <1>3. CASE \E w \in Workers : CallStep(w)
    BY <1>3, CallStepTyped, CallStepStoring
  <1> QED
    BY <1>1, <1>2, <1>3, CacheSteps

-----------------------------------------------------------------------------
LEMMA JobTyped ==
  ASSUME Typed, NEW w \in Workers, NEW j \in Job, JobBecomes(w, j),
         j.pc = "idle" \/ j.cmd \in Interactions
  PROVE  job' \in [Workers -> Job] /\ Busy'
  BY DEF JobBecomes, Typed, TypeOK, Busy

LEMMA RaisesTyped ==
  ASSUME Typed, NEW w \in Workers, job[w].pc # "idle", Raises(w)
  PROVE  /\ job' \in [Workers -> Job] /\ Busy'
         /\ queue' \subseteq Delivery
         /\ exhausted' \subseteq Interactions
  <1>1. job[w] \in Job /\ job[w].cmd \in Interactions
    BY DEF Typed, TypeOK, Busy
  <1>2. job' \in [Workers -> Job] /\ Busy'
    <2>1. NoJob.pc = "idle"
      BY DEF NoJob
    <2> QED
      BY <2>1, NoJobIsJob, JobTyped DEF Raises
  <1>3. queue' \subseteq Delivery
    <2>1. CASE job[w].attempt \in 1 .. MaxAttempts - 1
      <3>1. [cmd |-> job[w].cmd, attempt |-> job[w].attempt + 1] \in Delivery
        BY <1>1, <2>1 DEF Delivery
      <3> QED
        BY <2>1, <3>1 DEF Raises, Typed, TypeOK
    <2>2. CASE ~(job[w].attempt \in 1 .. MaxAttempts - 1)
      BY <2>2 DEF Raises, Typed, TypeOK
    <2> QED
      BY <2>1, <2>2
  <1>4. exhausted' \subseteq Interactions
    BY <1>1 DEF Raises, Typed, TypeOK
  <1> QED
    BY <1>2, <1>3, <1>4

LEMMA TypedNext == Typed /\ [Next]_vars => Typed'
  <1> SUFFICES ASSUME Typed, [Next]_vars PROVE Typed'
    OBVIOUS
  <1>c. CacheTypeOK' /\ Storing'
    BY CacheTyped DEF Typed, TypeOK
  <1> USE <1>c DEF vars, github, discord
  <1>1. CASE UNCHANGED vars
    BY <1>1 DEF Typed, TypeOK, Busy
  <1>2. ASSUME NEW i \in Interactions,
               Invoke(i) \/ Dispatching(i) \/ EnqueueFails(i) \/ DispatchDies(i)
               \/ DeadlineMissed(i) \/ TokenExpires(i)
        PROVE  Typed'
    <2> USE DEF Typed, TypeOK, Busy
    <2>1. CASE Invoke(i)
      BY <2>1 DEF Invoke, CacheTypeOK
    <2>2. CASE Reject(i)
      BY <2>2 DEF Reject, DispatchBecomes
    <2>3. CASE Enqueue(i) \/ EnqueueFails(i)
      <3>1. [cmd |-> i, attempt |-> 1] \in Delivery
        BY DEF Delivery
      <3> QED
        BY <2>3, <3>1 DEF Enqueue, EnqueueFails, DispatchBecomes, Fault
    <2>4. CASE Acknowledge(i) \/ DispatchDies(i)
      BY <2>4 DEF Acknowledge, DispatchDies, DispatchBecomes, Fault
    <2>5. CASE DeadlineMissed(i) \/ TokenExpires(i)
      BY <2>5 DEF DeadlineMissed, TokenExpires
    <2> QED
      BY <1>2, <2>1, <2>2, <2>3, <2>4, <2>5 DEF Dispatching
  <1>3. ASSUME NEW v \in Views, RepositoryChanges(v) PROVE Typed'
    BY <1>3 DEF RepositoryChanges, Typed, TypeOK, Busy
  <1>4. ASSUME NEW w \in Workers, NEW d \in queue, Start(w, d) PROVE Typed'
    <2>1. PICK pc \in {"fetch", "build"} :
            JobBecomes(w, [NoJob EXCEPT !.pc = pc, !.cmd = d.cmd, !.attempt = d.attempt])
      BY <1>4 DEF Start
    <2>2. d.cmd \in Interactions /\ d.attempt \in 0 .. MaxAttempts
      BY DEF Typed, TypeOK, Delivery
    <2> DEFINE j == [NoJob EXCEPT !.pc = pc, !.cmd = d.cmd, !.attempt = d.attempt]
    <2>3. j \in Job /\ j.cmd = d.cmd
      BY <2>2, NoJobIsJob DEF Job
    <2>4. job' \in [Workers -> Job] /\ Busy'
      <3>1. JobBecomes(w, j)
        BY <2>1
      <3> HIDE DEF j
      <3> QED
        BY <2>2, <2>3, <3>1, JobTyped
    <2> QED
      BY <1>4, <2>4 DEF Start, Typed, TypeOK
  <1>5. ASSUME NEW w \in Workers, FetchStep(w) \/ FetchFault(w) PROVE Typed'
    BY <1>5 DEF FetchStep, FetchFault, Fault, Typed, TypeOK, Busy
  <1>6. ASSUME NEW w \in Workers, Fetched(w) PROVE Typed'
    <2>1. CASE fetch[w].result = Failed
      BY <1>6, <2>1, RaisesTyped DEF Fetched, Typed, TypeOK
    <2>2. CASE fetch[w].result # Failed
      <3>1. PICK pc \in {"build", "edit"}, a \in Views \union {None} :
              JobBecomes(w, [job[w] EXCEPT !.pc = pc, !.answer = a])
        BY <1>6, <2>2 DEF Fetched, Typed, TypeOK, CacheTypeOK, Call, Views, Workers
      <3> DEFINE j == [job[w] EXCEPT !.pc = pc, !.answer = a]
      <3>2. job[w] \in Job /\ job[w].cmd \in Interactions
        BY <1>6 DEF Fetched, Typed, TypeOK, Busy
      <3>3. j \in Job /\ j.cmd = job[w].cmd
        BY <3>2 DEF Job, Answers
      <3>4. job' \in [Workers -> Job] /\ Busy'
        <4>1. JobBecomes(w, j)
          BY <3>1
        <4> HIDE DEF j
        <4> QED
          BY <3>2, <3>3, <4>1, JobTyped
      <3> QED
        BY <1>6, <2>2, <3>4 DEF Fetched, Typed, TypeOK
    <2> QED
      BY <2>1, <2>2
  <1>7. ASSUME NEW w \in Workers, Build(w) PROVE Typed'
    <2> DEFINE j == [job[w] EXCEPT !.pc = "edit", !.answer = IF @ = None THEN shown ELSE @]
    <2>1. job[w] \in Job /\ job[w].cmd \in Interactions /\ shown \in Views
      BY <1>7 DEF Build, Typed, TypeOK, CacheTypeOK, Busy
    <2>2. j \in Job /\ j.cmd = job[w].cmd
      BY <2>1 DEF Job, Answers
    <2>3. job' \in [Workers -> Job] /\ Busy'
      <3>1. JobBecomes(w, j)
        BY <1>7 DEF Build
      <3> HIDE DEF j
      <3> QED
        BY <2>1, <2>2, <3>1, JobTyped
    <2> QED
      BY <1>7, <2>3 DEF Build, Typed, TypeOK
  <1>11. ASSUME NEW w \in Workers, BuildUnreachable(w) PROVE Typed'
    <2> DEFINE j == [job[w] EXCEPT !.pc = "edit", !.answer = Unreachable]
    <2>1. job[w] \in Job /\ job[w].cmd \in Interactions
      BY <1>11 DEF BuildUnreachable, Fault, Typed, TypeOK, CacheTypeOK, Busy
    <2>2. j \in Job /\ j.cmd = job[w].cmd
      BY <2>1 DEF Job, Answers
    <2>3. job' \in [Workers -> Job] /\ Busy'
      <3>1. JobBecomes(w, j)
        BY <1>11 DEF BuildUnreachable
      <3> HIDE DEF j
      <3> QED
        BY <2>1, <2>2, <3>1, JobTyped
    <2> QED
      BY <1>11, <2>3 DEF BuildUnreachable, Fault, Typed, TypeOK
  <1>8. ASSUME NEW w \in Workers, BuildRaises(w) \/ EditRefused(w) \/ JobFails(w) PROVE Typed'
    BY <1>8, RaisesTyped
    DEF BuildRaises, EditRefused, Refused, JobFails, Fault, Typed, TypeOK
  <1>9. ASSUME NEW w \in Workers, Edit(w) \/ EditUnconfirmed(w) PROVE Typed'
    <2>1. job[w].answer \in Answers /\ job[w].pc = "edit"
      BY <1>9 DEF Edit, EditUnconfirmed, Typed, TypeOK, Job
    <2>2. message' \in [Interactions -> Answers \union {Hint}]
      BY <1>9, <2>1 DEF Edit, EditUnconfirmed, Typed, TypeOK
    <2>3. CASE Edit(w)
      <3>1. NoJob.pc = "idle"
        BY DEF NoJob
      <3>2. job' \in [Workers -> Job] /\ Busy'
        BY <2>3, <3>1, NoJobIsJob, JobTyped DEF Edit
      <3> QED
        BY <2>2, <2>3, <3>2 DEF Edit, Typed, TypeOK
    <2>4. CASE EditUnconfirmed(w)
      BY <2>1, <2>2, <2>4, RaisesTyped DEF EditUnconfirmed, Fault, Typed, TypeOK
    <2> QED
      BY <1>9, <2>3, <2>4
  <1>10. ASSUME NEW w \in Workers, JobTimesOut(w) PROVE Typed'
    <2> DEFINE j == [job[w] EXCEPT !.attempt = 0]
    <2>1. job[w] \in Job /\ job[w].cmd \in Interactions
      BY <1>10 DEF JobTimesOut, Typed, TypeOK, Busy
    <2>2. j \in Job /\ j.cmd = job[w].cmd
      BY <2>1 DEF Job
    <2>3. job' \in [Workers -> Job] /\ Busy'
      <3>1. JobBecomes(w, j)
        BY <1>10 DEF JobTimesOut
      <3> HIDE DEF j
      <3> QED
        BY <2>1, <2>2, <3>1, JobTyped
    <2>4. [cmd |-> job[w].cmd, attempt |-> job[w].attempt + 1] \in Delivery
      BY <1>10, <2>1 DEF JobTimesOut, Delivery
    <2> QED
      BY <1>10, <2>3, <2>4 DEF JobTimesOut, Fault, Typed, TypeOK
  <1> QED
    BY <1>1, <1>2, <1>3, <1>4, <1>5, <1>6, <1>7, <1>8, <1>9, <1>10, <1>11
    DEF Next, StartCommand, Working

\* Type correctness: documents, interactions, deliveries and handlers keep their
\* shape, and no task is delivered more often than the queue allows.
THEOREM TypeCorrect == Spec => []TypeOK
  <1>1. Typed /\ [Next]_vars => Typed'
    BY TypedNext
  <1>2. Typed => TypeOK
    BY DEF Typed
  <1> QED
    BY TypedInit, <1>1, <1>2, PTL DEF Spec

-----------------------------------------------------------------------------
(***************************************************************************)
(* What a call returns.  A 304 says that the ETag of the copy is what      *)
(* GitHub shows now; the copy is then current because no document, cached  *)
(* or copied, ever pairs the ETag of one version with another's content.   *)
(***************************************************************************)
CallSound(f) ==
  /\ Coherent(f.cached)
  /\ f.pc \in {"read", "send"} => shown \in f.seen
  /\ f.pc = "put" => Coherent(f.answer) /\ f.answer.content \in f.seen
  /\ f.pc = "done" /\ f.result # Failed => f.result \in f.seen

CacheSound == Coherent(cache) /\ \A w \in Workers : CallSound(fetch[w])

LEMMA NoCallSound == CallSound(NoCall)
  BY DEF CallSound, NoCall, Coherent

LEMMA CallStepSound ==
  ASSUME CacheTypeOK, Storing, CacheSound, NEW w \in Workers, CallStep(w)
  PROVE  CacheSound'
  <1> USE DEF CacheTypeOK, Workers
  <1>0. fetch[w] \in Call /\ CallSound(fetch[w])
    BY DEF CacheSound
  <1> SUFFICES Coherent(cache') /\ shown' = shown /\ \E f : Becomes(w, f) /\ CallSound(f)
    BY DEF CacheSound, CallSound, Becomes
  <1>r. ASSUME NEW r, Returns(w, r), r # Failed => r \in fetch[w].seen
        PROVE  \E f : Becomes(w, f) /\ CallSound(f)
    <2>1. CallSound([NoCall EXCEPT !.pc = "done", !.result = r, !.seen = fetch[w].seen])
      BY <1>r DEF CallSound, NoCall, Coherent
    <2> QED
      BY <1>r, <2>1 DEF Returns
  <1>1. CASE Call_fetch_repo(w)
    <2>1. CallSound([NoCall EXCEPT !.pc = "read", !.seen = {shown}])
      BY DEF CallSound, NoCall, Coherent
    <2> QED
      BY <1>1, <2>1 DEF Call_fetch_repo, CacheSound
  <1>2. CASE ReadCache(w)
    <2>1. CallSound([fetch[w] EXCEPT !.pc = "send", !.cached = cache])
      BY <1>0, <1>2 DEF ReadCache, CallSound, CacheSound, Call
    <2> QED
      BY <1>2, <2>1 DEF ReadCache, CacheSound
  <1>3. CASE NotModified(w)
    <2>1. fetch[w].cached.content = shown
      BY <1>0, <1>3 DEF NotModified, Matches, CallSound, Coherent
    <2> QED
      BY <1>0, <1>3, <1>r, <2>1 DEF NotModified, CallSound, CacheSound
  <1>4. CASE Modified(w)
    <2>1. PICK tag \in {shown, None} :
            Becomes(w, [NoCall EXCEPT !.pc = "put", !.seen = fetch[w].seen,
                                      !.answer = [content |-> shown, etag |-> tag]])
      BY <1>4 DEF Modified
    <2>2. CallSound([NoCall EXCEPT !.pc = "put", !.seen = fetch[w].seen,
                                   !.answer = [content |-> shown, etag |-> tag]])
      BY <1>0, <1>4 DEF Modified, CallSound, NoCall, Coherent
    <2> QED
      BY <1>4, <2>1, <2>2 DEF Modified, CacheSound
  <1>5. CASE NotFound(w)
    BY <1>0, <1>5, <1>r DEF NotFound, CallSound, CacheSound
  <1>6. CASE Put(w)
    BY <1>0, <1>6, <1>r DEF Put, Stored, CallSound, CacheSound
  <1>7. CASE RateLimited(w)
    <2>1. CASE fetch[w].tries >= MaxRetries
      BY <1>7, <1>r, <2>1 DEF RateLimited, CacheSound
    <2>2. CASE ~(fetch[w].tries >= MaxRetries)
      BY <1>0, <1>7, <2>2 DEF RateLimited, CallSound, CacheSound, Call
    <2> QED
      BY <2>1, <2>2
  <1>8. CASE CallFails(w)
    BY <1>8, <1>r DEF CallFails, CacheSound
  <1>9. CASE CallEnds(w) /\ UNCHANGED <<shown, cache, changes>>
    BY <1>9, NoCallSound DEF CallEnds, CacheSound
  <1> QED
    BY <1>1, <1>2, <1>3, <1>4, <1>5, <1>6, <1>7, <1>8, <1>9 DEF CallStep, Answered

LEMMA ChangeSound ==
  ASSUME CacheTypeOK, CacheSound, NEW v \in Views, Change(v)
  PROVE  CacheSound'
  <1>1. Coherent(cache')
    BY DEF Change, CacheSound
  <1>2. ASSUME NEW w \in Workers PROVE CallSound(fetch[w])'
    <2>1. fetch[w] \in Call /\ CallSound(fetch[w])
      BY DEF CacheSound, CacheTypeOK, Workers
    <2>2. fetch'[w] = IF fetch[w].pc \in {"read", "send"}
                      THEN [fetch[w] EXCEPT !.seen = @ \union {v}] ELSE fetch[w]
      BY DEF Change, Workers
    <2>3. shown' = v
      BY DEF Change
    <2> QED
      BY <2>1, <2>2, <2>3 DEF CallSound, Call
  <1> QED
    BY <1>1, <1>2 DEF CacheSound

LEMMA CacheSoundNext ==
  ASSUME Typed, CacheSound, [Next]_vars
  PROVE  CacheSound'
  <1>1. CASE UNCHANGED <<shown, cache, fetch, changes>>
    BY <1>1 DEF CacheSound, CallSound
  <1>2. CASE \E v \in Views : Change(v)
    BY <1>2, ChangeSound DEF Typed, TypeOK
  <1>3. CASE \E w \in Workers : CallStep(w)
    BY <1>3, CallStepSound DEF Typed, TypeOK
  <1> QED
    BY <1>1, <1>2, <1>3, CacheSteps

LEMMA CacheSoundInit == Init => CacheSound
  BY NoCallSound DEF Init, CacheInit, CacheSound, Workers

\* Whatever concurrent commands do to the cached document, fetch_repo returns
\* what GitHub showed at some moment of the call.
THEOREM FetchSound == Spec => []FetchCurrent
  <1>1. Init => Typed /\ CacheSound
    BY TypedInit, CacheSoundInit
  <1>2. (Typed /\ CacheSound) /\ [Next]_vars => (Typed /\ CacheSound)'
    BY TypedNext, CacheSoundNext
  <1>3. Typed /\ CacheSound => FetchCurrent
    BY DEF CacheSound, CallSound, FetchCurrent, Workers
  <1> QED
    BY <1>1, <1>2, <1>3, PTL DEF Spec

-----------------------------------------------------------------------------
(***************************************************************************)
(* What users are shown.  A handler works for a command that was sent      *)
(* before it started, so all that its call sees was shown since then.      *)
(***************************************************************************)
JobSound(w) ==
  job[w].pc # "idle" =>
    /\ phase[job[w].cmd] # "unsent"
    /\ job[w].pc = "fetch" => fetch[w].seen \subseteq asked[job[w].cmd]
    /\ \/ job[w].answer \in asked[job[w].cmd] \union {None}
       \/ job[w].pc = "edit" /\ kind[job[w].cmd] = "publication" /\ job[w].answer = Unreachable
    /\ job[w].pc = "edit" => job[w].answer # None

Sent ==
  /\ \A i \in Interactions : phase[i] # "unsent" => shown \in asked[i]
  /\ \A i \in Interactions : dispatch[i] # "none" => phase[i] # "unsent"
  /\ \A d \in queue : phase[d.cmd] # "unsent"

Told ==
  /\ AnswersTrue
  /\ \A i \in Interactions : phase[i] = "unsent" => message[i] = None

Sound == Sent /\ Told /\ \A w \in Workers : JobSound(w)

LEMMA SoundInit == Init => Sound
  BY DEF Init, Sound, Sent, Told, AnswersTrue, JobSound, NoJob

\* A handler that ends leaves everything else as it was.
LEMMA RaisesSound ==
  ASSUME Typed, Sound, NEW w \in Workers, job[w].pc # "idle", Raises(w),
         UNCHANGED <<shown, kind, phase, asked, dispatch>>,
         \A x \in Workers \ {w} : fetch'[x] = fetch[x]
  PROVE  Sent' /\ \A x \in Workers : JobSound(x)'
  <1>1. Sent'
    BY DEF Raises, Sound, Sent, JobSound
  <1>2. ASSUME NEW x \in Workers PROVE JobSound(x)'
    <2>1. CASE x = w
      BY <2>1 DEF Raises, JobBecomes, JobSound, NoJob, Typed, TypeOK
    <2>2. CASE x # w
      BY <2>2 DEF Raises, JobBecomes, JobSound, Sound, Typed, TypeOK
    <2> QED
      BY <2>1, <2>2
  <1> QED
    BY <1>1, <1>2

LEMMA SeenKept ==
  ASSUME CacheTypeOK, NEW w \in Workers, Answered(w) \/ RateLimited(w) \/ CallFails(w)
  PROVE  /\ shown' = shown
         /\ \A x \in Workers : fetch'[x].seen = fetch[x].seen
  <1> USE DEF CacheTypeOK, Becomes, Workers
  <1>0. fetch[w] \in Call
    OBVIOUS
  <1>1. shown' = shown
    BY DEF Answered, ReadCache, NotModified, Modified, NotFound, Put, RateLimited, CallFails
  <1>2. PICK f : Becomes(w, f) /\ f.seen = fetch[w].seen
    <2>r. ASSUME NEW r, Returns(w, r) PROVE \E f : Becomes(w, f) /\ f.seen = fetch[w].seen
      <3>1. [NoCall EXCEPT !.pc = "done", !.result = r, !.seen = fetch[w].seen].seen = fetch[w].seen
        BY DEF NoCall
      <3> QED
        BY <2>r, <3>1 DEF Returns
    <2>1. CASE ReadCache(w)
      <3>1. [fetch[w] EXCEPT !.pc = "send", !.cached = cache].seen = fetch[w].seen
        BY <1>0 DEF Call
      <3> QED
        BY <2>1, <3>1 DEF ReadCache
    <2>2. CASE Modified(w)
      <3>1. PICK tag \in {shown, None} :
              Becomes(w, [NoCall EXCEPT !.pc = "put", !.seen = fetch[w].seen,
                                        !.answer = [content |-> shown, etag |-> tag]])
        BY <2>2 DEF Modified
      <3>2. [NoCall EXCEPT !.pc = "put", !.seen = fetch[w].seen,
                           !.answer = [content |-> shown, etag |-> tag]].seen = fetch[w].seen
        BY DEF NoCall
      <3> QED
        BY <3>1, <3>2
    <2>3. CASE NotModified(w) \/ NotFound(w) \/ Put(w) \/ CallFails(w)
      BY <2>r, <2>3 DEF NotModified, NotFound, Put, CallFails
    <2>4. CASE RateLimited(w)
      <3>1. CASE fetch[w].tries >= MaxRetries
        BY <2>r, <2>4, <3>1 DEF RateLimited
      <3>2. CASE ~(fetch[w].tries >= MaxRetries)
        <4>1. [fetch[w] EXCEPT !.tries = @ + 1].seen = fetch[w].seen
          BY <1>0 DEF Call
        <4> QED
          BY <2>4, <3>2, <4>1 DEF RateLimited
      <3> QED
        BY <3>1, <3>2
    <2> QED
      BY <2>1, <2>2, <2>3, <2>4 DEF Answered
  <1> QED
    BY <1>1, <1>2

LEMMA SoundNext ==
  ASSUME Typed, CacheSound, Sound, [Next]_vars
  PROVE  Sound'
  <1> USE DEF vars, github, discord
  <1>t. /\ kind \in [Interactions -> Kinds]
        /\ phase \in [Interactions -> {"unsent", "waiting", "deferred", "over"}]
        /\ message \in [Interactions -> Answers \union {Hint}]
        /\ dispatch \in [Interactions -> {"none", "enqueue", "respond", "done"}]
        /\ asked \in [Interactions -> SUBSET Views]
        /\ job \in [Workers -> Job]
        /\ \A d \in queue : d.cmd \in Interactions
        /\ \A w \in Workers : job[w].pc # "idle" => job[w].cmd \in Interactions
    BY DEF Typed, TypeOK, Busy, Delivery
  <1>1. CASE UNCHANGED vars
    BY <1>1 DEF Sound, Sent, Told, AnswersTrue, JobSound
  <1>2. ASSUME NEW i \in Interactions,
               Invoke(i) \/ Dispatching(i) \/ EnqueueFails(i) \/ DispatchDies(i)
               \/ DeadlineMissed(i) \/ TokenExpires(i)
        PROVE  Sound'
    <2>1. CASE Invoke(i)
      BY <1>t, <2>1 DEF Invoke, Sound, Sent, Told, AnswersTrue, JobSound
    <2>2. CASE Reject(i)
      BY <1>t, <2>2 DEF Reject, DispatchBecomes, Sound, Sent, Told, AnswersTrue, JobSound
    <2>3. CASE Enqueue(i) \/ EnqueueFails(i)
      <3>1. \A d \in queue' : d \in queue \/ d.cmd = i
        BY <2>3 DEF Enqueue, EnqueueFails
      <3>2. Sent'
        BY <1>t, <2>3, <3>1 DEF Enqueue, EnqueueFails, DispatchBecomes, Sound, Sent
      <3> QED
        BY <2>3, <3>2 DEF Enqueue, EnqueueFails, Sound, Told, AnswersTrue, JobSound
    <2>4. CASE Acknowledge(i) \/ DispatchDies(i)
      BY <1>t, <2>4 DEF Acknowledge, DispatchDies, DispatchBecomes, Sound, Sent, Told, AnswersTrue, JobSound
    <2>5. CASE DeadlineMissed(i) \/ TokenExpires(i)
      BY <1>t, <2>5 DEF DeadlineMissed, TokenExpires, Sound, Sent, Told, AnswersTrue, JobSound
    <2> QED
      BY <1>2, <2>1, <2>2, <2>3, <2>4, <2>5 DEF Dispatching
  <1>3. ASSUME NEW v \in Views, RepositoryChanges(v) PROVE Sound'
    <2>1. /\ shown' = v
          /\ \A w \in Workers : fetch'[w].seen \subseteq fetch[w].seen \union {v}
      <3>1. \A w \in Workers : fetch[w] \in Call
        BY DEF Typed, TypeOK, CacheTypeOK, Workers
      <3> QED
        BY <1>3, <3>1 DEF RepositoryChanges, Change, Workers, Call
    <2> QED
      BY <1>t, <1>3, <2>1 DEF RepositoryChanges, Sound, Sent, Told, AnswersTrue, JobSound
  <1>4. ASSUME NEW w \in Workers, NEW d \in queue, Start(w, d) PROVE Sound'
    <2>1. /\ job'[w].cmd = d.cmd /\ job'[w].answer = None /\ job'[w].pc \in {"fetch", "build"}
          /\ job'[w].pc = "fetch" => fetch'[w].seen = {shown}
      <3>1. CASE kind[d.cmd] = "repo"
        <4>1. job'[w] = [NoJob EXCEPT !.pc = "fetch", !.cmd = d.cmd, !.attempt = d.attempt]
          BY <1>4, <1>t, <3>1 DEF Start, JobBecomes
        <4>2. fetch \in [Workers -> Call]
          BY DEF Typed, TypeOK, CacheTypeOK, Workers
        <4>3. fetch'[w] = [NoCall EXCEPT !.pc = "read", !.seen = {shown}]
          BY <1>4, <4>2, <3>1 DEF Start, Call_fetch_repo, Becomes
        <4> QED
          BY <4>1, <4>3 DEF NoJob, NoCall
      <3>2. CASE kind[d.cmd] # "repo"
        <4>1. job'[w] = [NoJob EXCEPT !.pc = "build", !.cmd = d.cmd, !.attempt = d.attempt]
          BY <1>4, <1>t, <3>2 DEF Start, JobBecomes
        <4> QED
          BY <4>1 DEF NoJob
      <3> QED
        BY <3>1, <3>2
    <2>2. JobSound(w)'
      BY <1>4, <2>1 DEF Start, JobSound, Sound, Sent, Delivery, Typed, TypeOK
    <2>3. ASSUME NEW x \in Workers, x # w PROVE JobSound(x)'
      <3>1. job'[x] = job[x] /\ fetch'[x] = fetch[x]
        BY <1>4, <1>t, <2>3 DEF Start, JobBecomes, Call_fetch_repo, Becomes, Typed, TypeOK,
           CacheTypeOK, Workers
      <3> QED
        BY <1>4, <3>1 DEF Start, JobSound, Sound
    <2>4. Sent' /\ Told'
      BY <1>4 DEF Start, Call_fetch_repo, Sound, Sent, Told, AnswersTrue
    <2> QED
      BY <2>2, <2>3, <2>4 DEF Sound
  <1>5. ASSUME NEW w \in Workers, FetchStep(w) \/ FetchFault(w) PROVE Sound'
    <2>1. shown' = shown /\ \A x \in Workers : fetch'[x].seen = fetch[x].seen
      BY <1>5, SeenKept DEF FetchStep, FetchFault, Typed, TypeOK
    <2> QED
      BY <1>5, <2>1 DEF FetchStep, FetchFault, Sound, Sent, Told, AnswersTrue, JobSound
  <1>6. ASSUME NEW w \in Workers, Fetched(w) PROVE Sound'
    <2>0. \A x \in Workers \ {w} : fetch'[x] = fetch[x]
      BY <1>6 DEF Fetched, CallEnds, Becomes, Typed, TypeOK, CacheTypeOK, Workers
    <2>1. CASE fetch[w].result = Failed
      <3>1. Sent' /\ \A x \in Workers : JobSound(x)'
        BY <1>6, <2>0, <2>1, RaisesSound DEF Fetched
      <3> QED
        BY <1>6, <3>1 DEF Fetched, Sound, Told, AnswersTrue
    <2>2. CASE fetch[w].result # Failed
      <3>1. job[w] \in Job /\ job[w].pc = "fetch" /\ fetch[w].result \in asked[job[w].cmd]
        BY <1>6, <1>t, <2>2 DEF Fetched, Sound, JobSound, CacheSound, CallSound
      <3>2. job'[w].cmd = job[w].cmd /\ job'[w].answer = fetch[w].result
        /\ job'[w].pc \in {"build", "edit"} /\ (job'[w].pc = "edit" => fetch[w].result = Gone)
        <4>1. CASE fetch[w].result = Gone
          <5>1. job'[w] = [job[w] EXCEPT !.pc = "edit", !.answer = Gone]
            BY <1>6, <1>t, <4>1, <2>2 DEF Fetched, JobBecomes
          <5> QED
            BY <3>1, <4>1, <5>1 DEF Job
        <4>2. CASE fetch[w].result # Gone
          <5>1. job'[w] = [job[w] EXCEPT !.pc = "build", !.answer = fetch[w].result]
            BY <1>6, <1>t, <4>2, <2>2 DEF Fetched, JobBecomes
          <5> QED
            BY <3>1, <4>2, <5>1 DEF Job
        <4> QED
          BY <4>1, <4>2
      <3>3. JobSound(w)'
        BY <1>6, <3>1, <3>2 DEF Fetched, Sound, JobSound
      <3>4. \A x \in Workers \ {w} : job'[x] = job[x]
        BY <1>6, <1>t, <2>2 DEF Fetched, JobBecomes
      <3>5. \A x \in Workers : JobSound(x)'
        BY <1>6, <2>0, <3>3, <3>4 DEF Fetched, Sound, JobSound
      <3> QED
        BY <1>6, <2>2, <3>5 DEF Fetched, Sound, Sent, Told, AnswersTrue
    <2> QED
      BY <2>1, <2>2
  <1>7. ASSUME NEW w \in Workers, Build(w) PROVE Sound'
    <2>1. job[w] \in Job /\ job[w].cmd \in Interactions /\ shown \in asked[job[w].cmd]
          /\ job[w].answer \in asked[job[w].cmd] \union {None}
      BY <1>7, <1>t DEF Build, Sound, Sent, JobSound
    <2>2. None \notin asked[job[w].cmd]
      BY <1>t, <2>1 DEF Views
    <2>3. job'[w].cmd = job[w].cmd /\ job'[w].answer \in asked[job[w].cmd]
          /\ job'[w].pc = "edit" /\ \A x \in Workers \ {w} : job'[x] = job[x]
      BY <1>7, <1>t, <2>1 DEF Build, JobBecomes, Job
    <2>4. \A x \in Workers : JobSound(x)'
      BY <1>7, <2>2, <2>3 DEF Build, Sound, JobSound
    <2> QED
      BY <1>7, <2>4 DEF Build, Sound, Sent, Told, AnswersTrue
  <1>11. ASSUME NEW w \in Workers, BuildUnreachable(w) PROVE Sound'
    <2>1. job[w] \in Job /\ job[w].cmd \in Interactions /\ kind[job[w].cmd] = "publication"
      BY <1>11, <1>t DEF BuildUnreachable
    <2>2. job'[w].cmd = job[w].cmd /\ job'[w].answer = Unreachable
          /\ job'[w].pc = "edit" /\ \A x \in Workers \ {w} : job'[x] = job[x]
      BY <1>11, <1>t, <2>1 DEF BuildUnreachable, JobBecomes, Job
    <2>3. Unreachable # None
      BY FollowupsAssumption
    <2>4. \A x \in Workers : JobSound(x)'
      BY <1>11, <2>1, <2>2, <2>3 DEF BuildUnreachable, Sound, JobSound
    <2> QED
      BY <1>11, <2>4 DEF BuildUnreachable, Sound, Sent, Told, AnswersTrue
  <1>8. ASSUME NEW w \in Workers, BuildRaises(w) \/ EditRefused(w) \/ JobFails(w) PROVE Sound'
    <2>1. \A x \in Workers \ {w} : fetch'[x] = fetch[x]
      BY <1>8 DEF BuildRaises, EditRefused, JobFails, CallEnds, Becomes, Typed, TypeOK,
         CacheTypeOK, Workers
    <2>2. Sent' /\ \A x \in Workers : JobSound(x)'
      BY <1>8, <2>1, RaisesSound DEF BuildRaises, EditRefused, JobFails
    <2> QED
      BY <1>8, <2>2 DEF BuildRaises, EditRefused, JobFails, Sound, Told, AnswersTrue
  <1>9. ASSUME NEW w \in Workers, Edit(w) \/ EditUnconfirmed(w) PROVE Sound'
    <2>1. Told'
      BY <1>9, <1>t DEF Edit, EditUnconfirmed, Sound, Told, AnswersTrue, JobSound
    <2>2. CASE Edit(w)
      <3>1. \A x \in Workers : JobSound(x)'
        BY <1>t, <2>2 DEF Edit, JobBecomes, NoJob, Sound, JobSound
      <3> QED
        BY <2>1, <2>2, <3>1 DEF Edit, Sound, Sent
    <2>3. CASE EditUnconfirmed(w)
      BY <2>1, <2>3, RaisesSound DEF EditUnconfirmed, Sound
    <2> QED
      BY <1>9, <2>2, <2>3
  <1>10. ASSUME NEW w \in Workers, JobTimesOut(w) PROVE Sound'
    <2>1. \A x \in Workers : job'[x].cmd = job[x].cmd /\ job'[x].answer = job[x].answer
                             /\ job'[x].pc = job[x].pc
      BY <1>10, <1>t DEF JobTimesOut, JobBecomes, Job
    <2>2. \A d \in queue' : d \in queue \/ d.cmd = job[w].cmd
      BY <1>10 DEF JobTimesOut
    <2>3. Sent'
      BY <1>10, <2>2 DEF JobTimesOut, Sound, Sent, JobSound
    <2> QED
      BY <1>10, <2>1, <2>3 DEF JobTimesOut, Sound, Told, AnswersTrue, JobSound
  <1> QED
    BY <1>1, <1>2, <1>3, <1>4, <1>5, <1>6, <1>7, <1>8, <1>9, <1>10, <1>11
    DEF Next, StartCommand, Working

\* What a user is shown was true at some moment after the command was sent, for
\* any number of commands, slow and repeated tasks and clients of the cache.
THEOREM AnswersSound == Spec => []AnswersTrue
  <1>1. Init => Typed /\ CacheSound /\ Sound
    BY TypedInit, CacheSoundInit, SoundInit
  <1>2. (Typed /\ CacheSound /\ Sound) /\ [Next]_vars => (Typed /\ CacheSound /\ Sound)'
    BY TypedNext, CacheSoundNext, SoundNext
  <1>3. Typed /\ CacheSound /\ Sound => AnswersTrue
    BY DEF Sound, Told
  <1> QED
    BY <1>1, <1>2, <1>3, PTL DEF Spec

-----------------------------------------------------------------------------
(***************************************************************************)
(* The task behind a deferred answer.  That Discord shows it is thinking   *)
(* and nothing pursues the answer would be too late to find out: the       *)
(* invariant starts when dispatch has enqueued the task.                   *)
(***************************************************************************)
Backed ==
  \A i \in Interactions :
    (dispatch[i] = "respond" \/ phase[i] = "deferred") /\ message[i] = None => Pursued(i)

LEMMA BackedInit == Init => Backed
  BY DEF Init, Backed

\* A delivery that fails is delivered again, unless it was the last.
LEMMA RaisesPursues ==
  ASSUME Typed, NEW w \in Workers, job[w].pc # "idle", Raises(w),
         NEW i \in Interactions, Pursued(i)
  PROVE  Pursued(i)'
  <1>t. job \in [Workers -> Job] /\ job[w].attempt \in 0 .. MaxAttempts
    BY DEF Typed, TypeOK, Job
  <1>1. CASE \E d \in queue : d.cmd = i
    BY <1>1 DEF Raises, Pursued
  <1>2. CASE \E x \in Workers : job[x].pc # "idle" /\ job[x].cmd = i /\ job[x].attempt > 0
    <2>1. PICK x \in Workers : job[x].pc # "idle" /\ job[x].cmd = i /\ job[x].attempt > 0
      BY <1>2
    <2>2. CASE x = w
      <3>1. CASE job[w].attempt = MaxAttempts
        BY <1>t, <2>1, <2>2, <3>1 DEF Raises, Pursued
      <3>2. CASE job[w].attempt # MaxAttempts
        <4>1. [cmd |-> i, attempt |-> job[w].attempt + 1] \in queue'
          BY <1>t, <2>1, <2>2, <3>2 DEF Raises
        <4> QED
          BY <4>1 DEF Pursued
      <3> QED
        BY <3>1, <3>2
    <2>3. CASE x # w
      <3>1. job'[x] = job[x]
        BY <1>t, <2>3 DEF Raises, JobBecomes
      <3> QED
        BY <2>1, <3>1 DEF Pursued
    <2> QED
      BY <2>2, <2>3
  <1>3. CASE i \in exhausted
    BY <1>3 DEF Raises, Pursued
  <1> QED
    BY <1>1, <1>2, <1>3 DEF Pursued

\* A handler that goes on serves the same attempt of the same command.
LEMMA JobGoesOnPursues ==
  ASSUME Typed, NEW w \in Workers, NEW j, JobBecomes(w, j),
         j.pc # "idle", j.cmd = job[w].cmd, j.attempt = job[w].attempt,
         UNCHANGED <<queue, exhausted>>, NEW i \in Interactions, Pursued(i)
  PROVE  Pursued(i)'
  BY DEF Typed, TypeOK, JobBecomes, Pursued

LEMMA BackedNext ==
  ASSUME Typed, Sound, Backed, [Next]_vars
  PROVE  Backed'
  <1> USE DEF vars, github, discord
  <1>t. /\ phase \in [Interactions -> {"unsent", "waiting", "deferred", "over"}]
        /\ dispatch \in [Interactions -> {"none", "enqueue", "respond", "done"}]
        /\ message \in [Interactions -> Answers \union {Hint}]
        /\ job \in [Workers -> Job]
        /\ queue \subseteq Delivery
        /\ \A w \in Workers : job[w].pc # "idle" => job[w].cmd \in Interactions
    BY DEF Typed, TypeOK, Busy
  <1>k. ASSUME UNCHANGED <<phase, message, dispatch>>,
               \A i \in Interactions : Pursued(i) => Pursued(i)'
        PROVE  Backed'
    BY <1>k DEF Backed
  <1>1. CASE UNCHANGED vars
    BY <1>1 DEF Backed, Pursued
  <1>2. ASSUME NEW i \in Interactions,
               Invoke(i) \/ Dispatching(i) \/ EnqueueFails(i) \/ DispatchDies(i)
               \/ DeadlineMissed(i) \/ TokenExpires(i)
        PROVE  Backed'
    <2>1. \A x \in Interactions : Pursued(x) => Pursued(x)'
      BY <1>2 DEF Invoke, Dispatching, Reject, Enqueue, Acknowledge, EnqueueFails, DispatchDies,
         DeadlineMissed, TokenExpires, Pursued
    <2>2. CASE Enqueue(i)
      <3>1. [cmd |-> i, attempt |-> 1] \in queue'
        BY <2>2 DEF Enqueue
      <3>2. Pursued(i)'
        BY <3>1 DEF Pursued
      <3> QED
        BY <1>t, <2>1, <2>2, <3>2 DEF Enqueue, DispatchBecomes, Backed
    <2>3. CASE Acknowledge(i)
      BY <1>t, <2>1, <2>3 DEF Acknowledge, DispatchBecomes, Backed
    <2>4. CASE Invoke(i) \/ Reject(i) \/ DeadlineMissed(i) \/ TokenExpires(i)
      BY <1>t, <2>1, <2>4 DEF Invoke, Reject, DispatchBecomes, DeadlineMissed, TokenExpires, Backed
    <2>5. CASE EnqueueFails(i) \/ DispatchDies(i)
      BY <1>t, <2>1, <2>5 DEF EnqueueFails, DispatchDies, DispatchBecomes, Backed
    <2> QED
      BY <1>2, <2>2, <2>3, <2>4, <2>5 DEF Dispatching
  <1>3. ASSUME NEW v \in Views, RepositoryChanges(v) PROVE Backed'
    BY <1>3 DEF RepositoryChanges, Backed, Pursued
  <1>4. ASSUME NEW w \in Workers, NEW d \in queue, Start(w, d) PROVE Backed'
    <2>1. job'[w].pc # "idle" /\ job'[w].cmd = d.cmd /\ job'[w].attempt = d.attempt
      <3>1. job'[w] \in {[NoJob EXCEPT !.pc = pc, !.cmd = d.cmd, !.attempt = d.attempt] :
                           pc \in {"fetch", "build"}}
        BY <1>4, <1>t DEF Start, JobBecomes
      <3> QED
        BY <3>1 DEF NoJob
    <2>2. d.attempt > 0
      BY <1>t DEF Delivery
    <2>3. \A x \in Workers \ {w} : job'[x] = job[x]
      BY <1>4, <1>t DEF Start, JobBecomes
    <2>4. ASSUME NEW i \in Interactions, Pursued(i) PROVE Pursued(i)'
      BY <1>4, <2>1, <2>2, <2>3, <2>4 DEF Start, Pursued
    <2> QED
      BY <1>k, <1>4, <2>4 DEF Start
  <1>5. ASSUME NEW w \in Workers, FetchStep(w) \/ FetchFault(w) PROVE Backed'
    BY <1>5 DEF FetchStep, FetchFault, Backed, Pursued
  <1>6. ASSUME NEW w \in Workers, Fetched(w) \/ Build(w) \/ BuildUnreachable(w) PROVE Backed'
    <2>1. job[w] \in Job /\ job[w].pc # "idle"
      BY <1>6, <1>t DEF Fetched, Build, BuildUnreachable
    <2>2. ASSUME NEW i \in Interactions, Pursued(i) PROVE Pursued(i)'
      <3>1. CASE Raises(w)
        BY <2>1, <2>2, <3>1, RaisesPursues
      <3>2. CASE ~Raises(w)
        <4>1. PICK pc \in {"build", "edit"},
                   a \in {Gone, shown, job[w].answer, fetch[w].result, Unreachable} :
                JobBecomes(w, [job[w] EXCEPT !.pc = pc, !.answer = a])
          BY <1>6, <3>2 DEF Fetched, Build, BuildUnreachable
        <4>2. UNCHANGED <<queue, exhausted>>
          BY <1>6, <3>2 DEF Fetched, Build, BuildUnreachable
        <4> DEFINE j == [job[w] EXCEPT !.pc = pc, !.answer = a]
        <4>3. j.pc # "idle" /\ j.cmd = job[w].cmd /\ j.attempt = job[w].attempt
          BY <2>1 DEF Job
        <4>4. JobBecomes(w, j)
          BY <4>1
        <4> HIDE DEF j
        <4> QED
          BY <2>2, <4>2, <4>3, <4>4, JobGoesOnPursues
      <3> QED
        BY <3>1, <3>2
    <2> QED
      BY <1>6, <1>k, <2>2 DEF Fetched, Build, BuildUnreachable
  <1>7. ASSUME NEW w \in Workers, BuildRaises(w) \/ EditRefused(w) \/ JobFails(w) PROVE Backed'
    <2>1. job[w].pc # "idle" /\ Raises(w) /\ UNCHANGED <<phase, message, dispatch>>
      BY <1>7 DEF BuildRaises, EditRefused, JobFails
    <2>2. \A i \in Interactions : Pursued(i) => Pursued(i)'
      BY <2>1, RaisesPursues
    <2> QED
      BY <1>k, <2>1, <2>2
  <1>8. ASSUME NEW w \in Workers, Edit(w) \/ EditUnconfirmed(w) PROVE Backed'
    <2>1. job[w].cmd \in Interactions /\ message'[job[w].cmd] # None
      BY <1>8, <1>t DEF Edit, EditUnconfirmed, Sound, JobSound
    <2>2. ASSUME NEW i \in Interactions, i # job[w].cmd, Pursued(i) PROVE Pursued(i)'
      <3>1. CASE Edit(w)
        <4>1. \A x \in Workers \ {w} : job'[x] = job[x]
          BY <3>1, <1>t DEF Edit, JobBecomes
        <4> QED
          BY <2>2, <3>1, <4>1 DEF Edit, Pursued
      <3>2. CASE EditUnconfirmed(w)
        BY <2>2, <3>2, RaisesPursues DEF EditUnconfirmed
      <3> QED
        BY <1>8, <3>1, <3>2
    <2>3. UNCHANGED <<phase, dispatch>>
          /\ \A i \in Interactions : i # job[w].cmd => message'[i] = message[i]
      BY <1>8, <1>t DEF Edit, EditUnconfirmed
    <2> QED
      BY <2>1, <2>2, <2>3 DEF Backed
  <1>9. ASSUME NEW w \in Workers, JobTimesOut(w) PROVE Backed'
    <2>1. [cmd |-> job[w].cmd, attempt |-> job[w].attempt + 1] \in queue'
          /\ queue \subseteq queue' /\ exhausted' = exhausted
      BY <1>9 DEF JobTimesOut
    <2>2. \A x \in Workers \ {w} : job'[x] = job[x]
      BY <1>9, <1>t DEF JobTimesOut, JobBecomes
    <2>3. ASSUME NEW i \in Interactions, Pursued(i) PROVE Pursued(i)'
      BY <2>1, <2>2, <2>3 DEF Pursued
    <2> QED
      BY <1>k, <1>9, <2>3 DEF JobTimesOut
  <1> QED
    BY <1>1, <1>2, <1>3, <1>4, <1>5, <1>6, <1>7, <1>8, <1>9 DEF Next, StartCommand, Working

\* Nobody is kept waiting for a task that does not exist, whatever fails, dies,
\* is delivered again or comes too late.
THEOREM DeferralsBacked == Spec => []TaskBehindDeferral
  <1>1. Init => Typed /\ CacheSound /\ Sound /\ Backed
    BY TypedInit, CacheSoundInit, SoundInit, BackedInit
  <1>2. (Typed /\ CacheSound /\ Sound /\ Backed) /\ [Next]_vars
        => (Typed /\ CacheSound /\ Sound /\ Backed)'
    BY TypedNext, CacheSoundNext, SoundNext, BackedNext
  <1>3. Backed => TaskBehindDeferral
    BY DEF Backed, TaskBehindDeferral
  <1> QED
    BY <1>1, <1>2, <1>3, PTL DEF Spec
=============================================================================
