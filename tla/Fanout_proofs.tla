---------------------------- MODULE Fanout_proofs ----------------------------
(***************************************************************************)
(* Proofs about Fanout, for any documents, runners, workers and bounds.    *)
(***************************************************************************)
EXTENDS Fanout, Lemmas

USE FanoutAssumption

LEMMA GroupsAre == Groups = {"cohort", "leaders"} /\ DEFAULT_GROUP \in Groups
  BY DEF Groups, GROUPS, DEFAULT_GROUP

LEMMA ListsAre ==
  /\ DOMAIN Lists = 1 .. 4
  /\ Lists[1] = "users" /\ Lists[2] = "publications"
  /\ Lists[3] = "repos" /\ Lists[4] = "installations"
  BY DEF Lists

LEMMA CollectionsAre ==
  /\ Collection("users") = Users /\ Collection("publications") = Publications
  /\ Collection("repos") = Repos /\ Collection("installations") = Installations
  BY DEF Collection

LEMMA CollectionsAreSources ==
  ASSUME NEW i \in DOMAIN Lists
  PROVE  Collection(Lists[i]) \subseteq Sources
  BY ListsAre, CollectionsAre DEF Sources

LEMMA NoRunFields ==
  /\ NoRun \in Run
  /\ NoRun.pc = "idle" /\ NoRun.unread = {} /\ NoRun.todo = {} /\ NoRun.headed = {}
  /\ NoRun.sent = {} /\ NoRun.failed = {} /\ NoRun.steady = {} /\ NoRun.nameless = {}
  BY GroupsAre DEF NoRun, Run

LEMMA NoJobFields == NoJob \in Job /\ NoJob.pc = "idle"
  BY GroupsAre DEF NoJob, Job

-----------------------------------------------------------------------------
(***************************************************************************)
(* Type correctness.  A worker that is not idle has a task, which makes    *)
(* what the queue delivers again well formed.                              *)
(***************************************************************************)
Busy == \A w \in Workers : job[w].pc # "idle" => job[w].task \in Sources

Typed == TypeOK /\ Busy

LEMMA MissingTyped == Missing \in Document
  BY GroupsAre DEF Missing, Document

LEMMA AddedTyped ==
  ASSUME NEW s \in Sources, NEW doc \in Document, NEW g \in Groups, NEW found \in BOOLEAN
  PROVE  Added(s, doc, g, found) \in Document
  <1>1. CASE found \/ s \in Installations
    <2> DEFINE named == doc.named \/ s \in Installations
    <2>1. Added(s, doc, g, found)
            = [doc EXCEPT !.stored = TRUE, !.enabled = TRUE, !.group = g, !.named = named]
      BY <1>1 DEF Added
    <2>2. named \in BOOLEAN
      OBVIOUS
    <2> HIDE DEF named
    <2> QED
      BY <2>1, <2>2 DEF Document
  <1>2. CASE ~(found \/ s \in Installations)
    <2>1. (s \in Publications \union Repos) \in BOOLEAN
      OBVIOUS
    <2> QED
      BY <1>2, <2>1 DEF Added, Document
  <1> QED
    BY <1>1, <1>2

LEMMA RemovedTyped ==
  ASSUME NEW s \in Sources, NEW doc \in Document
  PROVE  Removed(s, doc) \in Document
  BY MissingTyped DEF Removed, Document

LEMMA CursorSetTyped ==
  ASSUME NEW doc \in Document
  PROVE  CursorSet(doc) \in Document
  BY DEF CursorSet, Document

LEMMA RedeliveredTyped ==
  ASSUME NEW task \in Sources \union {Digest}, NEW attempt \in 0 .. MaxAttempts
  PROVE  /\ Redelivered(task, attempt) \subseteq Message
         /\ \A m \in Redelivered(task, attempt) : m = [task |-> task, attempt |-> attempt + 1]
                                                  /\ m.task = task
  BY DEF Redelivered, Message

LEMMA TypedInit == Init => Typed
  <1> SUFFICES ASSUME Init PROVE Typed
    OBVIOUS
  <1>1. PICK g \in [Users -> Groups] :
          /\ docs = [s \in Sources |->
                       Added(s, Missing, IF s \in Users THEN g[s] ELSE DEFAULT_GROUP, FALSE)]
          /\ members = {<<u, g[u]>> : u \in Users}
    BY DEF Init
  <1>2. docs \in [Sources -> Document]
    <2>1. \A s \in Sources : (IF s \in Users THEN g[s] ELSE DEFAULT_GROUP) \in Groups
      BY GroupsAre
    <2> DEFINE doc(s) == Added(s, Missing, IF s \in Users THEN g[s] ELSE DEFAULT_GROUP, FALSE)
    <2>2. \A s \in Sources : doc(s) \in Document
      BY <2>1, AddedTyped, MissingTyped
    <2>3. docs = [s \in Sources |-> doc(s)]
      BY <1>1
    <2> HIDE DEF doc
    <2> QED
      BY <2>2, <2>3
  <1>3. members \subseteq Users \X Groups
    BY <1>1
  <1>4. Busy
    BY NoJobFields DEF Init, Busy
  <1>5. run \in [Runners -> Run] /\ job \in [Workers -> Job]
    BY NoRunFields, NoJobFields DEF Init
  <1>6. /\ adds \subseteq Addition /\ channels \subseteq Groups /\ queue \subseteq Message
        /\ sections \subseteq Sources \X Groups /\ torn \subseteq Sources
    BY DEF Init
  <1>7. /\ triggers \in 0 .. MaxTriggers /\ edits \in 0 .. MaxEdits /\ faults \in 0 .. MaxFaults
        /\ headers \in [Groups -> Nat] /\ beats \in Nat /\ crashes \in Nat
    BY DEF Init
  <1> QED
    BY <1>2, <1>3, <1>4, <1>5, <1>6, <1>7 DEF Typed, TypeOK

\* What a step of runner w makes of its run, and of worker w of its job.
LEMMA RunTyped ==
  ASSUME Typed, NEW w \in Runners, NEW r \in Run, RunBecomes(w, r)
  PROVE  /\ run' \in [Runners -> Run] /\ run'[w] = r
         /\ \A v \in Runners \ {w} : run'[v] = run[v]
  BY DEF RunBecomes, Typed, TypeOK

LEMMA JobTyped ==
  ASSUME Typed, NEW w \in Workers, NEW j \in Job, JobBecomes(w, j),
         j.pc # "idle" => j.task \in Sources
  PROVE  /\ job' \in [Workers -> Job] /\ job'[w] = j /\ Busy'
         /\ \A v \in Workers \ {w} : job'[v] = job[v]
  BY DEF JobBecomes, Typed, TypeOK, Busy

LEMMA RunRaisesTyped ==
  ASSUME Typed, NEW w \in Runners, RunRaises(w)
  PROVE  run' \in [Runners -> Run] /\ queue' \subseteq Message
  <1>1. run[w].attempt \in 0 .. MaxAttempts
    BY DEF Typed, TypeOK, Run
  <1>2. run' \in [Runners -> Run]
    BY NoRunFields, RunTyped DEF RunRaises
  <1>3. queue' \subseteq Message
    BY <1>1, RedeliveredTyped DEF RunRaises, Typed, TypeOK
  <1> QED
    BY <1>2, <1>3

LEMMA JobRaisesTyped ==
  ASSUME Typed, NEW w \in Workers, job[w].pc # "idle", JobRaises(w)
  PROVE  job' \in [Workers -> Job] /\ Busy' /\ queue' \subseteq Message
  <1>1. job[w].attempt \in 0 .. MaxAttempts /\ job[w].task \in Sources
    BY DEF Typed, TypeOK, Busy, Job
  <1>2. job' \in [Workers -> Job] /\ Busy'
    BY NoJobFields, JobTyped DEF JobRaises
  <1>3. queue' \subseteq Message
    BY <1>1, RedeliveredTyped DEF JobRaises, Typed, TypeOK
  <1> QED
    BY <1>2, <1>3

\* The run that a step of run_fanout leaves.
StartedRun(m) ==
  [NoRun EXCEPT
     !.pc = "read", !.attempt = m.attempt, !.channels = channels,
     !.unread = {"users", "publications", "repos", "installations"},
     !.steady = Enabled(Sources)]

LEMMA StartedRunTyped ==
  ASSUME Typed, NEW m \in queue
  PROVE  LET r == StartedRun(m) IN
         /\ r \in Run /\ r.pc = "read" /\ r.channels = channels
         /\ r.unread = {"users", "publications", "repos", "installations"}
         /\ r.steady = Enabled(Sources) /\ r.headed = {}
  <1>1. m.attempt \in 0 .. MaxAttempts /\ channels \in SUBSET Groups
        /\ Enabled(Sources) \in SUBSET Sources
    BY DEF Typed, TypeOK, Message, Enabled
  <1> QED
    BY <1>1, NoRunFields DEF StartedRun, Run

ReadRun(w, i) ==
  LET listed == Enabled(Collection(Lists[i])) IN
  [run[w] EXCEPT
     !.unread = @ \ {Lists[i]},
     !.pc = IF run[w].unread = {Lists[i]} THEN "send" ELSE "read",
     !.todo = @ \union listed,
     !.nameless = @ \union {s \in listed : ~docs[s].named},
     !.group = IF i = 1 THEN [u \in Users |-> docs[u].group] ELSE @]

LEMMA ReadRunTyped ==
  ASSUME Typed, NEW w \in Runners, NEW i \in DOMAIN Lists
  PROVE  LET r == ReadRun(w, i) IN
         /\ r \in Run
         /\ r.pc = IF run[w].unread = {Lists[i]} THEN "send" ELSE "read"
         /\ r.unread = run[w].unread \ {Lists[i]}
         /\ r.todo = run[w].todo \union Enabled(Collection(Lists[i]))
         /\ i # 1 => r.group = run[w].group
         /\ r.channels = run[w].channels /\ r.headed = run[w].headed
         /\ r.sent = run[w].sent /\ r.failed = run[w].failed /\ r.steady = run[w].steady
  <1> DEFINE listed   == Enabled(Collection(Lists[i]))
             pc       == IF run[w].unread = {Lists[i]} THEN "send" ELSE "read"
             nameless == {s \in listed : ~docs[s].named}
             group    == IF i = 1 THEN [u \in Users |-> docs[u].group] ELSE run[w].group
             r        == [run[w] EXCEPT
                            !.unread = @ \ {Lists[i]}, !.pc = pc, !.todo = @ \union listed,
                            !.nameless = @ \union nameless, !.group = group]
  <1>1. run[w] \in Run
    BY DEF Typed, TypeOK
  <1>2. listed \subseteq Sources /\ nameless \subseteq Sources
    BY CollectionsAreSources DEF Enabled
  <1>3. pc \in {"idle", "read", "send"}
    OBVIOUS
  <1>4. group \in [Users -> Groups]
    <2>1. [u \in Users |-> docs[u].group] \in [Users -> Groups]
      BY DEF Typed, TypeOK, Document, Sources
    <2> QED
      BY <1>1, <2>1 DEF Run
  <1>5. i # 1 => group = run[w].group
    OBVIOUS
  <1>6. ReadRun(w, i) = r
    BY <1>1 DEF ReadRun, Run
  <1> HIDE DEF listed, pc, nameless, group
  <1>7. /\ r \in Run /\ r.pc = pc /\ r.unread = run[w].unread \ {Lists[i]}
        /\ r.todo = run[w].todo \union listed /\ r.group = group
        /\ r.channels = run[w].channels /\ r.headed = run[w].headed
        /\ r.sent = run[w].sent /\ r.failed = run[w].failed /\ r.steady = run[w].steady
    BY <1>1, <1>2, <1>3, <1>4 DEF Run
  <1> HIDE DEF r
  <1> QED
    BY <1>5, <1>6, <1>7 DEF listed, pc

LEMMA HeadedRunTyped ==
  ASSUME Typed, NEW w \in Runners, NEW g \in Groups
  PROVE  LET r == [run[w] EXCEPT !.headed = @ \union {g}] IN
         /\ r \in Run /\ r.headed = run[w].headed \union {g}
         /\ r.pc = run[w].pc /\ r.unread = run[w].unread /\ r.todo = run[w].todo
         /\ r.sent = run[w].sent /\ r.failed = run[w].failed /\ r.steady = run[w].steady
         /\ r.group = run[w].group /\ r.channels = run[w].channels
  BY DEF Typed, TypeOK, Run

\* A source leaves the list, or the users of a group do.
LEMMA ShorterRunTyped ==
  ASSUME Typed, NEW w \in Runners, NEW todo \in SUBSET run[w].todo,
         NEW sent \in SUBSET Sources, NEW failed \in SUBSET Sources
  PROVE  LET r == [run[w] EXCEPT !.todo = todo, !.sent = sent, !.failed = failed] IN
         /\ r \in Run /\ r.todo = todo /\ r.sent = sent /\ r.failed = failed
         /\ r.pc = run[w].pc /\ r.unread = run[w].unread /\ r.headed = run[w].headed
         /\ r.steady = run[w].steady /\ r.group = run[w].group /\ r.channels = run[w].channels
  <1>1. run[w] \in Run
    BY DEF Typed, TypeOK
  <1>2. todo \in SUBSET Sources
    BY <1>1 DEF Run
  <1> QED
    BY <1>1, <1>2 DEF Run

LEMMA SentRun ==
  ASSUME Typed, NEW w \in Runners, NEW s \in Sources, Send(w, s)
  PROVE  RunBecomes(w, [run[w] EXCEPT !.todo = run[w].todo \ {s},
                                      !.sent = run[w].sent \union {s},
                                      !.failed = run[w].failed])
  <1>1. run[w] \in Run
    BY DEF Typed, TypeOK
  <1>2. [run[w] EXCEPT !.todo = @ \ {s}, !.sent = @ \union {s}]
          = [run[w] EXCEPT !.todo = run[w].todo \ {s}, !.sent = run[w].sent \union {s},
                           !.failed = run[w].failed]
    BY <1>1 DEF Run
  <1> QED
    BY <1>2 DEF Send

LEMMA FailedRun ==
  ASSUME Typed, NEW w \in Runners, NEW s \in Sources, SendFails(w, s)
  PROVE  RunBecomes(w, [run[w] EXCEPT !.todo = run[w].todo \ {s},
                                      !.sent = run[w].sent,
                                      !.failed = run[w].failed \union {s}])
  <1>1. run[w] \in Run
    BY DEF Typed, TypeOK
  <1>2. [run[w] EXCEPT !.todo = @ \ {s}, !.failed = @ \union {s}]
          = [run[w] EXCEPT !.todo = run[w].todo \ {s}, !.sent = run[w].sent,
                           !.failed = run[w].failed \union {s}]
    BY <1>1 DEF Run
  <1> QED
    BY <1>2 DEF SendFails

LEMMA SkippedRun ==
  ASSUME Typed, NEW w \in Runners, NEW g \in Groups, SkipGroup(w, g)
  PROVE  RunBecomes(w, [run[w] EXCEPT !.todo = {s \in run[w].todo : s \in Users => run[w].group[s] # g},
                                      !.sent = run[w].sent, !.failed = run[w].failed])
  <1>1. run[w] \in Run
    BY DEF Typed, TypeOK
  <1> DEFINE todo == {s \in run[w].todo : s \in Users => run[w].group[s] # g}
  <1> HIDE DEF todo
  <1>2. [run[w] EXCEPT !.todo = todo]
          = [run[w] EXCEPT !.todo = todo, !.sent = run[w].sent, !.failed = run[w].failed]
    BY <1>1 DEF Run
  <1> QED
    BY <1>2 DEF SkipGroup, todo

\* A removed source is no longer steady.
LEMMA UnsteadyTyped ==
  ASSUME Typed, NEW s, run' = [w \in Runners |-> [run[w] EXCEPT !.steady = @ \ {s}]]
  PROVE  /\ run' \in [Runners -> Run]
         /\ \A w \in Runners :
              /\ run'[w].steady = run[w].steady \ {s} /\ run'[w].pc = run[w].pc
              /\ run'[w].unread = run[w].unread /\ run'[w].todo = run[w].todo
              /\ run'[w].sent = run[w].sent /\ run'[w].failed = run[w].failed
              /\ run'[w].headed = run[w].headed /\ run'[w].group = run[w].group
              /\ run'[w].channels = run[w].channels
  <1>1. \A w \in Runners : run[w] \in Run
    BY DEF Typed, TypeOK
  <1>2. ASSUME NEW w \in Runners
        PROVE  LET r == [run[w] EXCEPT !.steady = @ \ {s}] IN
               /\ r \in Run
               /\ r.steady = run[w].steady \ {s} /\ r.pc = run[w].pc
               /\ r.unread = run[w].unread /\ r.todo = run[w].todo
               /\ r.sent = run[w].sent /\ r.failed = run[w].failed
               /\ r.headed = run[w].headed /\ r.group = run[w].group
               /\ r.channels = run[w].channels
    BY <1>1 DEF Run
  <1> QED
    BY <1>2

\* A run or a job that goes on beyond its deadline will not be repeated again.
LEMMA OutlivedRun ==
  ASSUME Typed, NEW w \in Runners, RunTimeout(w)
  PROVE  /\ run' \in [Runners -> Run] /\ \A v \in Runners \ {w} : run'[v] = run[v]
         /\ run'[w].pc = run[w].pc /\ run'[w].unread = run[w].unread /\ run'[w].todo = run[w].todo
         /\ run'[w].sent = run[w].sent /\ run'[w].failed = run[w].failed
         /\ run'[w].headed = run[w].headed /\ run'[w].steady = run[w].steady
         /\ run'[w].group = run[w].group /\ run'[w].channels = run[w].channels
         /\ queue' \subseteq Message
         /\ queue' \subseteq queue \union {[task |-> Digest, attempt |-> run[w].attempt + 1]}
  <1> DEFINE r == [run[w] EXCEPT !.attempt = 0]
  <1>1. run[w] \in Run /\ run[w].attempt \in 0 .. MaxAttempts
    BY DEF Typed, TypeOK, Run
  <1>2. /\ r \in Run /\ r.pc = run[w].pc /\ r.unread = run[w].unread /\ r.todo = run[w].todo
        /\ r.sent = run[w].sent /\ r.failed = run[w].failed /\ r.headed = run[w].headed
        /\ r.steady = run[w].steady /\ r.group = run[w].group /\ r.channels = run[w].channels
    BY <1>1 DEF Run
  <1>3. RunBecomes(w, r) /\ queue' = queue \union Redelivered(Digest, run[w].attempt)
    BY DEF RunTimeout
  <1> HIDE DEF r
  <1>4. run' \in [Runners -> Run] /\ run'[w] = r /\ \A v \in Runners \ {w} : run'[v] = run[v]
    BY <1>2, <1>3, RunTyped
  <1>5. queue' \subseteq Message
    BY <1>1, <1>3, RedeliveredTyped DEF Typed, TypeOK
  <1>6. queue' \subseteq queue \union {[task |-> Digest, attempt |-> run[w].attempt + 1]}
    BY <1>3 DEF Redelivered
  <1> QED
    BY <1>2, <1>4, <1>5, <1>6

LEMMA OutlivedJob ==
  ASSUME Typed, NEW w \in Workers, JobTimeout(w)
  PROVE  /\ job' \in [Workers -> Job] /\ Busy' /\ \A v \in Workers \ {w} : job'[v] = job[v]
         /\ job[w].pc # "idle" /\ job'[w].task = job[w].task /\ job'[w].group = job[w].group
         /\ job'[w].since = job[w].since
         /\ queue' \subseteq Message
  <1> DEFINE j == [job[w] EXCEPT !.attempt = 0]
  <1>1. job[w] \in Job /\ job[w].attempt \in 0 .. MaxAttempts /\ job[w].pc # "idle" /\ job[w].task \in Sources
    BY DEF Typed, TypeOK, Busy, Job, JobTimeout
  <1>2. j \in Job /\ j.task = job[w].task /\ j.group = job[w].group /\ j.since = job[w].since
    BY <1>1 DEF Job
  <1>3. JobBecomes(w, j) /\ queue' = queue \union Redelivered(job[w].task, job[w].attempt)
    BY DEF JobTimeout
  <1> HIDE DEF j
  <1>4. job' \in [Workers -> Job] /\ job'[w] = j /\ Busy' /\ \A v \in Workers \ {w} : job'[v] = job[v]
    BY <1>1, <1>2, <1>3, JobTyped
  <1>5. queue' \subseteq Message
    BY <1>1, <1>3, RedeliveredTyped DEF Typed, TypeOK
  <1> QED
    BY <1>1, <1>2, <1>4, <1>5

\* The job that begins: nothing for a document that is gone or disabled.
BegunJob(m) ==
  IF Served(m.task)
  THEN [pc |-> "post", task |-> m.task, attempt |-> m.attempt,
        group |-> docs[m.task].group, channel |-> docs[m.task].group \in channels,
        since |-> docs[m.task].cursor]
  ELSE NoJob

LEMMA BegunJobTyped ==
  ASSUME Typed, NEW m \in queue, m.task # Digest
  PROVE  /\ BegunJob(m) \in Job /\ m.task \in Sources
         /\ BegunJob(m).pc # "idle" =>
              /\ Served(m.task) /\ BegunJob(m).task = m.task
              /\ BegunJob(m).group = docs[m.task].group
              /\ BegunJob(m).since = docs[m.task].cursor
  <1>1. m.task \in Sources /\ m.attempt \in 0 .. MaxAttempts
    BY DEF Typed, TypeOK, Message
  <1>2. docs[m.task] \in Document
    BY <1>1 DEF Typed, TypeOK
  <1>3. docs[m.task].group \in Groups /\ docs[m.task].cursor \in BOOLEAN
    BY <1>2 DEF Document
  <1>4. (docs[m.task].group \in channels) \in BOOLEAN
    OBVIOUS
  <1>5. CASE Served(m.task)
    BY <1>1, <1>3, <1>4, <1>5 DEF BegunJob, Job
  <1>6. CASE ~Served(m.task)
    BY <1>1, <1>6, NoJobFields DEF BegunJob
  <1> QED
    BY <1>5, <1>6

LEMMA WritingJobTyped ==
  ASSUME Typed, NEW w \in Workers, job[w].pc = "post"
  PROVE  LET j == [job[w] EXCEPT !.pc = "write"] IN
         /\ j \in Job /\ j.pc = "write" /\ j.task = job[w].task /\ j.task \in Sources
         /\ j.group = job[w].group /\ j.since = job[w].since
  BY DEF Typed, TypeOK, Busy, Job

LEMMA TypedNext == Typed /\ [Next]_vars => Typed'
  <1> SUFFICES ASSUME Typed, [Next]_vars PROVE Typed'
    OBVIOUS
  <1> USE DEF bounded, history
  <1>1. ASSUME NEW s \in Sources, NEW g \in Groups, AddReads(s, g) PROVE Typed'
    <2>1. docs[s].stored \in BOOLEAN
      BY DEF Typed, TypeOK, Document
    <2>2. [source |-> s, group |-> g, found |-> docs[s].stored] \in Addition
      BY <2>1 DEF Addition
    <2> QED
      BY <1>1, <2>2 DEF AddReads, Edit, Typed, TypeOK, Busy
  <1>2. ASSUME NEW a \in adds, AddWrites(a) PROVE Typed'
    <2>1. a.source \in Sources /\ a.group \in Groups /\ a.found \in BOOLEAN
      BY DEF Typed, TypeOK, Addition
    <2>2. docs' \in [Sources -> Document]
      <3>1. docs[a.source] \in Document
        BY <2>1 DEF Typed, TypeOK
      <3>2. Added(a.source, docs[a.source], a.group, a.found) \in Document
        BY <2>1, <3>1, AddedTyped
      <3> QED
        BY <1>2, <2>1, <3>2 DEF AddWrites, Typed, TypeOK
    <2>3. members' \subseteq Users \X Groups
      BY <1>2, <2>1 DEF AddWrites, Typed, TypeOK
    <2> QED
      BY <1>2, <2>2, <2>3 DEF AddWrites, Typed, TypeOK, Busy
  <1>3. ASSUME NEW s \in Sources, RemoveSource(s) PROVE Typed'
    <2>1. docs' \in [Sources -> Document]
      <3>1. Removed(s, docs[s]) \in Document
        BY RemovedTyped DEF Typed, TypeOK
      <3> QED
        BY <1>3, <3>1 DEF RemoveSource, Typed, TypeOK
    <2>2. run' \in [Runners -> Run]
      BY <1>3, UnsteadyTyped DEF RemoveSource
    <2>3. members' \subseteq Users \X Groups /\ torn' \subseteq Sources
      BY <1>3, GroupsAre DEF RemoveSource, Typed, TypeOK
    <2> QED
      BY <1>3, <2>1, <2>2, <2>3 DEF RemoveSource, Edit, Typed, TypeOK, Busy
  <1>4. ASSUME NEW g \in Groups, PutConfig(g) PROVE Typed'
    BY <1>4 DEF PutConfig, Edit, Typed, TypeOK, Busy
  <1>5. ASSUME NEW attempt \in {1, MaxAttempts}, Trigger(attempt) PROVE Typed'
    <2>1. [task |-> Digest, attempt |-> attempt] \in Message
      BY DEF Message
    <2> QED
      BY <1>5, <2>1 DEF Trigger, Typed, TypeOK, Busy
  <1>6. ASSUME NEW w \in Runners, NEW m \in queue, StartRun(w, m) PROVE Typed'
    <2>1. StartedRun(m) \in Run /\ RunBecomes(w, StartedRun(m))
      BY <1>6, StartedRunTyped DEF StartRun, StartedRun
    <2>2. run' \in [Runners -> Run]
      BY <2>1, RunTyped
    <2> QED
      BY <1>6, <2>2 DEF StartRun, Typed, TypeOK, Busy
  <1>7. ASSUME NEW w \in Runners, NEW i \in DOMAIN Lists, ReadList(w, i) PROVE Typed'
    <2>1. ReadRun(w, i) \in Run /\ RunBecomes(w, ReadRun(w, i))
      BY <1>7, ReadRunTyped DEF ReadList, ReadRun
    <2>2. run' \in [Runners -> Run]
      BY <2>1, RunTyped
    <2> QED
      BY <1>7, <2>2 DEF ReadList, Typed, TypeOK, Busy
  <1>8. ASSUME NEW w \in Runners, NEW g \in Groups, PostHeader(w, g) PROVE Typed'
    <2>1. run' \in [Runners -> Run]
      BY <1>8, HeadedRunTyped, RunTyped DEF PostHeader
    <2>2. headers' \in [Groups -> Nat]
      BY <1>8 DEF PostHeader, Typed, TypeOK
    <2> QED
      BY <1>8, <2>1, <2>2 DEF PostHeader, Typed, TypeOK, Busy
  <1>9. ASSUME NEW w \in Runners, NEW g \in Groups, SkipGroup(w, g) PROVE Typed'
    <2> DEFINE todo == {s \in run[w].todo : s \in Users => run[w].group[s] # g}
    <2>1. /\ todo \in SUBSET run[w].todo
          /\ run[w].sent \in SUBSET Sources /\ run[w].failed \in SUBSET Sources
      BY DEF Typed, TypeOK, Run
    <2>2. RunBecomes(w, [run[w] EXCEPT !.todo = todo, !.sent = run[w].sent, !.failed = run[w].failed])
      BY <1>9, SkippedRun
    <2> HIDE DEF todo
    <2>3. run' \in [Runners -> Run]
      BY <2>1, <2>2, ShorterRunTyped, RunTyped
    <2> QED
      BY <1>9, <2>3 DEF SkipGroup, Typed, TypeOK, Busy
  <1>10. ASSUME NEW w \in Runners, NEW s \in Sources, Send(w, s) PROVE Typed'
    <2>1. /\ run[w].todo \ {s} \in SUBSET run[w].todo
          /\ run[w].sent \union {s} \in SUBSET Sources /\ run[w].failed \in SUBSET Sources
      BY DEF Typed, TypeOK, Run
    <2>2. run' \in [Runners -> Run]
      <3> DEFINE todo == run[w].todo \ {s}
                 sent == run[w].sent \union {s}
                 failed == run[w].failed
      <3>1. RunBecomes(w, [run[w] EXCEPT !.todo = todo, !.sent = sent, !.failed = failed])
        BY <1>10, SentRun
      <3> HIDE DEF todo, sent, failed
      <3>2. [run[w] EXCEPT !.todo = todo, !.sent = sent, !.failed = failed] \in Run
        BY <2>1, ShorterRunTyped DEF todo, sent, failed
      <3> QED
        BY <3>1, <3>2, RunTyped
    <2>3. [task |-> s, attempt |-> 1] \in Message
      BY DEF Message
    <2> QED
      BY <1>10, <2>2, <2>3 DEF Send, Typed, TypeOK, Busy
  <1>11. ASSUME NEW w \in Runners, NEW s \in Sources, SendFails(w, s) PROVE Typed'
    <2>1. /\ run[w].todo \ {s} \in SUBSET run[w].todo
          /\ run[w].sent \in SUBSET Sources /\ run[w].failed \union {s} \in SUBSET Sources
      BY DEF Typed, TypeOK, Run
    <2>2. run' \in [Runners -> Run]
      <3> DEFINE todo == run[w].todo \ {s}
                 sent == run[w].sent
                 failed == run[w].failed \union {s}
      <3>1. RunBecomes(w, [run[w] EXCEPT !.todo = todo, !.sent = sent, !.failed = failed])
        BY <1>11, FailedRun
      <3> HIDE DEF todo, sent, failed
      <3>2. [run[w] EXCEPT !.todo = todo, !.sent = sent, !.failed = failed] \in Run
        BY <2>1, ShorterRunTyped DEF todo, sent, failed
      <3> QED
        BY <3>1, <3>2, RunTyped
    <2> QED
      BY <1>11, <2>2 DEF SendFails, Typed, TypeOK, Busy
  <1>12. ASSUME NEW w \in Runners, NEW s \in Sources, SendCrashes(w, s) PROVE Typed'
    BY <1>12, RunRaisesTyped DEF SendCrashes, Typed, TypeOK, Busy
  <1>13. ASSUME NEW w \in Runners, Beat(w) PROVE Typed'
    <2>1. run' \in [Runners -> Run]
      BY <1>13, NoRunFields, RunTyped DEF Beat
    <2> QED
      BY <1>13, <2>1 DEF Beat, Typed, TypeOK, Busy
  <1>14. ASSUME NEW w \in Runners, RunFails(w) PROVE Typed'
    BY <1>14, RunRaisesTyped DEF RunFails, Fault, Typed, TypeOK, Busy
  <1>15. ASSUME NEW w \in Runners, NEW g \in Groups, HeaderUnconfirmed(w, g) PROVE Typed'
    <2>1. headers' \in [Groups -> Nat]
      BY <1>15 DEF HeaderUnconfirmed, Typed, TypeOK
    <2> QED
      BY <1>15, <2>1, RunRaisesTyped DEF HeaderUnconfirmed, Fault, Typed, TypeOK, Busy
  <1>16. ASSUME NEW w \in Workers, NEW m \in queue, Begin(w, m) PROVE Typed'
    <2>1. JobBecomes(w, BegunJob(m)) /\ m.task # Digest
      BY <1>16 DEF Begin, BegunJob
    <2>2. BegunJob(m) \in Job /\ (BegunJob(m).pc # "idle" => BegunJob(m).task \in Sources)
      BY <2>1, BegunJobTyped
    <2>3. job' \in [Workers -> Job] /\ Busy'
      BY <2>1, <2>2, JobTyped
    <2> QED
      BY <1>16, <2>3 DEF Begin, Typed, TypeOK
  <1>17. ASSUME NEW w \in Workers, Quiet(w) PROVE Typed'
    <2>1. job' \in [Workers -> Job] /\ Busy'
      BY <1>17, NoJobFields, JobTyped DEF Quiet
    <2> QED
      BY <1>17, <2>1 DEF Quiet, Typed, TypeOK
  <1>18. ASSUME NEW w \in Workers, Publish(w) PROVE Typed'
    <2>1. job' \in [Workers -> Job] /\ Busy'
      BY <1>18, WritingJobTyped, JobTyped DEF Publish
    <2>2. <<job[w].task, job[w].group>> \in Sources \X Groups
      BY <1>18 DEF Publish, Typed, TypeOK, Busy, Job
    <2> QED
      BY <1>18, <2>1, <2>2 DEF Publish, Typed, TypeOK
  <1>19. ASSUME NEW w \in Workers, NoChannel(w) PROVE Typed'
    BY <1>19, JobRaisesTyped DEF NoChannel, Typed, TypeOK
  <1>20. ASSUME NEW w \in Workers, WriteCursor(w) PROVE Typed'
    <2>1. job' \in [Workers -> Job] /\ Busy'
      BY <1>20, NoJobFields, JobTyped DEF WriteCursor
    <2>2. docs' \in [Sources -> Document]
      <3>1. job[w].task \in Sources
        BY <1>20 DEF WriteCursor, Typed, Busy
      <3>2. CursorSet(docs[job[w].task]) \in Document
        BY <3>1, CursorSetTyped DEF Typed, TypeOK
      <3> QED
        BY <1>20, <3>1, <3>2 DEF WriteCursor, Typed, TypeOK
    <2> QED
      BY <1>20, <2>1, <2>2 DEF WriteCursor, Typed, TypeOK
  <1>21. ASSUME NEW w \in Workers, JobFails(w) PROVE Typed'
    BY <1>21, JobRaisesTyped DEF JobFails, Fault, Typed, TypeOK
  <1>22. CASE UNCHANGED vars
    BY <1>22 DEF vars, Typed, TypeOK, Busy
  <1>23. ASSUME NEW w \in Runners, RunTimeout(w) PROVE Typed'
    BY <1>23, OutlivedRun DEF RunTimeout, Fault, Typed, TypeOK, Busy
  <1>24. ASSUME NEW w \in Workers, JobTimeout(w) PROVE Typed'
    BY <1>24, OutlivedJob DEF JobTimeout, Fault, Typed, TypeOK
  <1> QED
    BY <1>1, <1>2, <1>3, <1>4, <1>5, <1>6, <1>7, <1>8, <1>9, <1>10, <1>11, <1>12, <1>13,
       <1>14, <1>15, <1>16, <1>17, <1>18, <1>19, <1>20, <1>21, <1>22, <1>23, <1>24
    DEF Next, Admin, RunStep, RunFault, JobStep

LEMMA TypedHolds == Spec => []Typed
  BY TypedInit, TypedNext, PTL DEF Spec

\* Documents, deliveries, fan-outs and tasks keep their shape, and no delivery
\* is repeated beyond the attempts of the queue.
THEOREM TypeCorrect == Spec => []TypeOK
  <1>1. Typed => TypeOK
    BY DEF Typed
  <1> QED
    BY <1>1, TypedHolds, PTL

-----------------------------------------------------------------------------
(***************************************************************************)
(* What a step does to the documents and to the jobs.                      *)
(***************************************************************************)
LEMMA DocsMove ==
  ASSUME [Next]_vars
  PROVE  \/ \E s \in Sources, g \in Groups : AddReads(s, g)
         \/ \E a \in adds : AddWrites(a)
         \/ \E s \in Sources : RemoveSource(s)
         \/ \E w \in Workers : WriteCursor(w)
         \/ UNCHANGED <<docs, adds, members, torn>>
  <1> USE DEF bounded, history
  <1>1. ASSUME NEW w \in Runners, RunStep(w) \/ RunFault(w)
        PROVE  UNCHANGED <<docs, adds, members, torn>>
    BY <1>1 DEF RunStep, RunFault, ReadList, PostHeader, SkipGroup, Send, SendFails, SendCrashes,
                Beat, RunFails, HeaderUnconfirmed
  <1>2. ASSUME NEW w \in Workers, JobStep(w) \/ JobFails(w)
        PROVE  WriteCursor(w) \/ UNCHANGED <<docs, adds, members, torn>>
    BY <1>2 DEF JobStep, Quiet, Publish, NoChannel, JobFails
  <1> QED
    BY <1>1, <1>2 DEF Next, Admin, PutConfig, Trigger, StartRun, Begin, RunTimeout, JobTimeout, vars

LEMMA JobsMove ==
  ASSUME Typed, [Next]_vars, NEW v \in Workers
  PROVE  \/ job'[v] = job[v]
         \/ job'[v] = NoJob
         \/ \E m \in queue : Begin(v, m)
         \/ Publish(v)
         \/ JobTimeout(v)
  <1> USE DEF bounded, history
  <1>1. ASSUME NEW w \in Runners, (\E m \in queue : StartRun(w, m)) \/ RunStep(w) \/ RunFault(w)
        PROVE  job' = job
    BY <1>1 DEF StartRun, RunStep, RunFault, ReadList, PostHeader, SkipGroup, Send, SendFails,
                SendCrashes, Beat, RunFails, HeaderUnconfirmed
  <1>2. ASSUME NEW w \in Workers, NEW j, JobBecomes(w, j)
        PROVE  job'[v] = IF v = w THEN j ELSE job[v]
    BY <1>2 DEF JobBecomes, Typed, TypeOK
  <1>3. ASSUME NEW w \in Workers, Quiet(w) \/ NoChannel(w) \/ WriteCursor(w) \/ JobFails(w)
        PROVE  job'[v] = job[v] \/ job'[v] = NoJob
    <2>1. JobBecomes(w, NoJob)
      BY <1>3 DEF Quiet, NoChannel, WriteCursor, JobFails, JobRaises
    <2> QED
      BY <1>2, <2>1
  <1>4. ASSUME NEW w \in Workers, NEW m \in queue, Begin(w, m)
        PROVE  job'[v] = job[v] \/ Begin(v, m)
    <2>1. JobBecomes(w, BegunJob(m))
      BY <1>4 DEF Begin, BegunJob
    <2> QED
      BY <1>2, <1>4, <2>1
  <1>5. ASSUME NEW w \in Workers, Publish(w) PROVE job'[v] = job[v] \/ Publish(v)
    <2>1. JobBecomes(w, [job[w] EXCEPT !.pc = "write"])
      BY <1>5 DEF Publish
    <2> QED
      BY <1>2, <1>5, <2>1
  <1>6. ASSUME Admin \/ (\E attempt \in {1, MaxAttempts} : Trigger(attempt)) \/ UNCHANGED vars
        PROVE  job' = job
    BY <1>6 DEF Admin, AddReads, AddWrites, RemoveSource, PutConfig, Trigger, vars
  <1>7. ASSUME NEW w \in Runners, RunTimeout(w) PROVE job' = job
    BY <1>7 DEF RunTimeout
  <1>8. ASSUME NEW w \in Workers, JobTimeout(w) PROVE job'[v] = job[v] \/ JobTimeout(v)
    BY <1>8, OutlivedJob
  <1> QED
    BY <1>1, <1>3, <1>4, <1>5, <1>6, <1>7, <1>8 DEF Next, JobStep

\* Only Publish posts a section.
LEMMA SectionsMove ==
  ASSUME [Next]_vars
  PROVE  sections' = sections \/ \E w \in Workers : Publish(w)
  <1> USE DEF bounded, history
  <1>1. ASSUME NEW w \in Runners, (\E m \in queue : StartRun(w, m)) \/ RunStep(w) \/ RunFault(w)
        PROVE  sections' = sections
    BY <1>1 DEF StartRun, RunStep, RunFault, ReadList, PostHeader, SkipGroup, Send, SendFails,
                SendCrashes, Beat, RunFails, HeaderUnconfirmed
  <1>2. ASSUME NEW w \in Workers, (\E m \in queue : Begin(w, m)) \/ JobStep(w) \/ JobFails(w)
        PROVE  sections' = sections \/ Publish(w)
    BY <1>2 DEF Begin, JobStep, Quiet, NoChannel, WriteCursor, JobFails
  <1>3. ASSUME Admin \/ (\E attempt \in {1, MaxAttempts} : Trigger(attempt)) \/ UNCHANGED vars
        PROVE  sections' = sections
    BY <1>3 DEF Admin, AddReads, AddWrites, RemoveSource, PutConfig, Trigger, vars
  <1>4. ASSUME (\E w \in Runners : RunTimeout(w)) \/ (\E w \in Workers : JobTimeout(w))
        PROVE  sections' = sections
    BY <1>4 DEF RunTimeout, JobTimeout
  <1> QED
    BY <1>1, <1>2, <1>3, <1>4 DEF Next

\* What the writes make of a document.
LEMMA AddedFields ==
  ASSUME NEW s \in Sources, NEW doc \in Document, NEW g \in Groups, NEW found \in BOOLEAN
  PROVE  LET d == Added(s, doc, g, found) IN
         /\ d.stored /\ d.enabled /\ d.group = g
         /\ s \in Publications \union Repos => d.cursor = (found => doc.cursor)
  <1>1. CASE found \/ s \in Installations
    <2> DEFINE named == doc.named \/ s \in Installations
    <2>1. Added(s, doc, g, found)
            = [doc EXCEPT !.stored = TRUE, !.enabled = TRUE, !.group = g, !.named = named]
      BY <1>1 DEF Added
    <2> HIDE DEF named
    <2>2. Added(s, doc, g, found).cursor = doc.cursor /\ doc.cursor \in BOOLEAN
      BY <2>1 DEF Document
    <2>3. s \in Publications \union Repos => found
      BY <1>1
    <2> QED
      BY <2>1, <2>2, <2>3 DEF Document
  <1>2. CASE ~(found \/ s \in Installations)
    BY <1>2 DEF Added
  <1> QED
    BY <1>1, <1>2

LEMMA FirstAddedFields ==
  ASSUME NEW s \in Sources, NEW g \in Groups
  PROVE  LET d == Added(s, Missing, g, FALSE) IN
         /\ d.stored /\ d.group = g
         /\ s \in Publications \union Repos => d.cursor
  <1>1. CASE s \in Installations
    <2> DEFINE named == Missing.named \/ s \in Installations
    <2>1. Added(s, Missing, g, FALSE)
            = [Missing EXCEPT !.stored = TRUE, !.enabled = TRUE, !.group = g, !.named = named]
      BY <1>1 DEF Added
    <2> HIDE DEF named
    <2>2. Added(s, Missing, g, FALSE).stored /\ Added(s, Missing, g, FALSE).group = g
      BY <2>1, MissingTyped DEF Document
    <2>3. s \notin Publications \union Repos
      BY <1>1
    <2> QED
      BY <2>2, <2>3
  <1>2. CASE s \notin Installations
    BY <1>2 DEF Added
  <1> QED
    BY <1>1, <1>2

LEMMA RemovedFields ==
  ASSUME NEW s \in Sources, NEW doc \in Document
  PROVE  LET d == Removed(s, doc) IN
         /\ ~d.enabled
         /\ s \notin Installations => ~d.stored /\ d.group = DEFAULT_GROUP
  BY DEF Removed, Missing, Document

LEMMA CursorSetFields ==
  ASSUME NEW doc \in Document
  PROVE  LET d == CursorSet(doc) IN
         d.stored /\ d.cursor /\ d.enabled = doc.enabled /\ d.group = doc.group
  BY DEF CursorSet, Document

-----------------------------------------------------------------------------
(***************************************************************************)
(* Only admins enable.                                                     *)
(***************************************************************************)

\* Only an admin enables a document: a handler that merges a cursor into a
\* document removed meanwhile brings it back, but never into the lists.
THEOREM AdminsEnable == Spec => OnlyAdminsEnable
  <1> DEFINE Enables == \A s \in Sources :
               ~docs[s].enabled /\ docs'[s].enabled => \E a \in adds : a.source = s /\ AddWrites(a)
  <1>1. Typed /\ [Next]_vars => [Enables]_vars
    <2> SUFFICES ASSUME Typed, [Next]_vars, NEW s \in Sources,
                        ~docs[s].enabled, docs'[s].enabled
                 PROVE  \E a \in adds : a.source = s /\ AddWrites(a)
      OBVIOUS
    <2>1. docs \in [Sources -> Document]
      BY DEF Typed, TypeOK
    <2>2. ASSUME NEW a \in adds, AddWrites(a) PROVE a.source = s
      BY <2>1, <2>2 DEF AddWrites
    <2>3. ASSUME NEW t \in Sources, RemoveSource(t) PROVE FALSE
      BY <2>1, <2>3, RemovedFields DEF RemoveSource
    <2>4. ASSUME NEW w \in Workers, WriteCursor(w) PROVE FALSE
      <3>1. job[w].task \in Sources
        BY <2>4 DEF WriteCursor, Typed, Busy
      <3> QED
        BY <2>1, <2>4, <3>1, CursorSetFields DEF WriteCursor
    <2>5. (\E t \in Sources, g \in Groups : AddReads(t, g)) => docs' = docs
      BY DEF AddReads
    <2> QED
      BY <2>2, <2>3, <2>4, <2>5, DocsMove
  <1> QED
    BY <1>1, TypedHolds, PTL DEF Spec, OnlyAdminsEnable

-----------------------------------------------------------------------------
(***************************************************************************)
(* No back catalog.  The handlers' cursors come from documents, so the     *)
(* documents must keep theirs: a stored document of a publication or       *)
(* repository has a cursor, an enabled one is stored, and an addition that *)
(* found a document still has it to merge into, or the removal between its *)
(* two calls is recorded in torn.                                          *)
(***************************************************************************)
Fetched == Publications \union Repos

Keeps(s) ==
  /\ docs[s].stored => docs[s].cursor
  /\ docs[s].enabled => docs[s].stored
  /\ \A a \in adds : a.source = s /\ a.found => docs[s].stored

Kept == \A s \in Fetched \ torn : Keeps(s)

LEMMA KeptInit == Init => Kept
  <1> SUFFICES ASSUME Init, NEW s \in Fetched PROVE Keeps(s)
    BY DEF Kept
  <1>1. PICK g \in [Users -> Groups] :
          docs = [t \in Sources |->
                    Added(t, Missing, IF t \in Users THEN g[t] ELSE DEFAULT_GROUP, FALSE)]
    BY DEF Init
  <1>2. s \in Sources /\ s \notin Users
    BY DEF Fetched, Sources
  <1>3. docs[s] = Added(s, Missing, DEFAULT_GROUP, FALSE)
    BY <1>1, <1>2
  <1>4. docs[s].stored /\ docs[s].cursor
    BY <1>2, <1>3, GroupsAre, FirstAddedFields, ZenonT(60) DEF Fetched
  <1>5. adds = {}
    BY DEF Init
  <1> QED
    BY <1>4, <1>5 DEF Keeps

LEMMA KeptNext == Typed /\ Kept /\ [Next]_vars => Kept'
  <1> SUFFICES ASSUME Typed, Kept, [Next]_vars, NEW s \in Fetched, s \notin torn'
               PROVE  Keeps(s)'
    BY DEF Kept
  <1>1. s \in Sources /\ docs \in [Sources -> Document] /\ docs[s] \in Document
    BY DEF Fetched, Sources, Typed, TypeOK
  <1>2. s \notin torn => Keeps(s)
    BY DEF Kept
  <1>3. ASSUME NEW t \in Sources, NEW g \in Groups, AddReads(t, g) PROVE Keeps(s)'
    BY <1>2, <1>3 DEF AddReads, Keeps, history
  <1>4. ASSUME NEW a \in adds, AddWrites(a) PROVE Keeps(s)'
    <2>1. Keeps(s) /\ adds' \subseteq adds
      BY <1>2, <1>4 DEF AddWrites
    <2>2. CASE a.source = s
      <3>1. a.group \in Groups /\ a.found \in BOOLEAN
        BY DEF Typed, TypeOK, Addition
      <3>2. docs'[s] = Added(s, docs[s], a.group, a.found)
        BY <1>1, <1>4, <2>2 DEF AddWrites
      <3>3. docs'[s].stored /\ docs'[s].cursor = (a.found => docs[s].cursor)
        BY <1>1, <3>1, <3>2, AddedFields DEF Fetched
      <3>4. a.found => docs[s].cursor
        BY <2>1, <2>2 DEF Keeps
      <3> QED
        BY <3>3, <3>4 DEF Keeps
    <2>3. CASE a.source # s
      <3>1. docs'[s] = docs[s]
        BY <1>1, <1>4, <2>3 DEF AddWrites
      <3> QED
        BY <2>1, <3>1 DEF Keeps
    <2> QED
      BY <2>2, <2>3
  <1>5. ASSUME NEW t \in Sources, RemoveSource(t) PROVE Keeps(s)'
    <2>1. Keeps(s) /\ adds' = adds
      BY <1>2, <1>5 DEF RemoveSource
    <2>2. CASE t = s
      <3>1. docs'[s] = Removed(s, docs[s]) /\ s \notin Installations
        BY <1>1, <1>5, <2>2 DEF RemoveSource, Fetched
      <3>2. ~docs'[s].stored /\ ~docs'[s].enabled
        BY <1>1, <3>1, RemovedFields
      <3>3. ~ \E a \in adds : a.source = s /\ a.found
        BY <1>5, <2>2 DEF RemoveSource
      <3> QED
        BY <2>1, <3>2, <3>3 DEF Keeps
    <2>3. CASE t # s
      <3>1. docs'[s] = docs[s]
        BY <1>1, <1>5, <2>3 DEF RemoveSource
      <3> QED
        BY <2>1, <3>1 DEF Keeps
    <2> QED
      BY <2>2, <2>3
  <1>6. ASSUME NEW w \in Workers, WriteCursor(w) PROVE Keeps(s)'
    <2>1. Keeps(s) /\ adds' = adds
      BY <1>2, <1>6 DEF WriteCursor, history
    <2>2. docs'[s] = docs[s] \/ docs'[s] = CursorSet(docs[s])
      BY <1>1, <1>6 DEF WriteCursor
    <2>3. CASE docs'[s] = CursorSet(docs[s])
      <3>1. docs'[s].stored /\ docs'[s].cursor
        BY <1>1, <2>3, CursorSetFields
      <3> QED
        BY <3>1 DEF Keeps
    <2> QED
      BY <2>1, <2>2, <2>3 DEF Keeps
  <1>7. CASE UNCHANGED <<docs, adds, members, torn>>
    BY <1>2, <1>7 DEF Keeps
  <1> QED
    BY <1>3, <1>4, <1>5, <1>6, <1>7, DocsMove

LEMMA TornStays == ASSUME [Next]_vars PROVE torn \subseteq torn'
  BY DocsMove DEF AddReads, AddWrites, RemoveSource, WriteCursor, history

\* The document a handler begins with is served, so it is enabled and has kept
\* its cursor.
LEMMA CatalogNext == Typed /\ Kept /\ NoBackCatalog /\ [Next]_vars => NoBackCatalog'
  <1> SUFFICES ASSUME Typed, Kept, NoBackCatalog, [Next]_vars, NEW w \in Workers,
                      job'[w].pc # "idle", job'[w].task \in Fetched, job'[w].task \notin torn'
               PROVE  job'[w].since
    BY DEF NoBackCatalog, Fetched
  <1>1. job'[w].task \notin torn
    BY TornStays
  <1>2. CASE job'[w] = job[w]
    BY <1>1, <1>2 DEF NoBackCatalog, Fetched
  <1>3. CASE job'[w] = NoJob
    BY <1>3, NoJobFields
  <1>4. ASSUME NEW m \in queue, Begin(w, m) PROVE job'[w].since
    <2>1. job'[w] = BegunJob(m) /\ m.task # Digest
      BY <1>4 DEF Begin, BegunJob, JobBecomes, Typed, TypeOK
    <2>2. Served(m.task) /\ job'[w].task = m.task /\ job'[w].since = docs[m.task].cursor
      BY <2>1, BegunJobTyped
    <2>3. m.task \in Fetched \ torn /\ m.task \notin Users
      BY <1>1, <2>2 DEF Fetched
    <2>4. docs[m.task].enabled /\ Keeps(m.task)
      BY <2>2, <2>3 DEF Served, Kept
    <2> QED
      BY <2>2, <2>4 DEF Keeps
  <1>5. CASE Publish(w)
    <2>1. job'[w] = [job[w] EXCEPT !.pc = "write"] /\ job[w].pc = "post"
      BY <1>5 DEF Publish, JobBecomes, Typed, TypeOK
    <2>2. job'[w].task = job[w].task /\ job'[w].since = job[w].since
      BY <2>1, WritingJobTyped
    <2> QED
      BY <1>1, <2>1, <2>2 DEF NoBackCatalog, Fetched
  <1>6. CASE JobTimeout(w)
    <2>1. job[w].pc # "idle" /\ job'[w].task = job[w].task /\ job'[w].since = job[w].since
      BY <1>6, OutlivedJob
    <2> QED
      BY <1>1, <2>1 DEF NoBackCatalog, Fetched
  <1> QED
    BY <1>2, <1>3, <1>4, <1>5, <1>6, JobsMove

\* A publication or repository is never fetched from the beginning: whatever
\* was removed, re-added and merged meanwhile, its handler has a cursor, unless
\* a removal came between the two calls of an add.
THEOREM CatalogStaysBack == Spec => []NoBackCatalog
  <1>1. Init => NoBackCatalog
    BY NoJobFields DEF Init, NoBackCatalog
  <1> QED
    BY <1>1, KeptInit, KeptNext, CatalogNext, TypedHolds, PTL DEF Spec

-----------------------------------------------------------------------------
(***************************************************************************)
(* Sections in their channels.  members records every group a user was put *)
(* in, so it holds the group of each user's document, of each task that    *)
(* has read one, and of each section posted.                               *)
(***************************************************************************)
Membership ==
  /\ \A u \in Users : <<u, docs[u].group>> \in members
  /\ \A w \in Workers :
       job[w].pc # "idle" /\ job[w].task \in Users => <<job[w].task, job[w].group>> \in members
  /\ OwnChannel

LEMMA MembersStay == ASSUME [Next]_vars PROVE members \subseteq members'
  BY DocsMove DEF AddReads, AddWrites, RemoveSource, WriteCursor, history

LEMMA MembershipInit == Init => Membership
  <1> SUFFICES ASSUME Init PROVE Membership
    OBVIOUS
  <1>1. PICK g \in [Users -> Groups] :
          /\ docs = [s \in Sources |->
                       Added(s, Missing, IF s \in Users THEN g[s] ELSE DEFAULT_GROUP, FALSE)]
          /\ members = {<<u, g[u]>> : u \in Users}
    BY DEF Init
  <1>2. ASSUME NEW u \in Users PROVE <<u, docs[u].group>> \in members
    <2>1. u \in Sources /\ docs[u] = Added(u, Missing, g[u], FALSE)
      BY <1>1 DEF Sources
    <2>2. docs[u].group = g[u]
      BY <2>1, FirstAddedFields
    <2>3. <<u, g[u]>> \in members
      BY <1>1
    <2> QED
      BY <2>2, <2>3
  <1>3. OwnChannel
    BY DEF Init, OwnChannel
  <1>4. \A w \in Workers : job[w].pc = "idle"
    BY NoJobFields DEF Init
  <1> QED
    BY <1>2, <1>3, <1>4 DEF Membership

LEMMA MembershipNext == Typed /\ Membership /\ [Next]_vars => Membership'
  <1> SUFFICES ASSUME Typed, Membership, [Next]_vars PROVE Membership'
    OBVIOUS
  <1>1. members \subseteq members'
    BY MembersStay
  <1>2. ASSUME NEW u \in Users PROVE <<u, docs'[u].group>> \in members'
    <2>1. u \in Sources /\ docs \in [Sources -> Document] /\ docs[u] \in Document
      BY DEF Sources, Typed, TypeOK
    <2>2. CASE docs'[u].group = docs[u].group
      BY <1>1, <2>2 DEF Membership
    <2>3. ASSUME NEW s \in Sources, NEW g \in Groups, AddReads(s, g) PROVE docs' = docs
      BY <2>3 DEF AddReads
    <2>4. ASSUME NEW a \in adds, AddWrites(a), docs'[u].group # docs[u].group
          PROVE  <<u, docs'[u].group>> \in members'
      <3>1. a.source = u /\ docs'[u] = Added(u, docs[u], a.group, a.found)
        BY <2>1, <2>4 DEF AddWrites
      <3>2. docs'[u].group = a.group
        BY <2>1, <3>1, AddedFields DEF Typed, TypeOK, Addition
      <3> QED
        BY <2>4, <3>1, <3>2 DEF AddWrites
    <2>5. ASSUME NEW s \in Sources, RemoveSource(s), docs'[u].group # docs[u].group
          PROVE  <<u, docs'[u].group>> \in members'
      <3>1. s = u /\ docs'[u] = Removed(u, docs[u]) /\ u \notin Installations
        BY <2>1, <2>5 DEF RemoveSource
      <3>2. docs'[u].group = DEFAULT_GROUP
        BY <2>1, <3>1, RemovedFields
      <3> QED
        BY <2>5, <3>1, <3>2 DEF RemoveSource
    <2>6. ASSUME NEW w \in Workers, WriteCursor(w) PROVE docs'[u].group = docs[u].group
      <3>1. docs'[u] = docs[u] \/ docs'[u] = CursorSet(docs[u])
        BY <2>1, <2>6 DEF WriteCursor
      <3> QED
        BY <2>1, <3>1, CursorSetFields
    <2> QED
      BY <2>2, <2>3, <2>4, <2>5, <2>6, DocsMove
  <1>3. ASSUME NEW w \in Workers, job'[w].pc # "idle", job'[w].task \in Users
        PROVE  <<job'[w].task, job'[w].group>> \in members'
    <2>1. CASE job'[w] = job[w]
      BY <1>1, <1>3, <2>1 DEF Membership
    <2>2. CASE job'[w] = NoJob
      BY <1>3, <2>2, NoJobFields
    <2>3. ASSUME NEW m \in queue, Begin(w, m) PROVE <<job'[w].task, job'[w].group>> \in members
      <3>1. job'[w] = BegunJob(m) /\ m.task # Digest
        BY <2>3 DEF Begin, BegunJob, JobBecomes, Typed, TypeOK
      <3>2. job'[w].task = m.task /\ job'[w].group = docs[m.task].group
        BY <1>3, <3>1, BegunJobTyped
      <3> QED
        BY <1>3, <3>2 DEF Membership
    <2>4. CASE Publish(w)
      <3>1. job'[w] = [job[w] EXCEPT !.pc = "write"] /\ job[w].pc = "post"
        BY <2>4 DEF Publish, JobBecomes, Typed, TypeOK
      <3>2. job'[w].task = job[w].task /\ job'[w].group = job[w].group
        BY <3>1, WritingJobTyped
      <3> QED
        BY <1>1, <1>3, <3>1, <3>2 DEF Membership
    <2>5. CASE JobTimeout(w)
      <3>1. job[w].pc # "idle" /\ job'[w].task = job[w].task /\ job'[w].group = job[w].group
        BY <2>5, OutlivedJob
      <3> QED
        BY <1>1, <1>3, <3>1 DEF Membership
    <2> QED
      BY <1>1, <2>1, <2>2, <2>3, <2>4, <2>5, JobsMove
  <1>4. OwnChannel'
    <2>1. CASE sections' = sections
      BY <1>1, <2>1 DEF Membership, OwnChannel
    <2>2. ASSUME NEW w \in Workers, Publish(w) PROVE OwnChannel'
      <3>1. job[w].pc = "post" /\ sections' = sections \union {<<job[w].task, job[w].group>>}
        BY <2>2 DEF Publish
      <3> QED
        BY <1>1, <3>1 DEF Membership, OwnChannel
    <2> QED
      BY <2>1, <2>2, SectionsMove
  <1> QED
    BY <1>2, <1>3, <1>4 DEF Membership

\* A section of a user goes only to the channel of a group that an admin put
\* the user in, or of the default group if the user was removed before its task
\* ran, however moves, removals, retries and fan-outs interleave.
THEOREM SectionsInTheirChannel == Spec => []OwnChannel
  <1>1. Membership => OwnChannel
    BY DEF Membership
  <1> QED
    BY <1>1, MembershipInit, MembershipNext, TypedHolds, PTL DEF Spec

-----------------------------------------------------------------------------
(***************************************************************************)
(* What a step does to the runs.                                           *)
(***************************************************************************)
LEMMA OneRunMoves ==
  ASSUME Typed, NEW w \in Runners, NEW r, RunBecomes(w, r)
  PROVE  run'[w] = r /\ \A v \in Runners \ {w} : run'[v] = run[v]
  BY DEF RunBecomes, Typed, TypeOK

\* The steps that shorten the list of w.
Shortens(w) ==
  \/ \E g \in Groups : SkipGroup(w, g)
  \/ \E s \in Sources : Send(w, s) \/ SendFails(w, s)

\* The steps that end the run of w.
Ends(w) ==
  \/ Beat(w)
  \/ \E s \in Sources : SendCrashes(w, s)
  \/ RunFault(w)

LEMMA EndedRun ==
  ASSUME Typed, NEW w \in Runners, Ends(w)
  PROVE  run'[w] = NoRun /\ \A v \in Runners \ {w} : run'[v] = run[v]
  <1>1. RunBecomes(w, NoRun)
    BY DEF Ends, Beat, SendCrashes, RunFault, RunFails, HeaderUnconfirmed, RunRaises
  <1> QED
    BY <1>1, OneRunMoves

\* The run is left with these lists, and whoever is on none of them any more is
\* a user of a group without a channel.
Leaves(w, todo, sent, failed) ==
  /\ RunBecomes(w, [run[w] EXCEPT !.todo = todo, !.sent = sent, !.failed = failed])
  /\ \A s \in run[w].todo \union run[w].sent \union run[w].failed :
       \/ s \in todo \union sent \union failed
       \/ s \in Users /\ run[w].group[s] \notin run[w].channels

LEMMA ShortenedRun ==
  ASSUME Typed, NEW w \in Runners, Shortens(w)
  PROVE  /\ run[w].pc = "send"
         /\ run'[w].pc = "send" /\ run'[w].unread = run[w].unread
         /\ run'[w].headed = run[w].headed /\ run'[w].steady = run[w].steady
         /\ run'[w].group = run[w].group /\ run'[w].channels = run[w].channels
         /\ \A s \in run[w].todo \union run[w].sent \union run[w].failed :
              \/ s \in run'[w].todo \union run'[w].sent \union run'[w].failed
              \/ s \in Users /\ run[w].group[s] \notin run[w].channels
         /\ \A v \in Runners \ {w} : run'[v] = run[v]
  <1>1. /\ run[w].todo \in SUBSET Sources
        /\ run[w].sent \in SUBSET Sources /\ run[w].failed \in SUBSET Sources
    BY DEF Typed, TypeOK, Run
  <1>2. run[w].pc = "send"
    BY DEF Shortens, SkipGroup, Unheaded, Send, SendFails, Ready
  <1>3. PICK todo \in SUBSET run[w].todo, sent \in SUBSET Sources, failed \in SUBSET Sources :
          Leaves(w, todo, sent, failed)
    <2>1. ASSUME NEW g \in Groups, SkipGroup(w, g) PROVE \E todo \in SUBSET run[w].todo, sent \in SUBSET Sources,
                       failed \in SUBSET Sources : Leaves(w, todo, sent, failed)
      <3> DEFINE todo1 == {s \in run[w].todo : s \in Users => run[w].group[s] # g}
      <3>1. RunBecomes(w, [run[w] EXCEPT !.todo = todo1, !.sent = run[w].sent, !.failed = run[w].failed])
        BY <2>1, SkippedRun
      <3>2. \A t \in run[w].todo \union run[w].sent \union run[w].failed :
               \/ t \in todo1 \union run[w].sent \union run[w].failed
               \/ t \in Users /\ run[w].group[t] \notin run[w].channels
        BY <2>1 DEF SkipGroup
      <3>3. todo1 \in SUBSET run[w].todo /\ run[w].sent \in SUBSET Sources /\ run[w].failed \in SUBSET Sources
        BY <1>1
      <3> HIDE DEF todo1
      <3>4. Leaves(w, todo1, run[w].sent, run[w].failed)
        BY <3>1, <3>2 DEF Leaves
      <3> QED
        BY <3>3, <3>4
    <2>2. ASSUME NEW s \in Sources, Send(w, s) PROVE \E todo \in SUBSET run[w].todo, sent \in SUBSET Sources,
                       failed \in SUBSET Sources : Leaves(w, todo, sent, failed)
      <3> DEFINE todo1 == run[w].todo \ {s}
                 sent1 == run[w].sent \union {s}
      <3>1. RunBecomes(w, [run[w] EXCEPT !.todo = todo1, !.sent = sent1, !.failed = run[w].failed])
        BY <2>2, SentRun
      <3>2. \A t \in run[w].todo \union run[w].sent \union run[w].failed :
               \/ t \in todo1 \union sent1 \union run[w].failed
               \/ t \in Users /\ run[w].group[t] \notin run[w].channels
        OBVIOUS
      <3>3. todo1 \in SUBSET run[w].todo /\ sent1 \in SUBSET Sources /\ run[w].failed \in SUBSET Sources
        BY <1>1
      <3> HIDE DEF todo1, sent1
      <3>4. Leaves(w, todo1, sent1, run[w].failed)
        BY <3>1, <3>2 DEF Leaves
      <3> QED
        BY <3>3, <3>4
    <2>3. ASSUME NEW s \in Sources, SendFails(w, s) PROVE \E todo \in SUBSET run[w].todo, sent \in SUBSET Sources,
                       failed \in SUBSET Sources : Leaves(w, todo, sent, failed)
      <3> DEFINE todo1 == run[w].todo \ {s}
                 failed1 == run[w].failed \union {s}
      <3>1. RunBecomes(w, [run[w] EXCEPT !.todo = todo1, !.sent = run[w].sent, !.failed = failed1])
        BY <2>3, FailedRun
      <3>2. \A t \in run[w].todo \union run[w].sent \union run[w].failed :
               \/ t \in todo1 \union run[w].sent \union failed1
               \/ t \in Users /\ run[w].group[t] \notin run[w].channels
        OBVIOUS
      <3>3. todo1 \in SUBSET run[w].todo /\ run[w].sent \in SUBSET Sources /\ failed1 \in SUBSET Sources
        BY <1>1
      <3> HIDE DEF todo1, failed1
      <3>4. Leaves(w, todo1, run[w].sent, failed1)
        BY <3>1, <3>2 DEF Leaves
      <3> QED
        BY <3>3, <3>4
    <2> QED
      BY <2>1, <2>2, <2>3 DEF Shortens
  <1> DEFINE r == [run[w] EXCEPT !.todo = todo, !.sent = sent, !.failed = failed]
  <1>4. run'[w] = r /\ \A v \in Runners \ {w} : run'[v] = run[v]
    BY <1>3, OneRunMoves DEF Leaves
  <1>5. /\ r.todo = todo /\ r.sent = sent /\ r.failed = failed
        /\ r.pc = run[w].pc /\ r.unread = run[w].unread
        /\ r.headed = run[w].headed /\ r.steady = run[w].steady
        /\ r.group = run[w].group /\ r.channels = run[w].channels
    <2>1. run[w] \in Run
      BY DEF Typed, TypeOK
    <2> QED
      BY <2>1 DEF Run
  <1> HIDE DEF r
  <1> QED
    BY <1>2, <1>3, <1>4, <1>5 DEF Leaves

LEMMA RunsMove ==
  ASSUME [Next]_vars
  PROVE  \/ \E w \in Runners :
              \/ \E m \in queue : StartRun(w, m)
              \/ \E i \in DOMAIN Lists : ReadList(w, i)
              \/ \E g \in Groups : PostHeader(w, g)
              \/ Shortens(w)
              \/ Ends(w)
              \/ RunTimeout(w)
         \/ \E s \in Sources : RemoveSource(s)
         \/ UNCHANGED <<run, headers, beats>>
  <1> USE DEF bounded, history
  <1>1. ASSUME NEW w \in Runners, RunStep(w) \/ RunFault(w)
        PROVE  \/ \E i \in DOMAIN Lists : ReadList(w, i)
               \/ \E g \in Groups : PostHeader(w, g)
               \/ Shortens(w)
               \/ Ends(w)
    BY <1>1 DEF RunStep, Shortens, Ends
  <1>2. ASSUME NEW w \in Workers, (\E m \in queue : Begin(w, m)) \/ JobStep(w) \/ JobFails(w)
        PROVE  UNCHANGED <<run, headers, beats>>
    BY <1>2 DEF Begin, JobStep, Quiet, Publish, NoChannel, WriteCursor, JobFails
  <1>3. ASSUME Admin PROVE (\E s \in Sources : RemoveSource(s)) \/ UNCHANGED <<run, headers, beats>>
    BY <1>3 DEF Admin, AddReads, AddWrites, PutConfig
  <1>4. ASSUME (\E attempt \in {1, MaxAttempts} : Trigger(attempt)) \/ UNCHANGED vars
        PROVE  UNCHANGED <<run, headers, beats>>
    BY <1>4 DEF Trigger, vars
  <1>5. ASSUME NEW w \in Workers, JobTimeout(w) PROVE UNCHANGED <<run, headers, beats>>
    BY <1>5 DEF JobTimeout
  <1> QED
    BY <1>1, <1>2, <1>3, <1>4, <1>5 DEF Next

-----------------------------------------------------------------------------
(***************************************************************************)
(* Nobody is forgotten.  While lists are still unread a steady source may  *)
(* be in none of those already read, so the invariant follows it: it is    *)
(* enabled, and either its list is still to be read, or the run has it.    *)
(***************************************************************************)
Listed(r, s) ==
  \/ \E name \in r.unread : s \in Collection(name)
  \/ s \in r.todo \union r.sent \union r.failed
  \/ s \in Users /\ r.group[s] \notin r.channels

AllLists == {"users", "publications", "repos", "installations"}

Listing(w) ==
  /\ \A s \in run[w].steady : docs[s].enabled /\ Listed(run[w], s)
  /\ run[w].pc = "send" => run[w].unread = {}

LEMMA ListingInit == Init => \A w \in Runners : Listing(w)
  BY NoRunFields DEF Init, Listing

LEMMA EveryCollection ==
  ASSUME NEW s \in Sources
  PROVE  \E name \in AllLists : s \in Collection(name)
  BY CollectionsAre DEF AllLists, Sources

\* Documents stay enabled until they are removed, and then they are no longer
\* steady.
LEMMA EnabledStays ==
  ASSUME Typed, [Next]_vars, NEW s \in Sources, docs[s].enabled
  PROVE  docs'[s].enabled \/ RemoveSource(s)
  <1>1. docs \in [Sources -> Document] /\ docs[s] \in Document
    BY DEF Typed, TypeOK
  <1>2. ASSUME NEW a \in adds, AddWrites(a) PROVE docs'[s].enabled
    <2>1. CASE a.source = s
      <3>1. a.group \in Groups /\ a.found \in BOOLEAN
        BY DEF Typed, TypeOK, Addition
      <3>2. docs'[s] = Added(s, docs[s], a.group, a.found)
        BY <1>1, <1>2, <2>1 DEF AddWrites
      <3> QED
        BY <1>1, <3>1, <3>2, AddedFields
    <2>2. CASE a.source # s
      BY <1>1, <1>2, <2>2 DEF AddWrites
    <2> QED
      BY <2>1, <2>2
  <1>3. ASSUME NEW t \in Sources, RemoveSource(t) PROVE docs'[s].enabled \/ RemoveSource(s)
    BY <1>1, <1>3 DEF RemoveSource
  <1>4. ASSUME NEW w \in Workers, WriteCursor(w) PROVE docs'[s].enabled
    <2>1. docs'[s] = docs[s] \/ docs'[s] = CursorSet(docs[s])
      BY <1>1, <1>4 DEF WriteCursor
    <2> QED
      BY <1>1, <2>1, CursorSetFields
  <1>5. (\E t \in Sources, g \in Groups : AddReads(t, g)) => docs' = docs
    BY DEF AddReads
  <1> QED
    BY <1>2, <1>3, <1>4, <1>5, DocsMove

\* The steps of runners leave the documents alone.
LEMMA RunnersLeaveDocs ==
  ASSUME NEW w \in Runners,
         \/ \E m \in queue : StartRun(w, m)
         \/ \E i \in DOMAIN Lists : ReadList(w, i)
         \/ \E g \in Groups : PostHeader(w, g)
         \/ Shortens(w)
         \/ Ends(w)
  PROVE  docs' = docs
  BY DEF StartRun, ReadList, PostHeader, Shortens, SkipGroup, Send, SendFails, Ends, Beat,
         SendCrashes, RunFault, RunFails, HeaderUnconfirmed

LEMMA ListingRead ==
  ASSUME Typed, NEW w \in Runners, Listing(w), NEW i \in DOMAIN Lists, ReadList(w, i)
  PROVE  Listing(w)'
  <1>1. run'[w] = ReadRun(w, i)
    BY OneRunMoves DEF ReadList, ReadRun
  <1>2. docs' = docs
    BY DEF ReadList
  <1> DEFINE r == run'[w]
  <1>3. /\ r.pc = IF run[w].unread = {Lists[i]} THEN "send" ELSE "read"
        /\ r.unread = run[w].unread \ {Lists[i]}
        /\ r.todo = run[w].todo \union Enabled(Collection(Lists[i]))
        /\ i # 1 => r.group = run[w].group
        /\ r.channels = run[w].channels
        /\ r.sent = run[w].sent /\ r.failed = run[w].failed /\ r.steady = run[w].steady
    BY <1>1, ReadRunTyped
  <1>4. ASSUME NEW s \in r.steady PROVE docs'[s].enabled /\ Listed(r, s)
    <2>1. docs[s].enabled /\ Listed(run[w], s) /\ s \in Sources
      BY <1>3, <1>4 DEF Listing, Typed, TypeOK, Run
    <2>2. CASE s \in Collection(Lists[i])
      BY <1>2, <1>3, <2>1, <2>2 DEF Enabled, Listed
    <2>3. CASE s \notin Collection(Lists[i])
      <3>1. s \in Users => i # 1
        BY <2>3, ListsAre, CollectionsAre
      <3> QED
        BY <1>2, <1>3, <2>1, <2>3, <3>1 DEF Listed
    <2> QED
      BY <2>2, <2>3
  <1>5. (r.pc = "send" => r.unread = {}) /\ r.pc # "idle"
    BY <1>3
  <1> QED
    BY <1>4, <1>5 DEF Listing

LEMMA ListingNext ==
  ASSUME Typed, [Next]_vars, NEW w \in Runners, Listing(w)
  PROVE  Listing(w)'
  <1>1. CASE run'[w] = run[w] /\ ~\E s \in Sources : RemoveSource(s)
    <2>1. \A s \in run[w].steady : s \in Sources
      BY DEF Typed, TypeOK, Run
    <2> QED
      BY <1>1, <2>1, EnabledStays DEF Listing
  <1>2. ASSUME NEW s \in Sources, RemoveSource(s) PROVE Listing(w)'
    <2>1. run' = [v \in Runners |-> [run[v] EXCEPT !.steady = @ \ {s}]]
      BY <1>2 DEF RemoveSource
    <2>2. /\ run'[w].steady = run[w].steady \ {s} /\ run'[w].pc = run[w].pc
          /\ run'[w].unread = run[w].unread /\ run'[w].todo = run[w].todo
          /\ run'[w].sent = run[w].sent /\ run'[w].failed = run[w].failed
          /\ run'[w].headed = run[w].headed /\ run'[w].group = run[w].group
          /\ run'[w].channels = run[w].channels
      BY <2>1, UnsteadyTyped
    <2>3. ASSUME NEW t \in run'[w].steady PROVE docs'[t].enabled
      BY <1>2, <2>2, <2>3 DEF Listing, RemoveSource, Typed, TypeOK, Run
    <2> QED
      BY <2>2, <2>3 DEF Listing, Listed
  <1>3. ASSUME NEW m \in queue, StartRun(w, m) PROVE Listing(w)'
    <2>1. run'[w] = StartedRun(m) /\ docs' = docs
      BY <1>3, OneRunMoves DEF StartRun, StartedRun
    <2>2. run'[w].pc = "read" /\ run'[w].unread = AllLists /\ run'[w].steady = Enabled(Sources)
      BY <2>1, StartedRunTyped DEF AllLists
    <2>3. \A s \in run'[w].steady : docs'[s].enabled /\ Listed(run'[w], s)
      BY <2>1, <2>2, EveryCollection DEF Enabled, Listed
    <2> QED
      BY <2>2, <2>3 DEF Listing
  <1>4. ASSUME NEW i \in DOMAIN Lists, ReadList(w, i) PROVE Listing(w)'
    BY <1>4, ListingRead
  <1>5. ASSUME NEW g \in Groups, PostHeader(w, g) PROVE Listing(w)'
    <2>1. run'[w] = [run[w] EXCEPT !.headed = @ \union {g}] /\ docs' = docs /\ run[w].pc = "send"
      BY <1>5, OneRunMoves DEF PostHeader, Unheaded
    <2>2. /\ run'[w].pc = run[w].pc /\ run'[w].unread = run[w].unread /\ run'[w].todo = run[w].todo
          /\ run'[w].sent = run[w].sent /\ run'[w].failed = run[w].failed
          /\ run'[w].steady = run[w].steady /\ run'[w].group = run[w].group
          /\ run'[w].channels = run[w].channels
      BY <2>1, HeadedRunTyped
    <2> QED
      BY <2>1, <2>2 DEF Listing, Listed
  <1>6. CASE Shortens(w)
    <2>1. docs' = docs
      BY <1>6, RunnersLeaveDocs
    <2> QED
      BY <1>6, <2>1, ShortenedRun DEF Listing, Listed
  <1>7. CASE Ends(w)
    <2>1. run'[w] = NoRun
      BY <1>7, EndedRun
    <2> QED
      BY <2>1, NoRunFields DEF Listing
  <1>8. ASSUME NEW v \in Runners, v # w,
               \/ \E m \in queue : StartRun(v, m)
               \/ \E i \in DOMAIN Lists : ReadList(v, i)
               \/ \E g \in Groups : PostHeader(v, g)
        PROVE  run'[w] = run[w]
    <2>1. \E r : RunBecomes(v, r)
      BY <1>8 DEF StartRun, ReadList, PostHeader
    <2> QED
      BY <1>8, <2>1, OneRunMoves
  <1>9. ASSUME NEW v \in Runners, v # w, Shortens(v) \/ Ends(v) PROVE run'[w] = run[w]
    BY <1>9, ShortenedRun, EndedRun
  <1>10. CASE RunTimeout(w)
    <2>1. docs' = docs
      BY <1>10 DEF RunTimeout
    <2> QED
      BY <1>10, <2>1, OutlivedRun DEF Listing, Listed
  <1>11. ASSUME NEW v \in Runners, v # w, RunTimeout(v) PROVE run'[w] = run[w]
    BY <1>11, OutlivedRun
  <1> QED
    BY <1>1, <1>2, <1>3, <1>4, <1>5, <1>6, <1>7, <1>8, <1>9, <1>10, <1>11, RunsMove

LEMMA ListingHolds == Spec => [](\A w \in Runners : Listing(w))
  <1>1. Typed /\ (\A w \in Runners : Listing(w)) /\ [Next]_vars => (\A w \in Runners : Listing(w))'
    BY ListingNext
  <1> QED
    BY <1>1, ListingInit, TypedHolds, PTL DEF Spec

\* A run that reaches its end has tried to enqueue every source that stayed
\* enabled since it started, whatever failed for other sources, unless it is
\* a user whose group has no channel.
THEOREM NobodyIsForgotten == Spec => []NobodyForgotten
  <1>1. (\A w \in Runners : Listing(w)) => NobodyForgotten
    BY DEF Listing, Listed, NobodyForgotten
  <1> QED
    BY <1>1, ListingHolds, PTL

-----------------------------------------------------------------------------
(***************************************************************************)
(* Headers.  A header of group g is still to come from every digest that   *)
(* waits in the queue and from every run that has not posted it, so these  *)
(* are counted with the headers posted: what asks for a digest again, a    *)
(* trigger, a failed call or a crash, is what may add one.                 *)
(***************************************************************************)
Waiting    == {m \in queue : m.task = Digest}
Lacking(g) == {w \in Runners : run[w].pc # "idle" /\ g \notin run[w].headed}

HeadersDue(g) ==
  /\ IsFiniteSet(Waiting) /\ IsFiniteSet(Lacking(g))
  /\ headers[g] + Cardinality(Waiting) + Cardinality(Lacking(g)) <= triggers + faults + crashes

\* The numbers of the invariant, as arithmetic reads them.
LEMMA Numbers ==
  ASSUME Typed, NEW g \in Groups
  PROVE  headers[g] \in Nat /\ triggers \in Nat /\ faults \in Nat /\ crashes \in Nat
  BY DEF Typed, TypeOK

LEMMA NumbersNext ==
  ASSUME Typed, [Next]_vars, NEW g \in Groups
  PROVE  headers'[g] \in Nat /\ triggers' \in Nat /\ faults' \in Nat /\ crashes' \in Nat
  BY TypedNext DEF Typed, TypeOK

LEMMA HeadersDueInit == ASSUME Init, NEW g \in Groups PROVE HeadersDue(g)
  <1>1. Waiting = {} /\ Lacking(g) = {}
    BY NoRunFields DEF Init, Waiting, Lacking
  <1>2. headers[g] = 0 /\ triggers = 0 /\ faults = 0 /\ crashes = 0
    BY DEF Init
  <1> QED
    BY <1>1, <1>2, Nobody DEF HeadersDue

\* What a job leaves in the queue is no digest, nor is what a run enqueues.
LEMMA WaitingStays ==
  ASSUME Typed, NEW task \in Sources, NEW attempt \in 0 .. MaxAttempts,
         \/ queue' \subseteq queue
         \/ queue' = queue \union Redelivered(task, attempt)
         \/ queue' = queue \union {[task |-> task, attempt |-> 1]}
  PROVE  Waiting' \subseteq Waiting
  <1>1. task # Digest
    OBVIOUS
  <1>2. \A m \in Redelivered(task, attempt) : m.task = task
    BY RedeliveredTyped
  <1> QED
    BY <1>1, <1>2 DEF Waiting

\* At most one digest is added to those that wait.
LEMMA WaitingGrows ==
  ASSUME IsFiniteSet(Waiting), NEW m, queue' \subseteq queue \union {m}
  PROVE  /\ IsFiniteSet(Waiting')
         /\ Cardinality(Waiting) \in Nat /\ Cardinality(Waiting') \in Nat
         /\ Cardinality(Waiting') <= Cardinality(Waiting) + 1
  <1>1. Waiting' \in SUBSET (Waiting \union {m})
    BY DEF Waiting
  <1> QED
    BY <1>1, OneJoins

\* A step that posts no header, asks for no digest and starts no run.
LEMMA HeadersDueQuiet ==
  ASSUME Typed, [Next]_vars, NEW g \in Groups, HeadersDue(g), headers'[g] = headers[g],
         triggers' >= triggers, faults' >= faults, crashes' >= crashes,
         Waiting' \subseteq Waiting, Lacking(g)' \subseteq Lacking(g)
  PROVE  HeadersDue(g)'
  <1>1. /\ IsFiniteSet(Waiting') /\ Cardinality(Waiting) \in Nat /\ Cardinality(Waiting') \in Nat
        /\ Cardinality(Waiting') <= Cardinality(Waiting)
    BY Part DEF HeadersDue
  <1>2. /\ IsFiniteSet(Lacking(g)')
        /\ Cardinality(Lacking(g)) \in Nat /\ Cardinality(Lacking(g)') \in Nat
        /\ Cardinality(Lacking(g)') <= Cardinality(Lacking(g))
    BY Part DEF HeadersDue
  <1> QED
    BY <1>1, <1>2, Numbers, NumbersNext DEF HeadersDue

\* A digest that starts is waiting no more; its run lacks the header.
LEMMA HeadersDueStart ==
  ASSUME Typed, [Next]_vars, NEW g \in Groups, HeadersDue(g),
         NEW w \in Runners, NEW m \in queue, StartRun(w, m)
  PROVE  HeadersDue(g)'
  <1>1. /\ queue' = queue \ {m} /\ m.task = Digest
        /\ headers' = headers /\ triggers' = triggers /\ faults' = faults /\ crashes' = crashes
    BY DEF StartRun, bounded, history
  <1>2. Waiting' \in SUBSET (Waiting \ {m}) /\ m \in Waiting
    BY <1>1 DEF Waiting
  <1>3. /\ IsFiniteSet(Waiting') /\ Cardinality(Waiting) \in Nat /\ Cardinality(Waiting') \in Nat
        /\ Cardinality(Waiting') + 1 <= Cardinality(Waiting)
    BY <1>2, OneLeaves DEF HeadersDue
  <1>4. \A v \in Runners \ {w} : run'[v] = run[v]
    BY OneRunMoves DEF StartRun
  <1>5. /\ IsFiniteSet(Lacking(g)')
        /\ Cardinality(Lacking(g)) \in Nat /\ Cardinality(Lacking(g)') \in Nat
        /\ Cardinality(Lacking(g)') <= Cardinality(Lacking(g)) + 1
    <2>1. Lacking(g)' \in SUBSET (Lacking(g) \union {w})
      BY <1>4 DEF Lacking
    <2> QED
      BY <2>1, OneJoins DEF HeadersDue
  <1> QED
    BY <1>1, <1>3, <1>5, Numbers DEF HeadersDue

\* A header that is posted is lacking no more.
LEMMA HeadersDuePost ==
  ASSUME Typed, [Next]_vars, NEW g \in Groups, HeadersDue(g),
         NEW w \in Runners, NEW h \in Groups, PostHeader(w, h)
  PROVE  HeadersDue(g)'
  <1>1. /\ queue' = queue /\ headers' = [headers EXCEPT ![h] = @ + 1]
        /\ triggers' = triggers /\ faults' = faults /\ crashes' = crashes
        /\ run[w].pc = "send" /\ h \notin run[w].headed
    BY DEF PostHeader, Unheaded, bounded
  <1>2. /\ run'[w] = [run[w] EXCEPT !.headed = @ \union {h}]
        /\ \A v \in Runners \ {w} : run'[v] = run[v]
    BY OneRunMoves DEF PostHeader
  <1>3. run'[w].headed = run[w].headed \union {h} /\ run'[w].pc = run[w].pc
    BY <1>2, HeadedRunTyped
  <1>4. Waiting' = Waiting
    BY <1>1 DEF Waiting
  <1>5. CASE h = g
    <2>1. Lacking(g)' \in SUBSET (Lacking(g) \ {w}) /\ w \in Lacking(g)
      BY <1>1, <1>2, <1>3, <1>5 DEF Lacking
    <2>2. /\ IsFiniteSet(Lacking(g)')
          /\ Cardinality(Lacking(g)) \in Nat /\ Cardinality(Lacking(g)') \in Nat
          /\ Cardinality(Lacking(g)') + 1 <= Cardinality(Lacking(g))
      BY <2>1, OneLeaves DEF HeadersDue
    <2>3. headers'[g] = headers[g] + 1
      BY <1>1, <1>5 DEF Typed, TypeOK
    <2>4. Cardinality(Waiting) \in Nat
      BY Part DEF HeadersDue
    <2> QED
      BY <1>1, <1>4, <2>2, <2>3, <2>4, Numbers DEF HeadersDue
  <1>6. CASE h # g
    <2>1. Lacking(g)' \subseteq Lacking(g)
      BY <1>1, <1>2, <1>3 DEF Lacking
    <2>2. headers'[g] = headers[g]
      BY <1>1, <1>6 DEF Typed, TypeOK
    <2> QED
      BY <1>1, <1>4, <2>1, <2>2, Numbers, HeadersDueQuiet
  <1> QED
    BY <1>5, <1>6

\* A run that ends with an error asks for at most one digest more.
LEMMA HeadersDueRaise ==
  ASSUME Typed, [Next]_vars, NEW g \in Groups, HeadersDue(g),
         NEW w \in Runners, (\E s \in Sources : SendCrashes(w, s)) \/ RunFault(w)
  PROVE  HeadersDue(g)'
  <1>1. RunRaises(w)
    BY DEF SendCrashes, RunFault, RunFails, HeaderUnconfirmed
  <1>2. run'[w] = NoRun /\ \A v \in Runners \ {w} : run'[v] = run[v]
    BY <1>1, OneRunMoves DEF RunRaises
  <1>3. Lacking(g)' \subseteq Lacking(g) /\ w \notin Lacking(g)'
    BY <1>2, NoRunFields DEF Lacking
  <1>4. /\ IsFiniteSet(Waiting') /\ Cardinality(Waiting) \in Nat /\ Cardinality(Waiting') \in Nat
        /\ Cardinality(Waiting') <= Cardinality(Waiting) + 1
    <2>1. queue' \subseteq queue \union {[task |-> Digest, attempt |-> run[w].attempt + 1]}
      BY <1>1 DEF RunRaises, Redelivered
    <2> QED
      BY <2>1, WaitingGrows DEF HeadersDue
  <1>5. /\ IsFiniteSet(Lacking(g)')
        /\ Cardinality(Lacking(g)) \in Nat /\ Cardinality(Lacking(g)') \in Nat
        /\ Cardinality(Lacking(g)') <= Cardinality(Lacking(g))
    BY <1>3, Part DEF HeadersDue
  <1>6. ASSUME NEW s \in Sources, SendCrashes(w, s) PROVE HeadersDue(g)'
    <2>1. /\ headers' = headers /\ triggers' = triggers /\ faults' = faults
          /\ crashes' = crashes + 1
      BY <1>6 DEF SendCrashes, bounded
    <2> QED
      BY <1>4, <1>5, <2>1, Numbers DEF HeadersDue
  <1>7. CASE RunFails(w)
    <2>1. /\ headers' = headers /\ triggers' = triggers /\ faults' = faults + 1
          /\ crashes' = crashes
      BY <1>7 DEF RunFails, Fault, history
    <2> QED
      BY <1>4, <1>5, <2>1, Numbers DEF HeadersDue
  <1>8. ASSUME NEW h \in Groups, HeaderUnconfirmed(w, h) PROVE HeadersDue(g)'
    <2>1. /\ headers' = [headers EXCEPT ![h] = @ + 1]
          /\ triggers' = triggers /\ faults' = faults + 1 /\ crashes' = crashes
          /\ run[w].pc = "send" /\ h \notin run[w].headed
      BY <1>8 DEF HeaderUnconfirmed, Unheaded, Fault
    <2>2. CASE h = g
      <3>1. Lacking(g)' \in SUBSET (Lacking(g) \ {w}) /\ w \in Lacking(g)
        BY <1>3, <2>1, <2>2 DEF Lacking
      <3>2. Cardinality(Lacking(g)') + 1 <= Cardinality(Lacking(g))
        BY <3>1, OneLeaves DEF HeadersDue
      <3>3. headers'[g] = headers[g] + 1
        BY <2>1, <2>2 DEF Typed, TypeOK
      <3> QED
        BY <1>4, <1>5, <2>1, <3>2, <3>3, Numbers DEF HeadersDue
    <2>3. CASE h # g
      <3>1. headers'[g] = headers[g]
        BY <2>1, <2>3 DEF Typed, TypeOK
      <3> QED
        BY <1>4, <1>5, <2>1, <3>1, Numbers DEF HeadersDue
    <2> QED
      BY <2>2, <2>3
  <1> QED
    BY <1>6, <1>7, <1>8 DEF RunFault

\* So does a run that outlives its deadline.
LEMMA HeadersDueTimeout ==
  ASSUME Typed, [Next]_vars, NEW g \in Groups, HeadersDue(g), NEW w \in Runners, RunTimeout(w)
  PROVE  HeadersDue(g)'
  <1>1. /\ queue' \subseteq queue \union {[task |-> Digest, attempt |-> run[w].attempt + 1]}
        /\ \A v \in Runners : run'[v].pc = run[v].pc /\ run'[v].headed = run[v].headed
    BY OutlivedRun
  <1>2. /\ IsFiniteSet(Waiting') /\ Cardinality(Waiting) \in Nat /\ Cardinality(Waiting') \in Nat
        /\ Cardinality(Waiting') <= Cardinality(Waiting) + 1
    BY <1>1, WaitingGrows DEF HeadersDue
  <1>3. Lacking(g)' = Lacking(g) /\ Cardinality(Lacking(g)) \in Nat
    BY <1>1, Part DEF Lacking, HeadersDue
  <1>4. headers' = headers /\ triggers' = triggers /\ faults' = faults + 1 /\ crashes' = crashes
    BY DEF RunTimeout, Fault, history
  <1> QED
    BY <1>2, <1>3, <1>4, Numbers DEF HeadersDue

\* A trigger asks for one.
LEMMA HeadersDueTrigger ==
  ASSUME Typed, [Next]_vars, NEW g \in Groups, HeadersDue(g), NEW attempt, Trigger(attempt)
  PROVE  HeadersDue(g)'
  <1>1. /\ queue' \subseteq queue \union {[task |-> Digest, attempt |-> attempt]}
        /\ headers' = headers /\ triggers' = triggers + 1 /\ faults' = faults
        /\ crashes' = crashes /\ run' = run
    BY DEF Trigger, history
  <1>2. /\ IsFiniteSet(Waiting') /\ Cardinality(Waiting) \in Nat /\ Cardinality(Waiting') \in Nat
        /\ Cardinality(Waiting') <= Cardinality(Waiting) + 1
    BY <1>1, WaitingGrows DEF HeadersDue
  <1>3. Lacking(g)' = Lacking(g) /\ Cardinality(Lacking(g)) \in Nat
    BY <1>1, Part DEF Lacking, HeadersDue
  <1> QED
    BY <1>1, <1>2, <1>3, Numbers DEF HeadersDue

LEMMA HeadersDueNext ==
  ASSUME Typed, [Next]_vars, NEW g \in Groups, HeadersDue(g)
  PROVE  HeadersDue(g)'
  <1> USE DEF bounded, history
  <1> DEFINE Costless == /\ headers'[g] = headers[g]
                         /\ triggers' >= triggers /\ faults' >= faults /\ crashes' >= crashes
             Calm     == Waiting' \subseteq Waiting /\ Lacking(g)' \subseteq Lacking(g)
  <1>1. Costless /\ Calm => HeadersDue(g)'
    BY HeadersDueQuiet
  <1>2. ASSUME NEW w \in Runners, (\E m \in queue : StartRun(w, m))
        PROVE  HeadersDue(g)'
    BY <1>2, HeadersDueStart
  <1>3. ASSUME NEW w \in Runners, NEW i \in DOMAIN Lists, ReadList(w, i) PROVE Costless /\ Calm
    <2>1. run[w].pc # "idle" /\ queue' = queue
      BY <1>3 DEF ReadList
    <2>2. run'[w] = ReadRun(w, i) /\ \A v \in Runners \ {w} : run'[v] = run[v]
      BY <1>3, OneRunMoves DEF ReadList, ReadRun
    <2>3. run'[w].headed = run[w].headed
      BY <2>2, ReadRunTyped
    <2>4. Calm
      BY <2>1, <2>2, <2>3 DEF Waiting, Lacking
    <2>5. Costless
      BY <1>3, Numbers DEF ReadList
    <2> QED
      BY <2>4, <2>5
  <1>4. ASSUME NEW w \in Runners, (\E h \in Groups : PostHeader(w, h)) PROVE HeadersDue(g)'
    BY <1>4, HeadersDuePost
  <1>5. ASSUME NEW w \in Runners, Shortens(w) PROVE Costless /\ Calm
    <2>1. Lacking(g)' \subseteq Lacking(g)
      BY <1>5, ShortenedRun DEF Lacking
    <2>2. Waiting' \subseteq Waiting
      <3>1. \/ queue' = queue
            \/ \E s \in Sources : queue' = queue \union {[task |-> s, attempt |-> 1]}
        BY <1>5 DEF Shortens, SkipGroup, Send, SendFails
      <3> QED
        BY <3>1 DEF Waiting
    <2>3. Costless
      <3>1. UNCHANGED <<headers, triggers, faults, crashes>>
        BY <1>5 DEF Shortens, SkipGroup, Send, SendFails
      <3> QED
        BY <3>1, Numbers
    <2> QED
      BY <2>1, <2>2, <2>3
  <1>6. ASSUME NEW w \in Runners, Beat(w) PROVE Costless /\ Calm
    <2>1. run'[w] = NoRun /\ \A v \in Runners \ {w} : run'[v] = run[v]
      BY <1>6, OneRunMoves DEF Beat
    <2>2. Calm
      BY <1>6, <2>1, NoRunFields DEF Beat, Waiting, Lacking
    <2>3. Costless
      BY <1>6, Numbers DEF Beat
    <2> QED
      BY <2>2, <2>3
  <1>7. ASSUME NEW w \in Runners, (\E s \in Sources : SendCrashes(w, s)) \/ RunFault(w)
        PROVE  HeadersDue(g)'
    BY <1>7, HeadersDueRaise
  <1>8. ASSUME NEW s \in Sources, RemoveSource(s) PROVE Costless /\ Calm
    <2>1. run' = [v \in Runners |-> [run[v] EXCEPT !.steady = @ \ {s}]]
      BY <1>8 DEF RemoveSource
    <2>2. Calm
      BY <1>8, <2>1, UnsteadyTyped DEF RemoveSource, Waiting, Lacking
    <2>3. Costless
      BY <1>8, Numbers DEF RemoveSource
    <2> QED
      BY <2>2, <2>3
  <1>9. ASSUME NEW w \in Workers, (\E m \in queue : Begin(w, m)) \/ JobStep(w) \/ JobFails(w)
        PROVE  Costless /\ Calm
    <2>1. Costless /\ run' = run
      <3>1. /\ UNCHANGED <<headers, triggers, crashes, run>>
            /\ faults' = faults \/ faults' = faults + 1
        BY <1>9 DEF Begin, JobStep, Quiet, Publish, NoChannel, WriteCursor, JobFails, Fault
      <3> QED
        BY <3>1, Numbers
    <2>2. Waiting' \subseteq Waiting
      <3>1. CASE NoChannel(w) \/ JobFails(w)
        <4>1. /\ queue' = queue \union Redelivered(job[w].task, job[w].attempt)
              /\ job[w].task \in Sources /\ job[w].attempt \in 0 .. MaxAttempts
          BY <3>1 DEF NoChannel, JobFails, JobRaises, Typed, TypeOK, Busy, Job
        <4> QED
          BY <4>1, WaitingStays
      <3>2. CASE (\E m \in queue : Begin(w, m)) \/ Quiet(w) \/ Publish(w) \/ WriteCursor(w)
        <4>1. queue' \subseteq queue
          BY <3>2 DEF Begin, Quiet, Publish, WriteCursor
        <4> QED
          BY <4>1 DEF Waiting
      <3> QED
        BY <1>9, <3>1, <3>2 DEF JobStep
    <2> QED
      BY <2>1, <2>2 DEF Lacking
  <1>10. ASSUME NEW attempt \in {1, MaxAttempts}, Trigger(attempt) PROVE HeadersDue(g)'
    BY <1>10, HeadersDueTrigger
  <1>11. ASSUME \/ \E s \in Sources, h \in Groups : AddReads(s, h)
                \/ \E a \in adds : AddWrites(a)
                \/ \E h \in Groups : PutConfig(h)
                \/ UNCHANGED vars
         PROVE  Costless /\ Calm
    <2>1. UNCHANGED <<queue, run, headers, triggers, faults, crashes>>
      BY <1>11 DEF AddReads, AddWrites, PutConfig, vars
    <2> QED
      BY <2>1, Numbers DEF Waiting, Lacking
  <1>12. ASSUME NEW w \in Runners, RunTimeout(w) PROVE HeadersDue(g)'
    BY <1>12, HeadersDueTimeout
  <1>13. ASSUME NEW w \in Workers, JobTimeout(w) PROVE Costless /\ Calm
    <2>1. /\ UNCHANGED <<headers, triggers, crashes, run>> /\ faults' = faults + 1
          /\ queue' = queue \union Redelivered(job[w].task, job[w].attempt)
      BY <1>13 DEF JobTimeout, Fault
    <2>2. job[w].task \in Sources /\ job[w].attempt \in 0 .. MaxAttempts
      BY <1>13 DEF JobTimeout, Typed, TypeOK, Busy, Job
    <2>3. Calm
      BY <2>1, <2>2, WaitingStays DEF Lacking
    <2> QED
      BY <2>1, <2>3, Numbers
  <1> HIDE DEF Costless, Calm
  <1> QED
    BY <1>1, <1>2, <1>3, <1>4, <1>5, <1>6, <1>7, <1>8, <1>9, <1>10, <1>11, <1>12, <1>13
    DEF Next, Admin, RunStep, Shortens

LEMMA HeadersDueHolds == Spec => [](\A g \in Groups : HeadersDue(g))
  <1>1. Init => \A g \in Groups : HeadersDue(g)
    BY HeadersDueInit
  <1>2. Typed /\ (\A g \in Groups : HeadersDue(g)) /\ [Next]_vars => (\A g \in Groups : HeadersDue(g))'
    BY HeadersDueNext
  <1> QED
    BY <1>1, <1>2, TypedHolds, PTL DEF Spec

\* A header is repeated only when a digest was asked for again, when a call of
\* the run failed or its deadline passed, or when a document without its key
\* crashed the run: a failed enqueue never repeats it.
THEOREM HeadersStayBounded == Spec => []HeadersBounded
  <1>1. Typed /\ (\A g \in Groups : HeadersDue(g)) => HeadersBounded
    <2> SUFFICES ASSUME Typed, NEW g \in Groups, HeadersDue(g)
                 PROVE  headers[g] <= triggers + faults + crashes
      BY DEF HeadersBounded
    <2>1. Cardinality(Waiting) \in Nat /\ Cardinality(Lacking(g)) \in Nat
      BY Part DEF HeadersDue
    <2> QED
      BY <2>1, Numbers DEF HeadersDue
  <1> QED
    BY <1>1, HeadersDueHolds, TypedHolds, PTL

-----------------------------------------------------------------------------
(***************************************************************************)
(* Heartbeats.  A run that has posted a header may still log one, so such  *)
(* runs are counted with the heartbeats logged.                            *)
(***************************************************************************)
Headed == {w \in Runners : run[w].headed # {}}

BeatsDue ==
  /\ IsFiniteSet(Headed)
  /\ beats + Cardinality(Headed) <= headers["cohort"] + headers["leaders"]

LEMMA BeatNumbers ==
  ASSUME Typed
  PROVE  beats \in Nat /\ headers["cohort"] \in Nat /\ headers["leaders"] \in Nat
  BY GroupsAre DEF Typed, TypeOK

LEMMA BeatsDueInit == Init => BeatsDue
  <1> SUFFICES ASSUME Init PROVE BeatsDue
    OBVIOUS
  <1>1. Headed = {}
    BY NoRunFields DEF Init, Headed
  <1>2. beats = 0 /\ headers["cohort"] = 0 /\ headers["leaders"] = 0
    BY GroupsAre DEF Init
  <1> QED
    BY <1>1, <1>2, Nobody DEF BeatsDue

LEMMA BeatsDueNext ==
  ASSUME Typed, [Next]_vars, BeatsDue
  PROVE  BeatsDue'
  <1> USE DEF bounded, history
  <1> DEFINE Posted     == headers["cohort"] + headers["leaders"]
             NowPosted  == headers'["cohort"] + headers'["leaders"]
  <1>1. ASSUME beats' = beats, NowPosted \in Nat, NowPosted >= Posted, Headed' \subseteq Headed
        PROVE  BeatsDue'
    <2>1. /\ IsFiniteSet(Headed') /\ Cardinality(Headed) \in Nat /\ Cardinality(Headed') \in Nat
          /\ Cardinality(Headed') <= Cardinality(Headed)
      BY <1>1, Part DEF BeatsDue
    <2> QED
      BY <1>1, <2>1, BeatNumbers DEF BeatsDue
  <1>2. ASSUME NEW h \in Groups, headers' = [headers EXCEPT ![h] = @ + 1]
        PROVE  NowPosted = Posted + 1 /\ NowPosted \in Nat
    BY <1>2, GroupsAre, BeatNumbers DEF Typed, TypeOK
  <1>3. headers' = headers => NowPosted = Posted /\ NowPosted \in Nat
    BY BeatNumbers
  <1>4. ASSUME NEW w \in Runners, NEW m \in queue, StartRun(w, m) PROVE BeatsDue'
    <2>1. run'[w] = StartedRun(m) /\ \A v \in Runners \ {w} : run'[v] = run[v]
      BY <1>4, OneRunMoves DEF StartRun, StartedRun
    <2>2. Headed' \subseteq Headed
      BY <2>1, StartedRunTyped DEF Headed
    <2>3. headers' = headers /\ beats' = beats
      BY <1>4 DEF StartRun
    <2> QED
      BY <1>1, <1>3, <2>2, <2>3, BeatNumbers
  <1>5. ASSUME NEW w \in Runners, NEW i \in DOMAIN Lists, ReadList(w, i) PROVE BeatsDue'
    <2>1. run'[w] = ReadRun(w, i) /\ \A v \in Runners \ {w} : run'[v] = run[v]
      BY <1>5, OneRunMoves DEF ReadList, ReadRun
    <2>2. Headed' \subseteq Headed
      BY <2>1, ReadRunTyped DEF Headed
    <2>3. headers' = headers /\ beats' = beats
      BY <1>5 DEF ReadList
    <2> QED
      BY <1>1, <1>3, <2>2, <2>3, BeatNumbers
  <1>6. ASSUME NEW w \in Runners, NEW h \in Groups, PostHeader(w, h) PROVE BeatsDue'
    <2>1. \A v \in Runners \ {w} : run'[v] = run[v]
      BY <1>6, OneRunMoves DEF PostHeader
    <2>2. Headed' \in SUBSET (Headed \union {w})
      BY <2>1 DEF Headed
    <2>3. /\ IsFiniteSet(Headed') /\ Cardinality(Headed) \in Nat /\ Cardinality(Headed') \in Nat
          /\ Cardinality(Headed') <= Cardinality(Headed) + 1
      BY <2>2, OneJoins DEF BeatsDue
    <2>4. NowPosted = Posted + 1 /\ NowPosted \in Nat /\ beats' = beats
      BY <1>2, <1>6 DEF PostHeader
    <2> QED
      BY <2>3, <2>4, BeatNumbers DEF BeatsDue
  <1>7. ASSUME NEW w \in Runners, Shortens(w) PROVE BeatsDue'
    <2>1. Headed' \subseteq Headed
      BY <1>7, ShortenedRun DEF Headed
    <2>2. headers' = headers /\ beats' = beats
      BY <1>7 DEF Shortens, SkipGroup, Send, SendFails
    <2> QED
      BY <1>1, <1>3, <2>1, <2>2, BeatNumbers
  <1>8. ASSUME NEW w \in Runners, Ends(w) PROVE BeatsDue'
    <2>1. run'[w].headed = {} /\ \A v \in Runners \ {w} : run'[v] = run[v]
      BY <1>8, EndedRun, NoRunFields
    <2>2. Headed' \in SUBSET (Headed \ {w}) /\ Headed' \subseteq Headed
      BY <2>1 DEF Headed
    <2>3. CASE Beat(w) /\ run[w].headed # {}
      <3>1. w \in Headed /\ beats' = beats + 1 /\ headers' = headers
        BY <2>3 DEF Beat, Headed
      <3>2. /\ IsFiniteSet(Headed') /\ Cardinality(Headed) \in Nat /\ Cardinality(Headed') \in Nat
            /\ Cardinality(Headed') + 1 <= Cardinality(Headed)
        BY <2>2, <3>1, OneLeaves DEF BeatsDue
      <3> QED
        BY <3>1, <3>2, BeatNumbers DEF BeatsDue
    <2>4. CASE ~(Beat(w) /\ run[w].headed # {})
      <3>1. beats' = beats
        BY <1>8, <2>4 DEF Ends, Beat, SendCrashes, RunFault, RunFails, HeaderUnconfirmed
      <3>2. headers' = headers \/ \E h \in Groups : headers' = [headers EXCEPT ![h] = @ + 1]
        BY <1>8 DEF Ends, Beat, SendCrashes, RunFault, RunFails, HeaderUnconfirmed
      <3>3. NowPosted \in Nat /\ NowPosted >= Posted
        BY <1>2, <1>3, <3>2, BeatNumbers
      <3> QED
        BY <1>1, <2>2, <3>1, <3>3
    <2> QED
      BY <2>3, <2>4
  <1>9. ASSUME NEW s \in Sources, RemoveSource(s) PROVE BeatsDue'
    <2>1. run' = [v \in Runners |-> [run[v] EXCEPT !.steady = @ \ {s}]]
      BY <1>9 DEF RemoveSource
    <2>2. Headed' \subseteq Headed
      BY <2>1, UnsteadyTyped DEF Headed
    <2>3. headers' = headers /\ beats' = beats
      BY <1>9 DEF RemoveSource
    <2> QED
      BY <1>1, <1>3, <2>2, <2>3, BeatNumbers
  <1>10. CASE UNCHANGED <<run, headers, beats>>
    BY <1>1, <1>3, <1>10, BeatNumbers DEF Headed
  <1>11. ASSUME NEW w \in Runners, RunTimeout(w) PROVE BeatsDue'
    <2>1. Headed' \subseteq Headed
      BY <1>11, OutlivedRun DEF Headed
    <2>2. headers' = headers /\ beats' = beats
      BY <1>11 DEF RunTimeout, history
    <2> QED
      BY <1>1, <1>3, <2>1, <2>2, BeatNumbers
  <1> QED
    BY <1>4, <1>5, <1>6, <1>7, <1>8, <1>9, <1>10, <1>11, RunsMove

\* Every heartbeat stands for a run that posted a header.
THEOREM HeartbeatsMeanHeaders == Spec => []HeartbeatMeansHeader
  <1>1. Typed /\ BeatsDue => HeartbeatMeansHeader
    <2> SUFFICES ASSUME Typed, BeatsDue PROVE beats <= headers["cohort"] + headers["leaders"]
      BY DEF HeartbeatMeansHeader
    <2>1. Cardinality(Headed) \in Nat
      BY Part DEF BeatsDue
    <2> QED
      BY <2>1, BeatNumbers DEF BeatsDue
  <1>2. Typed /\ BeatsDue /\ [Next]_vars => BeatsDue'
    BY BeatsDueNext
  <1> QED
    BY <1>1, <1>2, BeatsDueInit, TypedHolds, PTL DEF Spec
=============================================================================
