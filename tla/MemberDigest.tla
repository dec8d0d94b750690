---------------------------- MODULE MemberDigest ----------------------------
(***************************************************************************)
(* The digests of members, while members change their minds.               *)
(*                                                                         *)
(* process_installation lists the repositories linked to an installation,  *)
(* reads each of them with a token of that installation, posts one section *)
(* in the name of the member, and merges a cursor into each document.  In  *)
(* the meantime the member may take repositories back, suspend the App or  *)
(* uninstall it, the webhook applies the events of Installations to the    *)
(* same documents, and admins edit them.                                   *)
(*                                                                         *)
(* Each handler makes its own GitHubAppAuth, so that no token outlives the *)
(* handler that minted it.  What a repository's commits are is Delivery's  *)
(* subject: here a scan finds some, or none.                               *)
(***************************************************************************)
EXTENDS Installations

CONSTANTS
  Workers,  \* concurrent handlers
  Public    \* repositories that everybody may read

ASSUME MemberDigestAssumption == Public \subseteq Repos

VARIABLE job  \* the handler each worker runs

allVars == <<vars, job>>

\* A handler: the documents it listed and still has to scan, the repositories
\* of its section, those whose cursor it still has to write, and, as a
\* history, what the installation let it read at some time since it began.
Job ==
  [ pc : {"idle", "list", "mint", "scan", "write"}, inst : Insts \union {None},
    todo : SUBSET Repos, section : SUBSET Repos, owed : SUBSET Repos, open : SUBSET Repos ]

NoJob ==
  [pc |-> "idle", inst |-> None, todo |-> {}, section |-> {}, owed |-> {}, open |-> {}]

\* The handlers keep their shape: one that is idle remembers nothing, and only
\* reported repositories get a cursor.
JobTypeOK ==
  /\ job \in [Workers -> Job]
  /\ \A w \in Workers :
       /\ job[w].pc = "idle" <=> job[w].inst = None
       /\ job[w].pc = "idle" => job[w] = NoJob
       /\ job[w].owed \subseteq job[w].section

MemberInit == Init /\ job = [w \in Workers |-> NoJob]

\* What a token of each installation gives access to besides public repositories.
Open == [i \in Insts |-> IF gh[i] = "active" THEN shared[i] ELSE {}]

JobBecomes(w, j) == job' = [job EXCEPT ![w] = j]

-----------------------------------------------------------------------------
\* A step of GitHub, of a webhook request or of an admin.
Elsewhere ==
  /\ Next
  /\ job' = [w \in Workers |->
       IF job[w].pc = "idle" THEN job[w] ELSE [job[w] EXCEPT !.open = @ \union Open'[job[w].inst]]]

\* A task of an installation that is gone or disabled ends at once.
Begin(w, i) ==
  /\ job[w].pc = "idle"
  /\ insts[i].stored /\ insts[i].enabled
  /\ JobBecomes(w, [NoJob EXCEPT !.pc = "list", !.inst = i, !.open = Open[i]])
  /\ UNCHANGED vars

\* list_enabled_for_installation.  Without a repository the handler ends; a
\* document without its name makes it raise before anything is posted.
List(w) ==
  LET listed == Linked(job[w].inst) IN
  /\ job[w].pc = "list"
  /\ \A r \in listed : repos[r].named
  /\ JobBecomes(w, IF listed = {} THEN NoJob ELSE [job[w] EXCEPT !.pc = "mint", !.todo = listed])
  /\ UNCHANGED vars

\* The first request asks for a token; a suspended installation gets none.
Mint(w) ==
  /\ job[w].pc = "mint"
  /\ gh[job[w].inst] = "active"
  /\ JobBecomes(w, [job[w] EXCEPT !.pc = "scan"])
  /\ UNCHANGED vars

\* Mutant of Readable: the shared token reads the repository.
ReadableToBot(i, r) == TRUE

\* The token is void as soon as the installation is suspended or deleted.
Readable(i, r) == gh[i] = "active" /\ r \in shared[i] \union Public

\* There are signal commits that the ledger does not hold, or none.
Scan(w, r) ==
  /\ job[w].pc = "scan"
  /\ r \in job[w].todo
  /\ Readable(job[w].inst, r)
  /\ \E news \in {{}, {r}} :
       JobBecomes(w, [job[w] EXCEPT !.todo = @ \ {r}, !.section = @ \union news])
  /\ UNCHANGED vars

\* Mutant of Post: what was found outlives a handler that posts nothing.
PostKeepsState(w) ==
  /\ job[w].pc = "scan"
  /\ job[w].todo = {}
  /\ JobBecomes(w, IF job[w].section = {} THEN [job[w] EXCEPT !.pc = "idle"]
                   ELSE [job[w] EXCEPT !.pc = "write", !.owed = job[w].section])
  /\ UNCHANGED vars

\* One message for all of them, or none.
Post(w) ==
  /\ job[w].pc = "scan"
  /\ job[w].todo = {}
  /\ JobBecomes(w, IF job[w].section = {} THEN NoJob
                   ELSE [job[w] EXCEPT !.pc = "write", !.owed = job[w].section])
  /\ UNCHANGED vars

\* Mutant of CursorMerged: the document that was listed is written back.
CursorWrittenBack(doc) == [doc EXCEPT !.stored = TRUE, !.cursor = TRUE, !.enabled = TRUE]

\* set_cursor merges one field into the document, and thereby creates it.
CursorMerged(doc) == [doc EXCEPT !.stored = TRUE, !.cursor = TRUE]

\* record_shas and set_cursor, one repository after the other.
Write(w, r) ==
  /\ job[w].pc = "write"
  /\ r \in job[w].owed
  /\ repos' = [repos EXCEPT ![r] = CursorMerged(@)]
  /\ JobBecomes(w, IF job[w].owed = {r} THEN NoJob ELSE [job[w] EXCEPT !.owed = @ \ {r}])
  /\ UNCHANGED <<github, wire, hook, insts, members, adding, bounded, consented>>

\* GitHub refuses a request, any call fails, or the instance dies: the queue
\* delivers the task again, or the next fan-out does.
Fails(w) ==
  /\ job[w].pc # "idle"
  /\ JobBecomes(w, NoJob)
  /\ UNCHANGED vars

Handler(w) ==
  \/ \E i \in Insts : Begin(w, i)
  \/ List(w) \/ Mint(w) \/ Post(w) \/ Fails(w)
  \/ \E r \in Repos : Scan(w, r) \/ Write(w, r)

MemberNext == Elsewhere \/ \E w \in Workers : Handler(w)

MemberSpec == MemberInit /\ [][MemberNext]_allVars

-----------------------------------------------------------------------------
\* A section shows a private repository only if the installation let the bot
\* read it while the handler ran: a repository that was taken back, and an
\* installation that was removed, before the handler began are not reported,
\* even if their events are lost, late or still being handled.
SectionsConsented ==
  \A w \in Workers : job[w].pc = "write" => job[w].section \ Public \subseteq job[w].open
=============================================================================
