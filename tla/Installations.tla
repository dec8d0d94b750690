--------------------------- MODULE Installations ----------------------------
(***************************************************************************)
(* Members share repositories by installing the GitHub App.                *)
(*                                                                         *)
(* GitHub reports each change of an installation with a webhook event.     *)
(* process_webhook_event applies it with one Firestore call after another  *)
(* to three collections, which admins edit as well; to add a repository,   *)
(* both of them read its document and then write it.  GitHub does not wait *)
(* for one event to be handled before it sends the next, does not promise  *)
(* their order, and does not repeat an event that was answered with an     *)
(* error: an operator may redeliver it by hand.                            *)
(***************************************************************************)
EXTENDS Integers, FiniteSets, Sequences

CONSTANTS
  Insts,      \* installation ids
  Accounts,   \* logins
  Repos,      \* repositories, by owner/repo
  None,       \* no installation
  AccountOf,  \* the account of an installation
  Hooks,      \* concurrent webhook requests
  InOrder,    \* events are handled in the order GitHub sent them
  MaxEvents,  \* bound: changes made at GitHub
  MaxEdits,   \* bound: edits by admins
  MaxFaults   \* bound: failed handlers, lost and repeated events

ASSUME InstallationsAssumption ==
  /\ None \notin Insts
  /\ AccountOf \in [Insts -> Accounts]
  /\ InOrder \in BOOLEAN
  /\ {MaxEvents, MaxEdits, MaxFaults} \subseteq Nat

VARIABLES
  gh,        \* at GitHub: the state of each installation
  shared,    \* at GitHub: the repositories each installation may read
  wire,      \* events on their way, in the order they were sent
  hook,      \* the event each webhook request is handling
  repos,     \* tracked_repos
  insts,     \* installations
  members,   \* members
  adding,    \* the adds of admins between their read and their write
  events, edits, faults,  \* what the bounds count
  consented  \* history: <<i, r>> when i ever shared r

github  == <<gh, shared>>
store   == <<repos, insts, members>>
bounded == <<events, edits, faults>>
vars    == <<github, wire, hook, store, adding, bounded, consented>>

Event ==
  [kind : {"activate", "suspend", "deleted", "repositories"}, inst : Insts,
   added : SUBSET Repos, removed : SUBSET Repos]

ASSUME EventAssumption == None \notin Event

\* The calls of process_webhook_event for each kind of event, in order.
Calls(kind) ==
  CASE kind = "activate"     -> <<"upsert", "member", "add">>
    [] kind = "suspend"      -> <<"disable">>
    [] kind = "deleted"      -> <<"query", "purge", "disable", "forget">>
    [] kind = "repositories" -> <<"add", "remove", "member">>

\* What add read: whether the document of repo exists.
Reads == [repo : Repos, found : BOOLEAN]

\* A request: the calls still to be made, what is left of the current loop, and
\* the read of the add that is under way.
NoHook == [calls |-> <<>>, event |-> None, add |-> {}, remove |-> {}, reads |-> {}]

RepoDoc ==
  [stored : BOOLEAN, named : BOOLEAN, enabled : BOOLEAN, cursor : BOOLEAN,
   inst : Insts \union {None}]

MissingRepo ==
  [stored |-> FALSE, named |-> FALSE, enabled |-> FALSE, cursor |-> FALSE, inst |-> None]

\* The collections and the requests keep their shape: a request without calls
\* has ended.
TypeOK ==
  /\ gh \in [Insts -> {"none", "active", "suspended", "deleted"}]
  /\ shared \in [Insts -> SUBSET Repos]
  /\ wire \in Seq(Event)
  /\ \A h \in Hooks :
       /\ hook[h].event \in Event \union {None}
       /\ (hook[h].calls = <<>>) <=> (hook[h].event = None)
       /\ hook[h].add \subseteq Repos /\ hook[h].remove \subseteq Repos
       /\ hook[h].reads \subseteq {a \in Reads : a.repo \in hook[h].add}
  /\ repos \in [Repos -> RepoDoc]
  /\ insts \in [Insts -> [stored : BOOLEAN, named : BOOLEAN, enabled : BOOLEAN]]
  /\ members \in [Accounts -> [enabled : BOOLEAN, inst : Insts \union {None}]]
  /\ adding \subseteq [edit : 1 .. MaxEdits, repo : Repos, found : BOOLEAN]
  /\ events \in 0 .. MaxEvents /\ edits \in 0 .. MaxEdits /\ faults \in 0 .. MaxFaults
  /\ consented \subseteq Insts \X Repos

Init ==
  /\ gh = [i \in Insts |-> "none"]
  /\ shared = [i \in Insts |-> {}]
  /\ wire = <<>>
  /\ hook = [h \in Hooks |-> NoHook]
  /\ repos = [r \in Repos |-> MissingRepo]
  /\ insts = [i \in Insts |-> [stored |-> FALSE, named |-> FALSE, enabled |-> FALSE]]
  /\ members = [m \in Accounts |-> [enabled |-> FALSE, inst |-> None]]
  /\ adding = {}
  /\ events = 0 /\ edits = 0 /\ faults = 0
  /\ consented = {}

-----------------------------------------------------------------------------
(***************************************************************************)
(* GitHub.  An account has at most one installation at a time, and a       *)
(* repository, which has one owner, is shared by at most one.              *)
(***************************************************************************)
Present(i) == gh[i] \in {"active", "suspended"}

\* A change at GitHub, and the event that reports it.
Change(i, kind, state, repositories, added, removed) ==
  /\ events < MaxEvents
  /\ events' = events + 1
  /\ gh' = [gh EXCEPT ![i] = state]
  /\ shared' = [shared EXCEPT ![i] = repositories]
  /\ consented' = consented \union {i} \X repositories
  /\ wire' = Append(wire, [kind |-> kind, inst |-> i, added |-> added, removed |-> removed])
  /\ UNCHANGED <<hook, store, adding, edits, faults>>

Free(S) == \A j \in Insts : S \intersect shared[j] = {}

Install(i, S) ==
  /\ gh[i] = "none"
  /\ \A j \in Insts : AccountOf[j] = AccountOf[i] => ~Present(j)
  /\ Free(S)
  /\ Change(i, "activate", "active", S, S, {})

\* unsuspend of a suspended and new_permissions_accepted of an active one: the
\* payload may list the repositories or not.
Reactivate(i) ==
  /\ Present(i)
  /\ \E listed \in {{}, shared[i]} : Change(i, "activate", "active", shared[i], listed, {})

Suspend(i) ==
  /\ gh[i] = "active"
  /\ Change(i, "suspend", "suspended", shared[i], {}, {})

Uninstall(i) ==
  /\ Present(i)
  /\ Change(i, "deleted", "deleted", {}, {}, {})

Share(i, r) ==
  /\ gh[i] = "active" /\ Free({r})
  /\ Change(i, "repositories", "active", shared[i] \union {r}, {r}, {})

Unshare(i, r) ==
  /\ gh[i] = "active" /\ r \in shared[i]
  /\ Change(i, "repositories", "active", shared[i] \ {r}, {}, {r})

GitHub ==
  \E i \in Insts :
    \/ \E S \in SUBSET Repos : Install(i, S)
    \/ Reactivate(i) \/ Suspend(i) \/ Uninstall(i)
    \/ \E r \in Repos : Share(i, r) \/ Unshare(i, r)

-----------------------------------------------------------------------------
(***************************************************************************)
(* The repositories of the store.                                          *)
(***************************************************************************)

\* Mutant of AddedRepo: the link of a stored document is left as it is.
AddedRepoUnlinked(doc, i, found) ==
  IF found
  THEN [doc EXCEPT !.stored = TRUE, !.enabled = TRUE]
  ELSE [stored |-> TRUE, named |-> TRUE, enabled |-> TRUE, cursor |-> TRUE, inst |-> i]

\* What add writes: a document that it did not find in full, over any that is
\* there by now; into one that it found it merges that it is enabled, and the
\* link if an installation is given, which creates it if it is gone by now.
AddedRepo(doc, i, found) ==
  IF found
  THEN [doc EXCEPT !.stored = TRUE, !.enabled = TRUE, !.inst = IF i = None THEN @ ELSE i]
  ELSE [stored |-> TRUE, named |-> TRUE, enabled |-> TRUE, cursor |-> TRUE, inst |-> i]

\* disable merges {enabled: False} into a document of either collection, whether
\* it exists or not.
Disabled(doc) == [doc EXCEPT !.stored = TRUE, !.enabled = FALSE]

\* Mutant of Upserted: the id is only written with a new document.
UpsertedOnce(doc) ==
  [stored |-> TRUE, enabled |-> TRUE, named |-> doc.named \/ ~doc.stored]

\* InstallationsRepo.upsert writes every field.  It reads the document first, to
\* give a new one its created_at, which nothing reads; MembersRepo.upsert does
\* the same for linked_at.  Each is one step here.
Upserted(doc) == [stored |-> TRUE, enabled |-> TRUE, named |-> TRUE]

-----------------------------------------------------------------------------
(***************************************************************************)
(* process_webhook_event: one action per Firestore call that matters.      *)
(***************************************************************************)
Without(s, k) == SubSeq(s, 1, k - 1) \o SubSeq(s, k + 1, Len(s))

Idle(h) == hook[h].event = None

HookBecomes(h, j) == hook' = [hook EXCEPT ![h] = j]

\* The next call of h.
Calling(h, call) == ~Idle(h) /\ hook[h].calls[1] = call

\* Mutant of Returned: the last call does not end the request.
ReturnedWaiting(j) == [j EXCEPT !.calls = Tail(@)]

\* The request once its call has returned.
Returned(j) == IF Len(j.calls) = 1 THEN NoHook ELSE [j EXCEPT !.calls = Tail(@)]

Receive(h, k) ==
  LET e == wire[k] IN
  /\ Idle(h)
  /\ InOrder => k = 1
  /\ wire' = Without(wire, k)
  /\ HookBecomes(h, [calls |-> Calls(e.kind), event |-> e, add |-> e.added, remove |-> e.removed,
                  reads |-> {}])
  /\ UNCHANGED <<github, store, adding, bounded, consented>>

UpsertInstallation(h) ==
  /\ Calling(h, "upsert")
  /\ insts' = [insts EXCEPT ![hook[h].event.inst] = Upserted(@)]
  /\ HookBecomes(h, Returned(hook[h]))
  /\ UNCHANGED <<github, wire, repos, members, adding, bounded, consented>>

UpsertMember(h) ==
  LET i == hook[h].event.inst IN
  /\ Calling(h, "member")
  /\ members' = [members EXCEPT ![AccountOf[i]] = [enabled |-> TRUE, inst |-> i]]
  /\ HookBecomes(h, Returned(hook[h]))
  /\ UNCHANGED <<github, wire, repos, insts, adding, bounded, consented>>

\* The get of add.
AddReads(h, r) ==
  /\ Calling(h, "add")
  /\ r \in hook[h].add /\ hook[h].reads = {}
  /\ HookBecomes(h, [hook[h] EXCEPT !.reads = {[repo |-> r, found |-> repos[r].stored]}])
  /\ UNCHANGED <<github, wire, store, adding, bounded, consented>>

\* Mutant of AddWrites: linked to the installation the member record names.
AddWritesOfMember(h, a) ==
  LET account == AccountOf[hook[h].event.inst] IN
  /\ Calling(h, "add")
  /\ a \in hook[h].reads
  /\ repos' = [repos EXCEPT ![a.repo] = AddedRepo(@, members[account].inst, a.found)]
  /\ HookBecomes(h, [hook[h] EXCEPT !.add = @ \ {a.repo}, !.reads = {}])
  /\ UNCHANGED <<github, wire, insts, members, adding, bounded, consented>>

\* The set of add.
AddWrites(h, a) ==
  /\ Calling(h, "add")
  /\ a \in hook[h].reads
  /\ repos' = [repos EXCEPT ![a.repo] = AddedRepo(@, hook[h].event.inst, a.found)]
  /\ HookBecomes(h, [hook[h] EXCEPT !.add = @ \ {a.repo}, !.reads = {}])
  /\ UNCHANGED <<github, wire, insts, members, adding, bounded, consented>>

\* The query of disable_for_installation, which its loop then runs over.
QueryLinked(h) ==
  /\ Calling(h, "query")
  /\ HookBecomes(h, [Returned(hook[h]) EXCEPT
       !.remove = {r \in Repos : repos[r].inst = hook[h].event.inst}])
  /\ UNCHANGED <<github, wire, store, adding, bounded, consented>>

DisableRepo(h, r) ==
  /\ Calling(h, "remove") \/ Calling(h, "purge")
  /\ r \in hook[h].remove
  /\ repos' = [repos EXCEPT ![r] = Disabled(@)]
  /\ HookBecomes(h, [hook[h] EXCEPT !.remove = @ \ {r}])
  /\ UNCHANGED <<github, wire, insts, members, adding, bounded, consented>>

\* The loop over the repositories is done.
LoopEnds(h) ==
  /\ \/ Calling(h, "add") /\ hook[h].add = {}
     \/ (Calling(h, "remove") \/ Calling(h, "purge")) /\ hook[h].remove = {}
  /\ HookBecomes(h, Returned(hook[h]))
  /\ UNCHANGED <<github, wire, store, adding, bounded, consented>>

DisableInstallation(h) ==
  /\ Calling(h, "disable")
  /\ insts' = [insts EXCEPT ![hook[h].event.inst] = Disabled(@)]
  /\ HookBecomes(h, Returned(hook[h]))
  /\ UNCHANGED <<github, wire, repos, members, adding, bounded, consented>>

\* The last call of a deleted event.
DisableMember(h) ==
  LET i == hook[h].event.inst IN
  /\ Calling(h, "forget")
  /\ members' = [members EXCEPT ![AccountOf[i]].enabled = FALSE]
  /\ HookBecomes(h, Returned(hook[h]))
  /\ UNCHANGED <<github, wire, repos, insts, adding, bounded, consented>>

Handle(h) ==
  \/ \E k \in DOMAIN wire : Receive(h, k)
  \/ UpsertInstallation(h) \/ UpsertMember(h)
  \/ \E r \in Repos : AddReads(h, r) \/ DisableRepo(h, r)
  \/ \E a \in Reads : AddWrites(h, a)
  \/ QueryLinked(h) \/ LoopEnds(h)
  \/ DisableInstallation(h) \/ DisableMember(h)

-----------------------------------------------------------------------------
Fault == faults < MaxFaults /\ faults' = faults + 1

\* A handler raises part of the way.  The operator redelivers the event before
\* any later one is handled.
HandlerFails(h) ==
  /\ ~Idle(h)
  /\ Fault
  /\ wire' = <<hook[h].event>> \o wire
  /\ HookBecomes(h, NoHook)
  /\ UNCHANGED <<github, store, adding, events, edits, consented>>

\* An event is lost, or its handler fails and nobody redelivers it.
Lose(k) ==
  /\ ~InOrder
  /\ Fault
  /\ wire' = Without(wire, k)
  /\ UNCHANGED <<github, hook, store, adding, events, edits, consented>>

\* An event is delivered twice.
Repeat(k) ==
  /\ Fault
  /\ wire' = SubSeq(wire, 1, k) \o SubSeq(wire, k, Len(wire))
  /\ UNCHANGED <<github, hook, store, adding, events, edits, consented>>

\* Admins add and remove repositories without an installation.
Edit == edits < MaxEdits /\ edits' = edits + 1

AdminAddReads(r) ==
  /\ Edit
  /\ adding' = adding \union {[edit |-> edits', repo |-> r, found |-> repos[r].stored]}
  /\ UNCHANGED <<github, wire, hook, store, events, faults, consented>>

AdminAddWrites(a) ==
  /\ adding' = adding \ {a}
  /\ repos' = [repos EXCEPT ![a.repo] = AddedRepo(@, None, a.found)]
  /\ UNCHANGED <<github, wire, hook, insts, members, bounded, consented>>

AdminRemove(r) ==
  /\ Edit
  /\ repos' = [repos EXCEPT ![r] = MissingRepo]
  /\ UNCHANGED <<github, wire, hook, insts, members, adding, events, faults, consented>>

Next ==
  \/ GitHub
  \/ \E h \in Hooks : Handle(h) \/ HandlerFails(h)
  \/ \E k \in DOMAIN wire : Lose(k) \/ Repeat(k)
  \/ \E r \in Repos : AdminAddReads(r) \/ AdminRemove(r)
  \/ \E a \in adding : AdminAddWrites(a)

Spec == Init /\ [][Next]_vars

-----------------------------------------------------------------------------
\* The repositories list_enabled_for_installation returns.
Linked(i) == {r \in Repos : repos[r].enabled /\ repos[r].inst = i}

Quiet == wire = <<>> /\ \A h \in Hooks : Idle(h)

\* Once every event is handled, the store says what GitHub says: handlers that
\* failed part of the way and were run again, and events that came twice,
\* leave no trace.  Suspension keeps the repositories for a later unsuspend.
Synced ==
  Quiet =>
    /\ \A i \in Insts :
         /\ insts[i].enabled <=> (gh[i] = "active")
         /\ Linked(i) = shared[i]
    /\ \A m \in Accounts :
         members[m].enabled <=> (\E i \in Insts : AccountOf[i] = m /\ Present(i))

\* What is scanned for a member was shared by that member: whatever the order
\* of events, admins and failures, a repository is linked to an installation
\* only if it shared the repository at some time.
LinkNeedsConsent == \A r \in Repos, i \in Insts : repos[r].inst = i => <<i, r>> \in consented

\* run_fanout reads the id of every enabled installation.
InstallationsUsable == \A i \in Insts : insts[i].enabled => insts[i].named

-----------------------------------------------------------------------------
(***************************************************************************)
(* What the documents and comments say and the code does not do.           *)
(***************************************************************************)

\* "the scheduled digest reports only commits pushed after it was added, never
\* the whole history": a repository that can be scanned has a cursor.
EnabledHasCursor == \A r \in Repos : repos[r].enabled => repos[r].cursor
=============================================================================
