------------------------ MODULE MemberDigest_proofs -------------------------
(***************************************************************************)
(* Proofs about Installations, for any number of installations, accounts,  *)
(* repositories and webhook requests, whatever the order of the events,    *)
(* the failures and the edits; and about MemberDigest, whose handlers      *)
(* change nothing that Installations guarantees, and report only what the  *)
(* member let them read.                                                   *)
(***************************************************************************)
EXTENDS MemberDigest, SequenceTheorems, TLAPS

USE InstallationsAssumption, EventAssumption, MemberDigestAssumption

-----------------------------------------------------------------------------
(***************************************************************************)
(* The inductive invariant.  A link is right because the request that      *)
(* writes it has it from an event that names repositories the installation *)
(* shared: so have all events on their way, and so has what is left of the *)
(* loop of each request.                                                   *)
(***************************************************************************)
Honest == {e \in Event : {e.inst} \X e.added \subseteq consented}

CallNames ==
  {"upsert", "member", "add", "disable", "query", "purge", "forget", "remove"}

HookState ==
  [calls : Seq(CallNames), event : Honest \union {None}, add : SUBSET Repos,
   remove : SUBSET Repos, reads : SUBSET Reads]

HookOK(j) ==
  /\ j \in HookState
  /\ (j.calls = <<>>) <=> (j.event = None)
  /\ j.event # None => {j.event.inst} \X j.add \subseteq consented
  /\ \A a \in j.reads : a.repo \in j.add

GitHubOK ==
  /\ gh \in [Insts -> {"none", "active", "suspended", "deleted"}]
  /\ shared \in [Insts -> SUBSET Repos]
  /\ consented \subseteq Insts \X Repos
  /\ \A i \in Insts : {i} \X shared[i] \subseteq consented
  /\ events \in 0 .. MaxEvents

WireOK == wire \in Seq(Honest)

HooksOK ==
  /\ hook = [h \in Hooks |-> hook[h]]
  /\ \A h \in Hooks : HookOK(hook[h])

StoreOK ==
  /\ repos \in [Repos -> RepoDoc]
  /\ insts \in [Insts -> [stored : BOOLEAN, named : BOOLEAN, enabled : BOOLEAN]]
  /\ members \in [Accounts -> [enabled : BOOLEAN, inst : Insts \union {None}]]
  /\ adding \subseteq [edit : 1 .. MaxEdits, repo : Repos, found : BOOLEAN]
  /\ edits \in 0 .. MaxEdits /\ faults \in 0 .. MaxFaults
  /\ LinkNeedsConsent
  /\ InstallationsUsable

IInv == GitHubOK /\ WireOK /\ HooksOK /\ StoreOK


-----------------------------------------------------------------------------
(***************************************************************************)
(* Sequences of events.                                                    *)
(***************************************************************************)
LEMMA WithoutSeq ==
  ASSUME NEW S, NEW s \in Seq(S), NEW k \in DOMAIN s
  PROVE  Without(s, k) \in Seq(S) /\ s[k] \in S
  <1>1. k \in 1 .. Len(s) /\ Len(s) \in Nat
    BY LenProperties
  <1>2. \A m \in 1 .. Len(s) : s[m] \in S
    BY ElementOfSeq
  <1>3. SubSeq(s, 1, k - 1) \in Seq(S) /\ SubSeq(s, k + 1, Len(s)) \in Seq(S)
    <2>1. \A m \in 1 .. k - 1 : s[m] \in S
      BY <1>1, <1>2
    <2>2. \A m \in k + 1 .. Len(s) : s[m] \in S
      BY <1>1, <1>2
    <2>3. SubSeq(s, 1, k - 1) \in Seq(S)
      BY <1>1, <2>1, SubSeqProperties
    <2>4. SubSeq(s, k + 1, Len(s)) \in Seq(S)
      BY <1>1, <2>2, SubSeqProperties
    <2> QED
      BY <2>3, <2>4
  <1> QED
    BY <1>1, <1>2, <1>3, ConcatProperties DEF Without

LEMMA RepeatSeq ==
  ASSUME NEW S, NEW s \in Seq(S), NEW k \in DOMAIN s
  PROVE  SubSeq(s, 1, k) \o SubSeq(s, k, Len(s)) \in Seq(S)
  <1>1. k \in 1 .. Len(s) /\ Len(s) \in Nat
    BY LenProperties
  <1>2. \A m \in 1 .. Len(s) : s[m] \in S
    BY ElementOfSeq
  <1>3. SubSeq(s, 1, k) \in Seq(S)
    <2>1. \A m \in 1 .. k : s[m] \in S
      BY <1>1, <1>2
    <2> QED
      BY <1>1, <2>1, SubSeqProperties
  <1>4. SubSeq(s, k, Len(s)) \in Seq(S)
    <2>1. \A m \in k .. Len(s) : s[m] \in S
      BY <1>1, <1>2
    <2> QED
      BY <1>1, <2>1, SubSeqProperties
  <1> QED
    BY <1>3, <1>4, ConcatProperties

-----------------------------------------------------------------------------
LEMMA IInvInit == Init => IInv
  <1> SUFFICES ASSUME Init PROVE IInv
    OBVIOUS
  <1>1. GitHubOK
    BY DEF Init, GitHubOK
  <1>2. WireOK
    BY EmptySeq DEF Init, WireOK
  <1>3. HooksOK
    BY EmptySeq DEF Init, HooksOK, HookOK, HookState, NoHook
  <1>4. StoreOK
    BY DEF Init, StoreOK, RepoDoc, MissingRepo, LinkNeedsConsent, InstallationsUsable
  <1> QED
    BY <1>1, <1>2, <1>3, <1>4 DEF IInv

\* What GitHub changes adds consent, and the event it sends tells of it.
LEMMA ChangeOK ==
  ASSUME IInv, NEW i \in Insts, NEW kind \in {"activate", "suspend", "deleted", "repositories"},
         NEW state \in {"active", "suspended", "deleted"}, NEW S \in SUBSET Repos,
         NEW added \in SUBSET S, NEW removed \in SUBSET Repos,
         Change(i, kind, state, S, added, removed)
  PROVE  IInv'
  <1> USE DEF Change, github, store, bounded
  <1>1. GitHubOK'
    BY DEF IInv, GitHubOK
  <1>2. consented \subseteq consented' /\ Honest \subseteq Honest'
    BY DEF Honest
  <1>3. WireOK'
    <2> DEFINE e == [kind |-> kind, inst |-> i, added |-> added, removed |-> removed]
    <2>1. e \in Event
      BY DEF Event
    <2>2. {e.inst} \X e.added \subseteq consented'
      OBVIOUS
    <2>3. e \in Honest'
      BY <2>1, <2>2 DEF Honest, Event
    <2>4. wire \in Seq(Honest')
      BY <1>2, SeqMonotonic DEF IInv, WireOK
    <2>5. wire' = Append(wire, e)
      OBVIOUS
    <2> HIDE DEF e
    <2> QED
      BY <2>3, <2>4, <2>5 DEF WireOK
  <1>4. HooksOK'
    BY <1>2 DEF IInv, HooksOK, HookOK, HookState
  <1>5. StoreOK'
    BY <1>2 DEF IInv, StoreOK, LinkNeedsConsent, InstallationsUsable
  <1> QED
    BY <1>1, <1>3, <1>4, <1>5 DEF IInv

LEMMA GitHubSteps == IInv /\ GitHub => IInv'
  <1> SUFFICES ASSUME IInv, GitHub PROVE IInv'
    OBVIOUS
  <1>0. shared \in [Insts -> SUBSET Repos]
    BY DEF IInv, GitHubOK
  <1>1. ASSUME NEW i \in Insts, NEW S \in SUBSET Repos, Install(i, S) PROVE IInv'
    <2>1. Change(i, "activate", "active", S, S, {})
      BY <1>1 DEF Install
    <2> QED
      BY <2>1, ChangeOK
  <1>2. ASSUME NEW i \in Insts, Reactivate(i) PROVE IInv'
    <2>1. PICK listed \in {{}, shared[i]} : Change(i, "activate", "active", shared[i], listed, {})
      BY <1>2 DEF Reactivate
    <2> QED
      BY <1>0, <2>1, ChangeOK
  <1>3. ASSUME NEW i \in Insts, Suspend(i) PROVE IInv'
    <2>1. Change(i, "suspend", "suspended", shared[i], {}, {})
      BY <1>3 DEF Suspend
    <2> QED
      BY <1>0, <2>1, ChangeOK
  <1>4. ASSUME NEW i \in Insts, Uninstall(i) PROVE IInv'
    <2>1. Change(i, "deleted", "deleted", {}, {}, {})
      BY <1>4 DEF Uninstall
    <2> QED
      BY <2>1, ChangeOK
  <1>5. ASSUME NEW i \in Insts, NEW r \in Repos, Share(i, r) PROVE IInv'
    <2>1. Change(i, "repositories", "active", shared[i] \union {r}, {r}, {})
      BY <1>5 DEF Share
    <2> QED
      BY <1>0, <2>1, ChangeOK
  <1>6. ASSUME NEW i \in Insts, NEW r \in Repos, Unshare(i, r) PROVE IInv'
    <2>1. Change(i, "repositories", "active", shared[i] \ {r}, {}, {r})
      BY <1>6 DEF Unshare
    <2> QED
      BY <1>0, <2>1, ChangeOK
  <1> QED
    BY <1>1, <1>2, <1>3, <1>4, <1>5, <1>6 DEF GitHub

-----------------------------------------------------------------------------
(***************************************************************************)
(* The requests.                                                           *)
(***************************************************************************)
LEMMA HookBecomesOK ==
  ASSUME HooksOK, NEW h \in Hooks, NEW j, HookOK(j), HookBecomes(h, j), consented' = consented
  PROVE  HooksOK'
  BY DEF HooksOK, HookBecomes, HookOK, HookState, Honest

LEMMA NoHookOK == HookOK(NoHook)
  BY EmptySeq DEF HookOK, HookState, NoHook

LEMMA ReturnedOK ==
  ASSUME NEW j, HookOK(j), j.event # None
  PROVE  HookOK(Returned(j))
  <1>1. j \in HookState /\ j.calls \in Seq(CallNames) /\ j.calls # <<>>
    BY DEF HookOK, HookState
  <1>2. CASE Len(j.calls) = 1
    BY <1>2, NoHookOK DEF Returned
  <1>3. CASE Len(j.calls) # 1
    <2>1. Tail(j.calls) \in Seq(CallNames) /\ Tail(j.calls) # <<>>
      <3>1. Len(j.calls) \in Nat \ {0}
        BY <1>1, EmptySeq
      <3>2. Tail(j.calls) \in Seq(CallNames) /\ Len(Tail(j.calls)) = Len(j.calls) - 1
        BY <1>1, HeadTailProperties
      <3>3. Len(<<>>) = 0
        OBVIOUS
      <3>4. Len(Tail(j.calls)) # 0
        BY <1>3, <3>1, <3>2
      <3> QED
        BY <3>2, <3>3, <3>4
    <2> DEFINE k == [j EXCEPT !.calls = Tail(@)]
    <2>2. /\ k \in HookState /\ k.calls = Tail(j.calls) /\ k.event = j.event /\ k.add = j.add
          /\ k.reads = j.reads
      BY <1>1, <2>1 DEF HookState
    <2>3. Returned(j) = k
      BY <1>3 DEF Returned
    <2> HIDE DEF k
    <2> QED
      BY <2>1, <2>2, <2>3 DEF HookOK
  <1> QED
    BY <1>2, <1>3

\* What is left of a loop shrinks.
LEMMA LoopOK ==
  ASSUME NEW j, HookOK(j), j.event # None, NEW add \in SUBSET j.add, NEW remove \in SUBSET Repos,
         NEW reads \in SUBSET {a \in Reads : a.repo \in add}
  PROVE  HookOK([j EXCEPT !.add = add, !.remove = remove, !.reads = reads])
  <1> DEFINE k == [j EXCEPT !.add = add, !.remove = remove, !.reads = reads]
  <1>1. j \in HookState
    BY DEF HookOK
  <1>2. /\ k \in HookState /\ k.calls = j.calls /\ k.event = j.event /\ k.add = add
        /\ k.reads = reads
    BY <1>1 DEF HookState
  <1> HIDE DEF k
  <1>3. HookOK(k)
    BY <1>2 DEF HookOK
  <1> QED
    BY <1>3 DEF k

\* A request that is not idle has an event, and all that is left of it is honest.
LEMMA BusyHook ==
  ASSUME IInv, NEW h \in Hooks, ~Idle(h)
  PROVE  /\ HookOK(hook[h])
         /\ hook[h] \in HookState
         /\ hook[h].event \in Honest /\ hook[h].event.inst \in Insts
         /\ {hook[h].event.inst} \X hook[h].add \subseteq consented
  BY DEF IInv, HooksOK, HookOK, HookState, Idle, Honest, Event

LEMMA CallsOK ==
  ASSUME NEW kind \in {"activate", "suspend", "deleted", "repositories"}
  PROVE  Calls(kind) \in Seq(CallNames) /\ Calls(kind) # <<>>
  <1>1. CASE kind = "activate"
    <2>1. Calls(kind) = <<"upsert", "member", "add">>
      BY <1>1, Zenon DEF Calls
    <2>2. <<"upsert", "member", "add">> \in Seq(CallNames)
      BY DEF CallNames
    <2>3. <<"upsert", "member", "add">> # <<>>
      OBVIOUS
    <2> QED
      BY <2>1, <2>2, <2>3, Zenon
  <1>2. CASE kind = "suspend"
    <2>1. Calls(kind) = <<"disable">>
      BY <1>2, Zenon DEF Calls
    <2>2. <<"disable">> \in Seq(CallNames)
      BY DEF CallNames
    <2>3. <<"disable">> # <<>>
      OBVIOUS
    <2> QED
      BY <2>1, <2>2, <2>3, Zenon
  <1>3. CASE kind = "deleted"
    <2>1. Calls(kind) = <<"query", "purge", "disable", "forget">>
      BY <1>3, Zenon DEF Calls
    <2>2. <<"query", "purge", "disable", "forget">> \in Seq(CallNames)
      BY DEF CallNames
    <2>3. <<"query", "purge", "disable", "forget">> # <<>>
      OBVIOUS
    <2> QED
      BY <2>1, <2>2, <2>3, Zenon
  <1>4. CASE kind = "repositories"
    <2>1. Calls(kind) = <<"add", "remove", "member">>
      BY <1>4, Zenon DEF Calls
    <2>2. <<"add", "remove", "member">> \in Seq(CallNames)
      BY DEF CallNames
    <2>3. <<"add", "remove", "member">> # <<>>
      OBVIOUS
    <2> QED
      BY <2>1, <2>2, <2>3, Zenon
  <1> QED
    BY <1>1, <1>2, <1>3, <1>4

LEMMA ReceiveOK ==
  ASSUME IInv, NEW h \in Hooks, NEW k \in DOMAIN wire, Receive(h, k)
  PROVE  IInv'
  <1> DEFINE e == wire[k]
  <1> DEFINE j == [calls |-> Calls(e.kind), event |-> e, add |-> e.added, remove |-> e.removed,
                  reads |-> {}]
  <1>1. e \in Honest /\ WireOK'
    BY WithoutSeq DEF IInv, WireOK, Receive, bounded, store, github, Honest
  <1>2. HookOK(j)
    <2>1. Calls(e.kind) \in Seq(CallNames) /\ Calls(e.kind) # <<>>
      <3>1. e.kind \in {"activate", "suspend", "deleted", "repositories"}
        BY <1>1 DEF Honest, Event
      <3> QED
        BY <3>1, CallsOK
    <2>2. e.added \subseteq Repos /\ e.removed \subseteq Repos /\ e # None
          /\ {e.inst} \X e.added \subseteq consented
      BY <1>1 DEF Honest, Event
    <2> HIDE DEF e
    <2> QED
      BY <1>1, <2>1, <2>2 DEF HookOK, HookState
  <1>3. HookBecomes(h, j) /\ consented' = consented
    BY DEF Receive
  <1>4. HooksOK'
    <2> HIDE DEF j
    <2> QED
      BY <1>2, <1>3, HookBecomesOK DEF IInv
  <1>5. GitHubOK' /\ StoreOK'
    BY DEF IInv, Receive, github, store, bounded, GitHubOK, StoreOK, LinkNeedsConsent,
       InstallationsUsable
  <1> QED
    BY <1>1, <1>4, <1>5 DEF IInv

LEMMA StoreStepsOK ==
  ASSUME IInv, NEW h \in Hooks,
         UpsertInstallation(h) \/ UpsertMember(h) \/ DisableInstallation(h) \/ DisableMember(h)
  PROVE  IInv'
  <1> USE DEF github, bounded, store
  <1>1. ~Idle(h) /\ HookBecomes(h, Returned(hook[h]))
        /\ UNCHANGED <<gh, shared, wire, events, edits, faults, repos, adding, consented>>
    BY DEF UpsertInstallation, UpsertMember, DisableInstallation, DisableMember, Calling
  <1>2. HookOK(hook[h]) /\ hook[h].event # None /\ hook[h].event.inst \in Insts
    BY <1>1, BusyHook DEF Idle
  <1>3. HooksOK'
    BY <1>1, <1>2, ReturnedOK, HookBecomesOK DEF IInv
  <1>4. GitHubOK' /\ WireOK'
    BY <1>1 DEF IInv, GitHubOK, WireOK, Honest
  <1>5. StoreOK'
    <2> DEFINE i == hook[h].event.inst
    <2>0. i \in Insts /\ AccountOf[i] \in Accounts
      BY <1>2
    <2> HIDE DEF i
    <2>1. CASE UpsertInstallation(h)
      <3>1. insts' = [insts EXCEPT ![i] = Upserted(@)] /\ members' = members
        BY <2>1 DEF UpsertInstallation, i
      <3> QED
        BY <1>1, <2>0, <3>1 DEF IInv, StoreOK, Upserted, LinkNeedsConsent, InstallationsUsable
    <2>2. CASE UpsertMember(h)
      <3>1. members' = [members EXCEPT ![AccountOf[i]] = [enabled |-> TRUE, inst |-> i]]
            /\ insts' = insts
        BY <2>2 DEF UpsertMember, i
      <3> QED
        BY <1>1, <2>0, <3>1 DEF IInv, StoreOK, LinkNeedsConsent, InstallationsUsable
    <2>3. CASE DisableInstallation(h)
      <3>1. insts' = [insts EXCEPT ![i] = Disabled(@)] /\ members' = members
        BY <2>3 DEF DisableInstallation, i
      <3>2. Disabled(insts[i]) \in [stored : BOOLEAN, named : BOOLEAN, enabled : BOOLEAN]
            /\ ~Disabled(insts[i]).enabled
        BY <2>0 DEF IInv, StoreOK, Disabled
      <3> QED
        BY <1>1, <2>0, <3>1, <3>2 DEF IInv, StoreOK, LinkNeedsConsent, InstallationsUsable
    <2>4. CASE DisableMember(h)
      <3>1. members' = [members EXCEPT ![AccountOf[i]].enabled = FALSE] /\ insts' = insts
        BY <2>4 DEF DisableMember, i
      <3> QED
        BY <1>1, <2>0, <3>1 DEF IInv, StoreOK, LinkNeedsConsent, InstallationsUsable
    <2> QED
      BY <2>1, <2>2, <2>3, <2>4
  <1> QED
    BY <1>3, <1>4, <1>5 DEF IInv

\* A disabled document of a repository keeps its link.
LEMMA DisabledRepoDoc ==
  ASSUME NEW doc \in RepoDoc
  PROVE  Disabled(doc) \in RepoDoc /\ Disabled(doc).inst = doc.inst
  BY DEF Disabled, RepoDoc

\* Either write of add links the document to the installation it is given.
LEMMA AddedRepoOK ==
  ASSUME NEW doc \in RepoDoc, NEW i \in Insts \union {None}, NEW found \in BOOLEAN
  PROVE  /\ AddedRepo(doc, i, found) \in RepoDoc
         /\ i # None => AddedRepo(doc, i, found).inst = i
         /\ i = None => AddedRepo(doc, i, found).inst \in {doc.inst, None}
  <1>1. CASE found
    BY <1>1, ZenonT(60) DEF AddedRepo, RepoDoc
  <1>2. CASE ~found
    BY <1>2 DEF AddedRepo, RepoDoc
  <1> QED
    BY <1>1, <1>2

LEMMA AddReadsOK ==
  ASSUME IInv, NEW h \in Hooks, NEW r \in Repos, AddReads(h, r)
  PROVE  IInv'
  <1> USE DEF github, bounded, store
  <1>1. ~Idle(h) /\ r \in hook[h].add
        /\ UNCHANGED <<gh, shared, wire, events, edits, faults, store, adding, consented>>
    BY DEF AddReads, Calling
  <1>2. /\ HookOK(hook[h]) /\ hook[h] \in HookState
        /\ hook[h].event # None
    BY <1>1, BusyHook DEF Idle
  <1> DEFINE found == repos[r].stored
  <1> DEFINE reads == {[repo |-> r, found |-> found]}
  <1> DEFINE j == [hook[h] EXCEPT !.reads = reads]
  <1>3. HookOK(j)
    <2>1. found \in BOOLEAN
      BY DEF IInv, StoreOK, RepoDoc
    <2> HIDE DEF found
    <2>2. reads \in SUBSET {a \in Reads : a.repo \in hook[h].add}
      BY <1>1, <2>1 DEF Reads
    <2> HIDE DEF reads
    <2>3. j = [hook[h] EXCEPT !.add = hook[h].add, !.remove = hook[h].remove, !.reads = reads]
      BY <1>2 DEF HookState
    <2>4. hook[h].remove \in SUBSET Repos /\ hook[h].add \in SUBSET hook[h].add
      BY <1>2 DEF HookState
    <2>5. HookOK([hook[h] EXCEPT !.add = hook[h].add, !.remove = hook[h].remove, !.reads = reads])
      BY <1>2, <2>2, <2>4, LoopOK
    <2> QED
      BY <2>3, <2>5
  <1>4. HookBecomes(h, j)
    BY DEF AddReads
  <1> HIDE DEF j
  <1>5. HooksOK'
    BY <1>1, <1>3, <1>4, HookBecomesOK DEF IInv
  <1> QED
    BY <1>1, <1>5 DEF IInv, GitHubOK, WireOK, StoreOK, Honest, LinkNeedsConsent, InstallationsUsable

LEMMA AddWritesOK ==
  ASSUME IInv, NEW h \in Hooks, NEW a \in Reads, AddWrites(h, a)
  PROVE  IInv'
  <1> USE DEF github, bounded, store
  <1>1. ~Idle(h) /\ UNCHANGED <<gh, shared, wire, events, edits, faults, insts, members, adding,
                                consented>>
    BY DEF AddWrites, Calling
  <1>2. /\ HookOK(hook[h]) /\ hook[h] \in HookState
        /\ hook[h].event # None /\ hook[h].event.inst \in Insts
        /\ {hook[h].event.inst} \X hook[h].add \subseteq consented
    BY <1>1, BusyHook DEF Idle
  <1>3. GitHubOK' /\ WireOK'
    BY <1>1 DEF IInv, GitHubOK, WireOK, Honest
  <1> DEFINE j == [hook[h] EXCEPT !.add = @ \ {a.repo}, !.reads = {}]
  <1>4. HookOK(j)
    <2>1. j = [hook[h] EXCEPT !.add = hook[h].add \ {a.repo}, !.remove = hook[h].remove, !.reads = {}]
      BY <1>2 DEF HookState
    <2>2. hook[h].remove \subseteq Repos
      BY <1>2 DEF HookState
    <2>3. HookOK([hook[h] EXCEPT !.add = hook[h].add \ {a.repo}, !.remove = hook[h].remove,
                                 !.reads = {}])
      BY <1>2, <2>2, LoopOK
    <2> QED
      BY <2>1, <2>3
  <1>5. HookBecomes(h, j)
    BY DEF AddWrites
  <1> HIDE DEF j
  <1>6. HooksOK'
    BY <1>1, <1>4, <1>5, HookBecomesOK DEF IInv
  <1>7. a.repo \in hook[h].add /\ a.repo \in Repos /\ a.found \in BOOLEAN
    BY <1>2 DEF AddWrites, HookOK, Reads
  <1>8. StoreOK'
    <2> DEFINE i == hook[h].event.inst
    <2> DEFINE q == a.repo
    <2>1. /\ repos' = [repos EXCEPT ![q] = AddedRepo(@, i, a.found)]
          /\ i \in Insts /\ i # None /\ q \in Repos /\ <<i, q>> \in consented
      BY <1>2, <1>7 DEF AddWrites
    <2> HIDE DEF i, q
    <2>2. repos[q] \in RepoDoc
      BY <2>1 DEF IInv, StoreOK
    <2>3. /\ AddedRepo(repos[q], i, a.found) \in RepoDoc
          /\ AddedRepo(repos[q], i, a.found).inst = i
      BY <1>7, <2>1, <2>2, AddedRepoOK
    <2> QED
      BY <1>1, <2>1, <2>3 DEF IInv, StoreOK, LinkNeedsConsent, InstallationsUsable
  <1> QED
    BY <1>3, <1>6, <1>8 DEF IInv

LEMMA DisableRepoOK ==
  ASSUME IInv, NEW h \in Hooks, NEW r \in Repos, DisableRepo(h, r)
  PROVE  IInv'
  <1> USE DEF github, bounded, store
  <1>1. ~Idle(h) /\ UNCHANGED <<gh, shared, wire, events, edits, faults, insts, members, adding,
                                consented>>
    BY DEF DisableRepo, Calling
  <1>2. /\ HookOK(hook[h]) /\ hook[h] \in HookState
        /\ hook[h].event # None /\ hook[h].event.inst \in Insts
    BY <1>1, BusyHook DEF Idle
  <1>3. GitHubOK' /\ WireOK'
    BY <1>1 DEF IInv, GitHubOK, WireOK, Honest
  <1> DEFINE j == [hook[h] EXCEPT !.remove = @ \ {r}]
  <1>4. HookOK(j)
    <2>1. j = [hook[h] EXCEPT !.add = hook[h].add, !.remove = hook[h].remove \ {r},
                              !.reads = hook[h].reads]
      BY <1>2 DEF HookState
    <2>2. hook[h].remove \ {r} \subseteq Repos
      BY <1>2 DEF HookState
    <2>3. hook[h].add \in SUBSET hook[h].add
          /\ hook[h].reads \in SUBSET {a \in Reads : a.repo \in hook[h].add}
      BY <1>2 DEF HookOK, HookState
    <2>4. HookOK([hook[h] EXCEPT !.add = hook[h].add, !.remove = hook[h].remove \ {r},
                                 !.reads = hook[h].reads])
      BY <1>2, <2>2, <2>3, LoopOK
    <2> QED
      BY <2>1, <2>4
  <1>5. HookBecomes(h, j)
    BY DEF DisableRepo
  <1> HIDE DEF j
  <1>6. HooksOK'
    BY <1>1, <1>4, <1>5, HookBecomesOK DEF IInv
  <1>7. StoreOK'
    <2>1. repos' = [repos EXCEPT ![r] = Disabled(@)]
      BY DEF DisableRepo
    <2>2. Disabled(repos[r]) \in RepoDoc /\ Disabled(repos[r]).inst = repos[r].inst
      BY DisabledRepoDoc DEF IInv, StoreOK
    <2> QED
      BY <1>1, <2>1, <2>2 DEF IInv, StoreOK, LinkNeedsConsent, InstallationsUsable
  <1> QED
    BY <1>3, <1>6, <1>7 DEF IInv

LEMMA CallsOnlyOK ==
  ASSUME IInv, NEW h \in Hooks, QueryLinked(h) \/ LoopEnds(h)
  PROVE  IInv'
  <1> USE DEF github, bounded, store
  <1>1. ~Idle(h) /\ UNCHANGED <<github, wire, store, adding, bounded, consented>>
    BY DEF QueryLinked, LoopEnds, Calling
  <1>2. HookOK(hook[h]) /\ hook[h].event # None
    BY <1>1, BusyHook DEF Idle
  <1>3. HookOK(Returned(hook[h]))
    BY <1>2, ReturnedOK
  <1>4. CASE LoopEnds(h)
    <2>1. HooksOK'
      BY <1>1, <1>3, <1>4, HookBecomesOK DEF IInv, LoopEnds
    <2> QED
      BY <1>1, <2>1 DEF IInv, GitHubOK, WireOK, StoreOK, Honest, LinkNeedsConsent,
         InstallationsUsable
  <1>5. CASE QueryLinked(h)
    <2> DEFINE S == {r \in Repos : repos[r].inst = hook[h].event.inst}
    <2> DEFINE j == [Returned(hook[h]) EXCEPT !.remove = S]
    <2>1. HookOK(j)
      <3>1. Returned(hook[h]) \in HookState
        BY <1>3 DEF HookOK
      <3>2. /\ j \in HookState /\ j.calls = Returned(hook[h]).calls
            /\ j.event = Returned(hook[h]).event /\ j.add = Returned(hook[h]).add
            /\ j.reads = Returned(hook[h]).reads
        BY <3>1 DEF HookState
      <3> HIDE DEF j
      <3> QED
        BY <1>3, <3>2 DEF HookOK
    <2>2. HookBecomes(h, j)
      BY <1>5 DEF QueryLinked
    <2> HIDE DEF j
    <2>3. HooksOK'
      BY <1>1, <2>1, <2>2, HookBecomesOK DEF IInv
    <2> QED
      BY <1>1, <2>3 DEF IInv, GitHubOK, WireOK, StoreOK, Honest, LinkNeedsConsent,
         InstallationsUsable
  <1> QED
    BY <1>4, <1>5

-----------------------------------------------------------------------------
(***************************************************************************)
(* Failures, lost and repeated events, and admins.                         *)
(***************************************************************************)
LEMMA FailsOK ==
  ASSUME IInv, NEW h \in Hooks, HandlerFails(h)
  PROVE  IInv'
  <1> USE DEF github, bounded, store
  <1>1. HooksOK'
    BY NoHookOK, HookBecomesOK DEF IInv, HandlerFails
  <1>2. WireOK'
    <2>1. hook[h].event \in Honest
      BY BusyHook DEF HandlerFails
    <2>2. <<hook[h].event>> \in Seq(Honest)
      BY <2>1
    <2>3. <<hook[h].event>> \o wire \in Seq(Honest)
      BY <2>2, ConcatProperties DEF IInv, WireOK
    <2> QED
      BY <2>3 DEF HandlerFails, WireOK, Honest
  <1>3. GitHubOK' /\ StoreOK'
    BY DEF IInv, HandlerFails, Fault, GitHubOK, StoreOK, LinkNeedsConsent, InstallationsUsable
  <1> QED
    BY <1>1, <1>2, <1>3 DEF IInv

LEMMA WireStepsOK ==
  ASSUME IInv, NEW k \in DOMAIN wire, Lose(k) \/ Repeat(k)
  PROVE  IInv'
  <1> USE DEF github, bounded, store
  <1>1. WireOK'
    <2>1. wire \in Seq(Honest) /\ Honest' = Honest
      BY DEF IInv, WireOK, Lose, Repeat, Honest
    <2>2. Without(wire, k) \in Seq(Honest)
      BY <2>1, WithoutSeq
    <2>3. SubSeq(wire, 1, k) \o SubSeq(wire, k, Len(wire)) \in Seq(Honest)
      BY <2>1, RepeatSeq
    <2>4. wire' \in Seq(Honest)
      BY <2>2, <2>3 DEF Lose, Repeat
    <2> QED
      BY <2>1, <2>4 DEF WireOK
  <1>2. HooksOK'
    BY DEF IInv, Lose, Repeat, HooksOK, HookOK, HookState, Honest
  <1>3. GitHubOK' /\ StoreOK'
    BY DEF IInv, Lose, Repeat, Fault, GitHubOK, StoreOK, LinkNeedsConsent, InstallationsUsable
  <1> QED
    BY <1>1, <1>2, <1>3 DEF IInv

LEMMA AdminAddReadsOK ==
  ASSUME IInv, NEW r \in Repos, AdminAddReads(r)
  PROVE  IInv'
  <1> USE DEF github, bounded, store
  <1>1. GitHubOK' /\ WireOK' /\ HooksOK'
    BY DEF IInv, AdminAddReads, GitHubOK, WireOK, HooksOK, HookOK, HookState, Honest
  <1>2. edits' \in 1 .. MaxEdits /\ repos[r].stored \in BOOLEAN
    BY DEF IInv, StoreOK, AdminAddReads, Edit, RepoDoc
  <1>3. adding' \subseteq [edit : 1 .. MaxEdits, repo : Repos, found : BOOLEAN]
    BY <1>2 DEF IInv, StoreOK, AdminAddReads
  <1>4. StoreOK'
    BY <1>2, <1>3 DEF IInv, StoreOK, AdminAddReads, LinkNeedsConsent, InstallationsUsable
  <1> QED
    BY <1>1, <1>4 DEF IInv

LEMMA AdminOK ==
  ASSUME IInv,
         \/ \E r \in Repos : AdminRemove(r)
         \/ \E a \in adding : AdminAddWrites(a)
  PROVE  IInv'
  <1> USE DEF github, bounded, store
  <1>1. GitHubOK' /\ WireOK' /\ HooksOK' /\ insts' = insts /\ members' = members
        /\ consented' = consented
    BY DEF IInv, AdminAddWrites, AdminRemove, GitHubOK, WireOK, HooksOK, HookOK, HookState, Honest
  <1>2. /\ adding' \subseteq adding
        /\ edits' \in 0 .. MaxEdits /\ faults' \in 0 .. MaxFaults
    BY DEF IInv, StoreOK, AdminAddWrites, AdminRemove, Edit
  <1>3. PICK r \in Repos, doc \in RepoDoc : /\ repos' = [repos EXCEPT ![r] = doc]
                                           /\ doc.inst \in {repos[r].inst, None}
    <2>1. CASE \E r \in Repos : AdminRemove(r)
      <3>1. MissingRepo \in RepoDoc /\ MissingRepo.inst = None
        BY DEF MissingRepo, RepoDoc
      <3> QED
        BY <2>1, <3>1 DEF AdminRemove
    <2>2. ASSUME NEW a \in adding, AdminAddWrites(a)
          PROVE  \E r \in Repos, doc \in RepoDoc : /\ repos' = [repos EXCEPT ![r] = doc]
                                                   /\ doc.inst \in {repos[r].inst, None}
      <3> DEFINE q == a.repo
      <3> DEFINE doc == AddedRepo(repos[q], None, a.found)
      <3>1. q \in Repos /\ a.found \in BOOLEAN /\ repos[q] \in RepoDoc
        BY DEF IInv, StoreOK
      <3>2. repos' = [repos EXCEPT ![q] = doc]
        BY <2>2 DEF AdminAddWrites
      <3> HIDE DEF q
      <3>3. doc \in RepoDoc /\ doc.inst \in {repos[q].inst, None}
        BY <3>1, AddedRepoOK
      <3> HIDE DEF doc
      <3> QED
        BY <3>1, <3>2, <3>3
    <2> QED
      BY <2>1, <2>2
  <1>4. StoreOK'
    BY <1>1, <1>2, <1>3 DEF IInv, StoreOK, LinkNeedsConsent, InstallationsUsable
  <1> QED
    BY <1>1, <1>4 DEF IInv

LEMMA IInvNext == IInv /\ [Next]_vars => IInv'
  <1> SUFFICES ASSUME IInv, [Next]_vars PROVE IInv'
    OBVIOUS
  <1>1. CASE UNCHANGED vars
    BY <1>1 DEF vars, github, store, bounded, IInv, GitHubOK, WireOK, HooksOK, HookOK, HookState,
       Honest, StoreOK, LinkNeedsConsent, InstallationsUsable
  <1>2. ASSUME NEW h \in Hooks, Handle(h) PROVE IInv'
    BY <1>2, ReceiveOK, StoreStepsOK, AddReadsOK, AddWritesOK, DisableRepoOK, CallsOnlyOK DEF Handle
  <1> QED
    BY <1>1, <1>2, GitHubSteps, FailsOK, WireStepsOK, AdminAddReadsOK, AdminOK DEF Next

-----------------------------------------------------------------------------
LEMMA IInvTyped == IInv => TypeOK
  <1> SUFFICES ASSUME IInv PROVE TypeOK
    OBVIOUS
  <1>1. wire \in Seq(Event)
    BY SeqMonotonic DEF IInv, WireOK, Honest
  <1>2. \A h \in Hooks :
          /\ hook[h].event \in Event \union {None}
          /\ (hook[h].calls = <<>>) <=> (hook[h].event = None)
          /\ hook[h].add \subseteq Repos /\ hook[h].remove \subseteq Repos
          /\ hook[h].reads \subseteq {a \in Reads : a.repo \in hook[h].add}
    BY DEF IInv, HooksOK, HookOK, HookState, Honest
  <1> QED
    BY <1>1, <1>2 DEF IInv, GitHubOK, StoreOK, TypeOK

\* The collections, the events on their way and the requests keep their shape.
THEOREM TypeCorrect == Spec => []TypeOK
  <1> QED
    BY IInvInit, IInvNext, IInvTyped, PTL DEF Spec

\* A repository is linked only to an installation that shared it at some time,
\* whatever happens to the events, and whatever admins do.
THEOREM LinksConsented == Spec => []LinkNeedsConsent
  <1>1. IInv => LinkNeedsConsent
    BY DEF IInv, StoreOK
  <1> QED
    BY <1>1, IInvInit, IInvNext, PTL DEF Spec

\* The fan-out finds the id of every enabled installation.
THEOREM EnabledUsable == Spec => []InstallationsUsable
  <1>1. IInv => InstallationsUsable
    BY DEF IInv, StoreOK
  <1> QED
    BY <1>1, IInvInit, IInvNext, PTL DEF Spec

-----------------------------------------------------------------------------
\* What the history of a handler knows: it lacks nothing the installation shares
\* now, and what was found in private repositories was read with its consent.
JobSound(w) ==
  job[w].pc # "idle" =>
    /\ Open[job[w].inst] \subseteq job[w].open
    /\ job[w].section \ Public \subseteq job[w].open

MInv == IInv /\ JobTypeOK /\ \A w \in Workers : JobSound(w)

LEMMA NoJobIsJob == NoJob \in Job
  BY DEF NoJob, Job

\* The job that a handler begins with, whatever its installation opens.
LEMMA BegunJob ==
  ASSUME NEW i \in Insts, NEW open \in SUBSET Repos
  PROVE  LET j == [NoJob EXCEPT !.pc = "list", !.inst = i, !.open = open]
         IN  /\ j \in Job /\ j.pc = "list" /\ j.inst = i /\ j.open = open
             /\ j.section = {} /\ j.owed = {}
  BY DEF NoJob, Job

LEMMA MInvInit == MemberInit => MInv
  BY IInvInit, NoJobIsJob DEF MemberInit, MInv, JobTypeOK, JobSound, NoJob

\* A step of one handler replaces the job of its worker.
LEMMA JobStep ==
  ASSUME MInv, NEW w \in Workers, NEW j \in Job, JobBecomes(w, j), UNCHANGED <<gh, shared>>,
         j.pc = "idle" <=> j.inst = None,
         j.pc = "idle" => j = NoJob,
         j.owed \subseteq j.section,
         j.pc # "idle" => /\ Open[j.inst] \subseteq j.open
                          /\ j.section \ Public \subseteq j.open
  PROVE  JobTypeOK' /\ \A x \in Workers : JobSound(x)'
  <1>1. Open' = Open
    BY DEF Open
  <1>2. job' \in [Workers -> Job] /\ job'[w] = j /\ \A x \in Workers \ {w} : job'[x] = job[x]
    BY DEF MInv, JobTypeOK, JobBecomes
  <1> QED
    BY <1>1, <1>2 DEF MInv, JobTypeOK, JobSound

LEMMA Ends ==
  ASSUME MInv, NEW w \in Workers, JobBecomes(w, NoJob), UNCHANGED <<gh, shared>>
  PROVE  JobTypeOK' /\ \A x \in Workers : JobSound(x)'
  <1>1. NoJob.pc = "idle" /\ NoJob.inst = None /\ NoJob.owed \subseteq NoJob.section
    BY DEF NoJob
  <1> QED
    BY <1>1, NoJobIsJob, JobStep

LEMMA ElsewhereOK == MInv /\ Elsewhere => MInv'
  <1> SUFFICES ASSUME MInv, Elsewhere PROVE MInv'
    OBVIOUS
  <1>1. IInv'
    BY IInvNext DEF MInv, Elsewhere
  <1>2. \A i \in Insts : Open'[i] \subseteq Repos
    BY <1>1 DEF IInv, GitHubOK, Open
  <1>3. ASSUME NEW w \in Workers
        PROVE  /\ job'[w] \in Job
               /\ job'[w].pc = job[w].pc /\ job'[w].inst = job[w].inst
               /\ job'[w].section = job[w].section /\ job'[w].owed = job[w].owed
               /\ IF job[w].pc = "idle" THEN job'[w] = job[w]
                  ELSE job'[w].open = job[w].open \union Open'[job[w].inst]
    <2>1. job[w] \in Job
      BY DEF MInv, JobTypeOK
    <2>2. CASE job[w].pc = "idle"
      BY <2>1, <2>2 DEF Elsewhere
    <2>3. CASE job[w].pc # "idle"
      <3>1. job[w].inst \in Insts
        BY <2>1, <2>3 DEF MInv, JobTypeOK, Job
      <3>2. Open'[job[w].inst] \subseteq Repos
        BY <1>2, <3>1
      <3> DEFINE open == job[w].open \union Open'[job[w].inst]
      <3>3. open \subseteq Repos
        BY <2>1, <3>2 DEF Job
      <3>4. job'[w] = [job[w] EXCEPT !.open = open]
        BY <2>3 DEF Elsewhere
      <3>5. open = job[w].open \union Open'[job[w].inst]
        OBVIOUS
      <3> HIDE DEF open
      <3> QED
        BY <2>1, <2>3, <3>3, <3>4, <3>5 DEF Job
    <2> QED
      BY <2>2, <2>3
  <1>4. job' \in [Workers -> Job]
    <2>1. job' = [w \in Workers |-> job'[w]]
      BY DEF Elsewhere
    <2> QED
      BY <1>3, <2>1
  <1>5. JobTypeOK'
    BY <1>3, <1>4 DEF MInv, JobTypeOK
  <1>6. \A w \in Workers : JobSound(w)'
    BY <1>3 DEF MInv, JobSound
  <1> QED
    BY <1>1, <1>5, <1>6 DEF MInv

LEMMA HandlerOK ==
  ASSUME MInv, NEW w \in Workers, Handler(w)
  PROVE  MInv'
  <1> USE DEF vars, github, store, bounded
  <1>0. job[w] \in Job /\ job \in [Workers -> Job]
        /\ (job[w].pc # "idle" => job[w].inst \in Insts)
    BY DEF MInv, JobTypeOK, Job
  <1>t. shared \in [Insts -> SUBSET Repos] /\ repos \in [Repos -> RepoDoc]
    BY DEF MInv, IInv, GitHubOK, StoreOK
  <1>u. ASSUME UNCHANGED vars PROVE IInv'
    BY <1>u, IInvNext DEF MInv
  <1>1. ASSUME NEW i \in Insts, Begin(w, i) PROVE MInv'
    <2> DEFINE j == [NoJob EXCEPT !.pc = "list", !.inst = i, !.open = Open[i]]
    <2>1. /\ j \in Job /\ j.pc = "list" /\ j.inst = i /\ j.open = Open[i]
          /\ j.section = {} /\ j.owed = {}
      <3>1. Open[i] \subseteq Repos
        <4>1. Open[i] = IF gh[i] = "active" THEN shared[i] ELSE {}
          BY DEF Open
        <4>2. shared[i] \subseteq Repos
          BY <1>t
        <4> QED
          BY <4>1, <4>2
      <3>2. Open[i] \in SUBSET Repos
        BY <3>1
      <3> QED
        BY <3>2, BegunJob
    <2>2. JobBecomes(w, j) /\ UNCHANGED vars
      BY <1>1 DEF Begin
    <2> HIDE DEF j
    <2>3. JobTypeOK' /\ \A x \in Workers : JobSound(x)'
      BY <2>1, <2>2, JobStep
    <2> QED
      BY <1>u, <2>2, <2>3 DEF MInv
  <1>2. ASSUME JobBecomes(w, NoJob), UNCHANGED vars PROVE MInv'
    BY <1>2, <1>u, Ends DEF MInv
  <1>3. CASE List(w)
    <2>1. CASE Linked(job[w].inst) = {}
      BY <1>2, <1>3, <2>1 DEF List
    <2>2. CASE Linked(job[w].inst) # {}
      <3> DEFINE S == Linked(job[w].inst)
      <3> DEFINE j == [job[w] EXCEPT !.pc = "mint", !.todo = S]
      <3>1. S \subseteq Repos
        BY DEF Linked
      <3>2. /\ j \in Job /\ j.pc = "mint" /\ j.inst = job[w].inst /\ j.open = job[w].open
            /\ j.section = job[w].section /\ j.owed = job[w].owed
        <4> HIDE DEF S
        <4> QED
          BY <1>0, <3>1 DEF Job
      <3>3. JobBecomes(w, j) /\ UNCHANGED vars /\ job[w].pc # "idle"
        BY <1>3, <2>2 DEF List
      <3> HIDE DEF j
      <3>4. JobTypeOK' /\ \A x \in Workers : JobSound(x)'
        BY <1>0, <3>2, <3>3, JobStep DEF MInv, JobTypeOK, JobSound
      <3> QED
        BY <1>u, <3>3, <3>4 DEF MInv
    <2> QED
      BY <2>1, <2>2
  <1>4. CASE Mint(w)
    <2> DEFINE j == [job[w] EXCEPT !.pc = "scan"]
    <2>1. /\ j \in Job /\ j.pc = "scan" /\ j.inst = job[w].inst /\ j.open = job[w].open
          /\ j.section = job[w].section /\ j.owed = job[w].owed
      BY <1>0 DEF Job
    <2>2. JobBecomes(w, j) /\ UNCHANGED vars /\ job[w].pc # "idle"
      BY <1>4 DEF Mint
    <2> HIDE DEF j
    <2>3. JobTypeOK' /\ \A x \in Workers : JobSound(x)'
      BY <1>0, <2>1, <2>2, JobStep DEF MInv, JobTypeOK, JobSound
    <2> QED
      BY <1>u, <2>2, <2>3 DEF MInv
  <1>5. ASSUME NEW r \in Repos, Scan(w, r) PROVE MInv'
    <2>1. PICK news \in {{}, {r}} :
            JobBecomes(w, [job[w] EXCEPT !.todo = @ \ {r}, !.section = @ \union news])
      BY <1>5 DEF Scan
    <2> DEFINE j == [job[w] EXCEPT !.todo = @ \ {r}, !.section = @ \union news]
    <2>2. /\ j \in Job /\ j.pc = job[w].pc /\ j.inst = job[w].inst /\ j.open = job[w].open
          /\ j.section = job[w].section \union news /\ j.owed = job[w].owed
      BY <1>0 DEF Job
    <2>3. JobBecomes(w, j) /\ UNCHANGED vars /\ job[w].pc # "idle"
      BY <1>5, <2>1 DEF Scan
    <2> HIDE DEF j
    <2>4. r \in Open[job[w].inst] \union Public
      BY <1>0, <1>5, <2>3 DEF Scan, Readable, Open
    <2>5. JobTypeOK' /\ \A x \in Workers : JobSound(x)'
      <3>1. Open[j.inst] \subseteq j.open /\ j.section \ Public \subseteq j.open
        BY <2>2, <2>3, <2>4 DEF MInv, JobSound
      <3>2. j.owed \subseteq j.section
        BY <2>2 DEF MInv, JobTypeOK
      <3>3. j.inst # None
        BY <1>0, <2>2, <2>3
      <3>4. j.pc # "idle" /\ UNCHANGED <<gh, shared>>
        BY <2>2, <2>3
      <3> QED
        BY <2>2, <2>3, <3>1, <3>2, <3>3, <3>4, JobStep
    <2> QED
      BY <1>u, <2>3, <2>5 DEF MInv
  <1>6. CASE Post(w)
    <2>1. CASE job[w].section = {}
      BY <1>2, <1>6, <2>1 DEF Post
    <2>2. CASE job[w].section # {}
      <3> DEFINE j == [job[w] EXCEPT !.pc = "write", !.owed = job[w].section]
      <3>1. /\ j \in Job /\ j.pc = "write" /\ j.inst = job[w].inst /\ j.open = job[w].open
            /\ j.section = job[w].section /\ j.owed = job[w].section
        BY <1>0 DEF Job
      <3>2. JobBecomes(w, j) /\ UNCHANGED vars /\ job[w].pc # "idle"
        BY <1>6, <2>2 DEF Post
      <3> HIDE DEF j
      <3>3. JobTypeOK' /\ \A x \in Workers : JobSound(x)'
        BY <1>0, <3>1, <3>2, JobStep DEF MInv, JobTypeOK, JobSound
      <3> QED
        BY <1>u, <3>2, <3>3 DEF MInv
    <2> QED
      BY <2>1, <2>2
  <1>7. ASSUME NEW r \in Repos, Write(w, r) PROVE MInv'
    <2>1. IInv'
      <3>1. GitHubOK' /\ WireOK' /\ HooksOK'
        BY <1>7 DEF Write, MInv, IInv, GitHubOK, WireOK, HooksOK, HookOK, HookState, Honest
      <3>2. CursorMerged(repos[r]) \in RepoDoc /\ CursorMerged(repos[r]).inst = repos[r].inst
        BY <1>t DEF CursorMerged, RepoDoc
      <3>3. StoreOK'
        BY <1>7, <3>2 DEF Write, MInv, IInv, StoreOK, LinkNeedsConsent, InstallationsUsable
      <3> QED
        BY <3>1, <3>3 DEF IInv
    <2>2. CASE job[w].owed = {r}
      BY <1>7, <2>1, <2>2, Ends DEF Write, MInv
    <2>3. CASE job[w].owed # {r}
      <3> DEFINE j == [job[w] EXCEPT !.owed = @ \ {r}]
      <3>1. /\ j \in Job /\ j.pc = job[w].pc /\ j.inst = job[w].inst /\ j.open = job[w].open
            /\ j.section = job[w].section /\ j.owed = job[w].owed \ {r}
        BY <1>0 DEF Job
      <3>2. JobBecomes(w, j) /\ UNCHANGED <<gh, shared>> /\ job[w].pc # "idle"
        BY <1>7, <2>3 DEF Write
      <3> HIDE DEF j
      <3>3. JobTypeOK' /\ \A x \in Workers : JobSound(x)'
        <4>1. j.owed \subseteq j.section
          BY <3>1 DEF MInv, JobTypeOK
        <4> QED
          BY <1>0, <3>1, <3>2, <4>1, JobStep DEF MInv, JobTypeOK, JobSound
      <3> QED
        BY <2>1, <3>3 DEF MInv
    <2> QED
      BY <2>2, <2>3
  <1>8. CASE Fails(w)
    BY <1>2, <1>8 DEF Fails
  <1> QED
    BY <1>1, <1>3, <1>4, <1>5, <1>6, <1>7, <1>8 DEF Handler

LEMMA MInvNext == MInv /\ [MemberNext]_allVars => MInv'
  <1>1. ASSUME MInv, UNCHANGED allVars PROVE MInv'
    <2>1. UNCHANGED vars /\ job' = job
      BY <1>1 DEF allVars
    <2>2. IInv'
      BY <1>1, <2>1, IInvNext DEF MInv
    <2>3. Open' = Open
      BY <2>1 DEF Open, vars, github
    <2> QED
      BY <1>1, <2>1, <2>2, <2>3 DEF MInv, JobTypeOK, JobSound
  <1> QED
    BY <1>1, ElsewhereOK, HandlerOK DEF MemberNext

-----------------------------------------------------------------------------
\* The handlers keep their shape.
THEOREM JobsTyped == MemberSpec => []JobTypeOK
  <1>1. MInv => JobTypeOK
    BY DEF MInv
  <1> QED
    BY <1>1, MInvInit, MInvNext, PTL DEF MemberSpec

\* What is read for a member is reported only with the member's consent.
THEOREM SectionsSound == MemberSpec => []SectionsConsented
  <1>1. MInv => SectionsConsented
    BY DEF MInv, JobSound, SectionsConsented
  <1> QED
    BY <1>1, MInvInit, MInvNext, PTL DEF MemberSpec

\* With handlers in flight, whose merges may bring removed documents back, a
\* link still needs consent and an enabled installation its id.
THEOREM MembersKeepStore == MemberSpec => [](TypeOK /\ LinkNeedsConsent /\ InstallationsUsable)
  <1>1. MInv => TypeOK /\ LinkNeedsConsent /\ InstallationsUsable
    BY IInvTyped DEF MInv, IInv, StoreOK
  <1> QED
    BY <1>1, MInvInit, MInvNext, PTL DEF MemberSpec
=============================================================================
