---------------------------- MODULE Synced_proofs -----------------------------
(***************************************************************************)
(* Proof that the store says what GitHub says once every event is handled, *)
(* for any number of installations, accounts and repositories, and however *)
(* often a handler fails part of the way or an event comes twice: provided *)
(* that one event is handled after the other, in the order GitHub sent     *)
(* them, and that admins keep out of it.                                   *)
(***************************************************************************)
EXTENDS MemberDigest_proofs

USE InstallationsAssumption, EventAssumption

-----------------------------------------------------------------------------
(***************************************************************************)
(* A part of the store, and the events that matter to it.                  *)
(*                                                                         *)
(* What GitHub says now is told by the last event on the wire that matters *)
(* to the part; without such an event, by the event being handled; and     *)
(* once that one has nothing left to write there, by the store.            *)
(***************************************************************************)
Clear(s, Rel) == \A k \in DOMAIN s : s[k] \notin Rel

LastIs(s, Rel, Good) ==
  \A k \in DOMAIN s :
    s[k] \in Rel /\ (\A l \in DOMAIN s : l > k => s[l] \notin Rel) => s[k] \in Good

\* The events of E are being handled; the requests of W have yet to write this
\* part; Right says that the part is right.
Told(s, E, Rel, Good, W, Right) ==
  /\ LastIs(s, Rel, Good)
  /\ Clear(s, Rel) =>
       /\ E \intersect Rel \subseteq Good
       /\ W = {} => Right

\* GitHub sends an event that matters: it tells what is true now.
LEMMA NewsTold ==
  ASSUME NEW S, NEW s \in Seq(S), NEW e \in S, NEW E, NEW Rel, NEW Good, NEW W, NEW Right,
         e \in Rel, e \in Good
  PROVE  Told(Append(s, e), E, Rel, Good, W, Right)
  <1> DEFINE t == Append(s, e)
  <1>1. /\ Len(s) \in Nat /\ DOMAIN t = 1 .. Len(s) + 1 /\ t[Len(s) + 1] = e
        /\ \A k \in 1 .. Len(s) : t[k] = s[k]
    BY AppendProperties, LenProperties
  <1> HIDE DEF t
  <1>2. LastIs(t, Rel, Good) /\ ~Clear(t, Rel)
    BY <1>1 DEF LastIs, Clear
  <1> QED
    BY <1>2 DEF Told, t

\* GitHub sends one that does not matter.
LEMMA OtherNewsTold ==
  ASSUME NEW S, NEW s \in Seq(S), NEW e \in S, NEW E, NEW Rel, NEW Good, NEW W, NEW Right,
         e \notin Rel, Told(s, E, Rel, Good, W, Right)
  PROVE  Told(Append(s, e), E, Rel, Good, W, Right)
  <1> DEFINE t == Append(s, e)
  <1>1. /\ Len(s) \in Nat /\ DOMAIN t = 1 .. Len(s) + 1 /\ t[Len(s) + 1] = e
        /\ DOMAIN s = 1 .. Len(s)
        /\ \A k \in 1 .. Len(s) : t[k] = s[k]
    BY AppendProperties, LenProperties
  <1> HIDE DEF t
  <1>2. Clear(t, Rel) => Clear(s, Rel)
    BY <1>1 DEF Clear
  <1>3. LastIs(t, Rel, Good)
    <2> SUFFICES ASSUME NEW k \in DOMAIN t, t[k] \in Rel,
                        \A l \in DOMAIN t : l > k => t[l] \notin Rel
                 PROVE  t[k] \in Good
      BY DEF LastIs
    <2>1. k \in DOMAIN s /\ s[k] = t[k]
      BY <1>1
    <2>2. \A l \in DOMAIN s : l > k => s[l] \notin Rel
      BY <1>1
    <2> QED
      BY <2>1, <2>2 DEF Told, LastIs
  <1> QED
    BY <1>2, <1>3 DEF Told, t

\* The first event of the wire.
LEMMA WithoutFirst ==
  ASSUME NEW S, NEW s \in Seq(S), s # <<>>
  PROVE  LET t == Without(s, 1)
         IN  /\ Len(s) \in Nat \ {0} /\ DOMAIN s = 1 .. Len(s)
             /\ DOMAIN t = 1 .. Len(s) - 1
             /\ \A k \in 1 .. Len(s) - 1 : t[k] = s[k + 1]
  <1>1. Len(s) \in Nat \ {0} /\ DOMAIN s = 1 .. Len(s)
    BY LenProperties, EmptySeq
  <1>2. \A m \in 1 .. Len(s) : s[m] \in S
    BY ElementOfSeq
  <1>3. /\ SubSeq(s, 1, 0) \in Seq(S) /\ Len(SubSeq(s, 1, 0)) = 0
    BY <1>1, SubSeqProperties
  <1>4. /\ SubSeq(s, 2, Len(s)) \in Seq(S) /\ Len(SubSeq(s, 2, Len(s))) = Len(s) - 1
        /\ \A k \in 1 .. Len(s) - 1 : SubSeq(s, 2, Len(s))[k] = s[k + 1]
    BY <1>1, <1>2, SubSeqProperties
  <1>5. Without(s, 1) = SubSeq(s, 1, 0) \o SubSeq(s, 2, Len(s))
    BY DEF Without
  <1> QED
    BY <1>1, <1>3, <1>4, <1>5, ConcatProperties

\* A request takes the first event off the wire, while no other is being
\* handled: if it matters, it has yet to be written.
LEMMA ReceivedTold ==
  ASSUME NEW S, NEW s \in Seq(S), s # <<>>, NEW E, NEW F, NEW Rel, NEW Good, NEW W, NEW X, NEW Right,
         Told(s, E, Rel, Good, W, Right),
         F \intersect Rel \subseteq {s[1]},
         s[1] \in Rel => X # {},
         X = {} => W = {}
  PROVE  Told(Without(s, 1), F, Rel, Good, X, Right)
  <1> DEFINE t == Without(s, 1)
  <1>1. /\ Len(s) \in Nat \ {0} /\ DOMAIN s = 1 .. Len(s)
        /\ DOMAIN t = 1 .. Len(s) - 1
        /\ \A k \in 1 .. Len(s) - 1 : t[k] = s[k + 1]
    BY WithoutFirst
  <1> HIDE DEF t
  <1>2. \A k \in DOMAIN s : k = 1 \/ (k - 1 \in DOMAIN t /\ t[k - 1] = s[k])
    BY <1>1
  <1>3. LastIs(t, Rel, Good)
    <2> SUFFICES ASSUME NEW k \in DOMAIN t, t[k] \in Rel,
                        \A l \in DOMAIN t : l > k => t[l] \notin Rel
                 PROVE  t[k] \in Good
      BY DEF LastIs
    <2>1. k + 1 \in DOMAIN s /\ s[k + 1] = t[k] /\ k \in Nat
      BY <1>1
    <2>2. ASSUME NEW l \in DOMAIN s, l > k + 1 PROVE s[l] \notin Rel
      <3>1. l - 1 \in DOMAIN t /\ t[l - 1] = s[l] /\ l - 1 > k
        BY <1>1, <2>1, <2>2
      <3> QED
        BY <3>1
    <2> QED
      BY <2>1, <2>2 DEF Told, LastIs
  <1>4. ASSUME Clear(t, Rel) PROVE \A l \in DOMAIN s : l > 1 => s[l] \notin Rel
    BY <1>1, <1>2, <1>4 DEF Clear
  <1>5. 1 \in DOMAIN s
    BY <1>1
  <1>6. CASE s[1] \in Rel
    <2>1. Clear(t, Rel) => s[1] \in Good
      BY <1>4, <1>5, <1>6 DEF Told, LastIs
    <2> QED
      BY <1>3, <1>6, <2>1 DEF Told, t
  <1>7. CASE s[1] \notin Rel
    <2>1. Clear(t, Rel) => Clear(s, Rel)
      BY <1>1, <1>4, <1>7 DEF Clear
    <2> QED
      BY <1>3, <1>7, <2>1 DEF Told, t
  <1> QED
    BY <1>6, <1>7

\* A request fails, and its event is back on the wire before all others.
LEMMA FailedTold ==
  ASSUME NEW S, NEW s \in Seq(S), NEW e \in S, NEW E, NEW F, NEW Rel, NEW Good, NEW W, NEW X, NEW Right,
         Told(s, E, Rel, Good, W, Right),
         e \in E,
         F \intersect Rel \subseteq E,
         e \notin Rel /\ X = {} => W = {}
  PROVE  Told(<<e>> \o s, F, Rel, Good, X, Right)
  <1> DEFINE t == <<e>> \o s
  <1>1. /\ Len(s) \in Nat /\ DOMAIN s = 1 .. Len(s) /\ DOMAIN t = 1 .. Len(s) + 1
        /\ t[1] = e /\ \A k \in 1 .. Len(s) : t[k + 1] = s[k]
    <2>1. <<e>> \in Seq(S) /\ Len(<<e>>) = 1 /\ <<e>>[1] = e
      OBVIOUS
    <2>2. Len(s) \in Nat /\ DOMAIN s = 1 .. Len(s)
      BY LenProperties
    <2> QED
      BY <2>1, <2>2, ConcatProperties
  <1> HIDE DEF t
  <1>2. Clear(t, Rel) => Clear(s, Rel) /\ e \notin Rel
    BY <1>1 DEF Clear
  <1>3. LastIs(t, Rel, Good)
    <2> SUFFICES ASSUME NEW k \in DOMAIN t, t[k] \in Rel,
                        \A l \in DOMAIN t : l > k => t[l] \notin Rel
                 PROVE  t[k] \in Good
      BY DEF LastIs
    <2>1. ASSUME NEW l \in DOMAIN s, l + 1 > k PROVE s[l] \notin Rel
      BY <1>1, <2>1
    <2>2. CASE k = 1
      <3>1. Clear(s, Rel)
        BY <1>1, <2>1, <2>2 DEF Clear
      <3> QED
        BY <1>1, <2>2, <3>1 DEF Told
    <2>3. CASE k # 1
      <3>1. k - 1 \in DOMAIN s /\ s[k - 1] = t[k]
        BY <1>1, <2>3
      <3>2. \A l \in DOMAIN s : l > k - 1 => s[l] \notin Rel
        BY <1>1, <2>1
      <3> QED
        BY <3>1, <3>2 DEF Told, LastIs
    <2> QED
      BY <2>2, <2>3
  <1> QED
    BY <1>2, <1>3 DEF Told, t

\* An event comes twice.
LEMMA RepeatedTold ==
  ASSUME NEW S, NEW s \in Seq(S), NEW k \in DOMAIN s, NEW E, NEW Rel, NEW Good, NEW W, NEW Right,
         Told(s, E, Rel, Good, W, Right)
  PROVE  Told(SubSeq(s, 1, k) \o SubSeq(s, k, Len(s)), E, Rel, Good, W, Right)
  <1> DEFINE t == SubSeq(s, 1, k) \o SubSeq(s, k, Len(s))
  <1>1. /\ Len(s) \in Nat /\ DOMAIN s = 1 .. Len(s) /\ DOMAIN t = 1 .. Len(s) + 1
        /\ \A m \in 1 .. k : t[m] = s[m]
        /\ \A m \in k + 1 .. Len(s) + 1 : t[m] = s[m - 1]
    <2>1. k \in 1 .. Len(s) /\ Len(s) \in Nat /\ DOMAIN s = 1 .. Len(s)
      BY LenProperties
    <2>2. \A m \in 1 .. Len(s) : s[m] \in S
      BY ElementOfSeq
    <2>3. /\ SubSeq(s, 1, k) \in Seq(S) /\ Len(SubSeq(s, 1, k)) = k
          /\ \A m \in 1 .. k : SubSeq(s, 1, k)[m] = s[m]
      BY <2>1, <2>2, SubSeqProperties
    <2>4. /\ SubSeq(s, k, Len(s)) \in Seq(S) /\ Len(SubSeq(s, k, Len(s))) = Len(s) - k + 1
          /\ \A m \in 1 .. Len(s) - k + 1 : SubSeq(s, k, Len(s))[m] = s[k + m - 1]
      BY <2>1, <2>2, SubSeqProperties, SMTT(30)
    <2>5. /\ DOMAIN t = 1 .. Len(s) + 1
          /\ \A m \in 1 .. Len(s) + 1 :
               t[m] = IF m <= k THEN SubSeq(s, 1, k)[m] ELSE SubSeq(s, k, Len(s))[m - k]
      BY <2>1, <2>3, <2>4, ConcatProperties, SMTT(30)
    <2> HIDE DEF t
    <2>6. ASSUME NEW m \in 1 .. k PROVE t[m] = s[m]
      BY <2>1, <2>3, <2>5
    <2>7. ASSUME NEW m \in k + 1 .. Len(s) + 1 PROVE t[m] = s[m - 1]
      <3>1. m \in 1 .. Len(s) + 1 /\ ~(m <= k) /\ m - k \in 1 .. Len(s) - k + 1 /\ k + (m - k) - 1 = m - 1
        BY <2>1
      <3> QED
        BY <2>4, <2>5, <3>1
    <2> QED
      BY <2>1, <2>5, <2>6, <2>7
  <1> HIDE DEF t
  <1>2. ASSUME NEW m \in DOMAIN s
        PROVE  \E n \in DOMAIN t : t[n] = s[m]
    <2>1. k \in 1 .. Len(s) /\ m \in 1 .. Len(s)
      BY <1>1
    <2>2. CASE m <= k
      <3>1. m \in DOMAIN t /\ t[m] = s[m]
        BY <1>1, <2>1, <2>2
      <3> QED
        BY <3>1
    <2>3. CASE m > k
      <3>1. m + 1 \in DOMAIN t /\ t[m + 1] = s[m]
        BY <1>1, <2>1, <2>3
      <3> QED
        BY <3>1
    <2> QED
      BY <2>1, <2>2, <2>3
  <1>3. Clear(t, Rel) => Clear(s, Rel)
    BY <1>2 DEF Clear
  <1>4. LastIs(t, Rel, Good)
    <2> SUFFICES ASSUME NEW m \in DOMAIN t, t[m] \in Rel,
                        \A l \in DOMAIN t : l > m => t[l] \notin Rel
                 PROVE  t[m] \in Good
      BY DEF LastIs
    <2> DEFINE n == IF m <= k THEN m ELSE m - 1
    <2>1. n \in DOMAIN s /\ s[n] = t[m]
      BY <1>1
    <2>2. ASSUME NEW l \in DOMAIN s, l > n PROVE s[l] \notin Rel
      <3>1. CASE l < k
        BY <1>1, <2>2, <3>1
      <3>2. CASE l >= k
        <4>1. l + 1 \in DOMAIN t /\ t[l + 1] = s[l] /\ l + 1 > m
          BY <1>1, <2>2, <3>2
        <4> QED
          BY <4>1
      <3> QED
        BY <1>1, <3>1, <3>2
    <2> HIDE DEF n
    <2> QED
      BY <2>1, <2>2 DEF Told, LastIs
  <1> QED
    BY <1>3, <1>4 DEF Told, t

-----------------------------------------------------------------------------
(***************************************************************************)
(* The three parts: the switch of an installation, the switch of a member, *)
(* and the link of a repository to an installation.  For each: the events  *)
(* that matter, those that tell what GitHub says now, whether a request    *)
(* has yet to write it, and whether the store is right about it.           *)
(***************************************************************************)
OneByOne == InOrder /\ MaxEdits = 0 /\ \A g, h \in Hooks : g = h

Installed(m) == \E i \in Insts : AccountOf[i] = m /\ Present(i)

InstRel(i)  == {e \in Event : e.inst = i /\ e.kind \in {"activate", "suspend", "deleted"}}
InstGood(i) == {e \in Event : e.kind = "activate" <=> gh[i] = "active"}
InstWrites(j, i) ==
  j.event \in InstRel(i) /\ j.calls[1] \in {"upsert", "query", "purge", "disable"}
InstRight(i) == insts[i].enabled <=> gh[i] = "active"

MemberRel(m)  == {e \in Event : AccountOf[e.inst] = m /\ e.kind # "suspend"}
MemberGood(m) == {e \in Event : e.kind # "deleted" <=> Installed(m)}
MemberWrites(j, m) ==
  j.event \in MemberRel(m) /\ ~(j.event.kind = "activate" /\ j.calls[1] = "add")
MemberRight(m) == members[m].enabled <=> Installed(m)

LinkRel(i, r)  == {e \in Event : r \in e.added \union e.removed \/ (e.inst = i /\ e.kind = "deleted")}
LinkGood(i, r) == {e \in Event : (e.inst = i /\ r \in e.added) <=> r \in shared[i]}
LinkWrites(j, i, r) ==
  j.event \in LinkRel(i, r) /\ (r \in j.add \union j.remove \/ j.calls[1] = "query")
LinkRight(i, r) == (repos[r].enabled /\ repos[r].inst = i) <=> r \in shared[i]

Handled == {hook[h].event : h \in Hooks}

InstTold(i) ==
  Told(wire, Handled, InstRel(i), InstGood(i), {h \in Hooks : InstWrites(hook[h], i)}, InstRight(i))

MemberTold(m) ==
  Told(wire, Handled, MemberRel(m), MemberGood(m), {h \in Hooks : MemberWrites(hook[h], m)}, MemberRight(m))

LinkTold(i, r) ==
  Told(wire, Handled, LinkRel(i, r), LinkGood(i, r), {h \in Hooks : LinkWrites(hook[h], i, r)}, LinkRight(i, r))

\* What GitHub guarantees: repositories are shared by one installation at most,
\* and an account has one at a time.
Orderly ==
  /\ \A i \in Insts : ~Present(i) => shared[i] = {}
  /\ \A i, j \in Insts : i # j => shared[i] \intersect shared[j] = {}
  /\ \A i, j \in Insts : AccountOf[i] = AccountOf[j] /\ Present(i) /\ Present(j) => i = j

\* The events GitHub sends.
Shaped ==
  {e \in Event : /\ e.kind \in {"suspend", "deleted"} => e.added = {} /\ e.removed = {}
                 /\ e.kind = "activate" => e.removed = {}
                 /\ e.added \intersect e.removed = {}}

\* What may be left of a request's calls.
Suffixes(kind) ==
  CASE kind = "activate"     -> {<<"upsert", "member", "add">>, <<"member", "add">>, <<"add">>}
    [] kind = "suspend"      -> {<<"disable">>}
    [] kind = "deleted"      -> {<<"query", "purge", "disable", "forget">>,
                                 <<"purge", "disable", "forget">>, <<"disable", "forget">>, <<"forget">>}
    [] kind = "repositories" -> {<<"add", "remove", "member">>, <<"remove", "member">>, <<"member">>}

\* What is left of a request's loops: the repositories of its event, or those
\* that are linked to the installation that is gone.
Underway(j, docs) ==
  /\ j.event \in Shaped
  /\ j.calls \in Suffixes(j.event.kind)
  /\ j.add \subseteq j.event.added
  /\ IF j.event.kind = "deleted"
     THEN /\ \A r \in j.remove : docs[r].inst = j.event.inst
          /\ j.calls[1] = "purge" \/ j.remove = {}
     ELSE j.remove \subseteq j.event.removed
  /\ j.event.kind = "repositories" =>
       /\ j.calls[1] = "add" \/ j.add = {}
       /\ j.calls[1] # "member" \/ j.remove = {}

Sound ==
  /\ Orderly
  /\ \A k \in DOMAIN wire : wire[k] \in Shaped
  /\ \A h \in Hooks : ~Idle(h) => Underway(hook[h], repos)

SyncInv ==
  /\ Sound
  /\ \A i \in Insts : InstTold(i)
  /\ \A m \in Accounts : MemberTold(m)
  /\ \A i \in Insts, r \in Repos : LinkTold(i, r)

-----------------------------------------------------------------------------
LEMMA SyncInit == Init => SyncInv
  <1> SUFFICES ASSUME Init PROVE SyncInv
    OBVIOUS
  <1>1. DOMAIN wire = {}
    BY DEF Init
  <1>2. \A h \in Hooks : hook[h].event = None
    BY DEF Init, NoHook
  <1>3. \A i \in Insts : ~Present(i) /\ shared[i] = {}
    BY DEF Init, Present
  <1>4. Sound
    BY <1>1, <1>2, <1>3 DEF Sound, Orderly, Idle
  <1>5. \A i \in Insts : InstTold(i)
    <2>1. \A i \in Insts : InstRight(i)
      BY DEF Init, InstRight
    <2> QED
      BY <1>1, <1>2, <2>1 DEF InstTold, Told, LastIs, Handled, InstRel
  <1>6. \A m \in Accounts : MemberTold(m)
    <2>1. \A m \in Accounts : MemberRight(m)
      BY <1>3 DEF Init, MemberRight, Installed
    <2> QED
      BY <1>1, <1>2, <2>1 DEF MemberTold, Told, LastIs, Handled, MemberRel
  <1>7. \A i \in Insts, r \in Repos : LinkTold(i, r)
    <2>1. \A i \in Insts, r \in Repos : LinkRight(i, r)
      BY DEF Init, LinkRight, MissingRepo
    <2> QED
      BY <1>1, <1>2, <2>1 DEF LinkTold, Told, LastIs, Handled, LinkRel
  <1> QED
    BY <1>4, <1>5, <1>6, <1>7 DEF SyncInv

\* Once every event is handled, the store is right about every part.
LEMMA QuietIsRight ==
  ASSUME SyncInv, Quiet
  PROVE  /\ \A i \in Insts : InstRight(i)
         /\ \A m \in Accounts : MemberRight(m)
         /\ \A i \in Insts, r \in Repos : LinkRight(i, r)
  <1>1. DOMAIN wire = {} /\ \A h \in Hooks : hook[h].event = None
    BY DEF Quiet, Idle
  <1>2. \A i \in Insts : InstRight(i)
    BY <1>1 DEF SyncInv, InstTold, Told, Clear, InstWrites, InstRel
  <1>3. \A m \in Accounts : MemberRight(m)
    BY <1>1 DEF SyncInv, MemberTold, Told, Clear, MemberWrites, MemberRel
  <1>4. \A i \in Insts, r \in Repos : LinkRight(i, r)
    BY <1>1, ZenonT(60) DEF SyncInv, LinkTold, Told, Clear, LinkWrites, LinkRel
  <1> QED
    BY <1>2, <1>3, <1>4

LEMMA SyncInvSynced == IInv /\ SyncInv => Synced
  <1> SUFFICES ASSUME IInv, SyncInv, Quiet PROVE
        /\ \A i \in Insts : (insts[i].enabled <=> (gh[i] = "active")) /\ Linked(i) = shared[i]
        /\ \A m \in Accounts :
             members[m].enabled <=> (\E i \in Insts : AccountOf[i] = m /\ Present(i))
    BY DEF Synced
  <1>1. \A i \in Insts : Linked(i) = shared[i]
    <2>1. \A i \in Insts : shared[i] \subseteq Repos
      BY DEF IInv, GitHubOK
    <2>2. \A i \in Insts, r \in Repos : LinkRight(i, r)
      BY QuietIsRight
    <2> QED
      BY <2>1, <2>2 DEF LinkRight, Linked
  <1>2. \A i \in Insts : insts[i].enabled <=> (gh[i] = "active")
    BY QuietIsRight DEF InstRight
  <1>3. \A m \in Accounts :
          members[m].enabled <=> (\E i \in Insts : AccountOf[i] = m /\ Present(i))
    BY QuietIsRight DEF MemberRight, Installed
  <1> QED
    BY <1>1, <1>2, <1>3

-----------------------------------------------------------------------------
(***************************************************************************)
(* GitHub.                                                                 *)
(***************************************************************************)

\* A change is told by its own event where it matters, and changes nothing
\* where it does not.
LEMMA ChangeTold ==
  ASSUME IInv, SyncInv, NEW e \in Shaped,
         wire' = Append(wire, e), UNCHANGED <<hook, repos, insts, members>>,
         Orderly',
         \A i \in Insts :
           \/ e \in InstRel(i) /\ e \in InstGood(i)'
           \/ e \notin InstRel(i) /\ (gh'[i] = "active" <=> gh[i] = "active"),
         \A m \in Accounts :
           \/ e \in MemberRel(m) /\ e \in MemberGood(m)'
           \/ e \notin MemberRel(m) /\ (Installed(m)' <=> Installed(m)),
         \A i \in Insts, r \in Repos :
           \/ e \in LinkRel(i, r) /\ e \in LinkGood(i, r)'
           \/ e \notin LinkRel(i, r) /\ (r \in shared'[i] <=> r \in shared[i])
  PROVE  SyncInv'
  <1>1. wire \in Seq(Event) /\ e \in Event
    <2>1. Honest \subseteq Event
      BY DEF Honest
    <2> QED
      BY <2>1, SeqMonotonic DEF IInv, WireOK, Shaped
  <1>2. Handled' = Handled
    BY DEF Handled
  <1>3. Sound'
    <2>1. \A k \in DOMAIN wire' : wire'[k] \in Shaped
      <3>1. /\ DOMAIN wire = 1 .. Len(wire) /\ Len(wire) \in Nat
            /\ DOMAIN wire' = 1 .. Len(wire) + 1 /\ wire'[Len(wire) + 1] = e
            /\ \A k \in 1 .. Len(wire) : wire'[k] = wire[k]
        BY <1>1, AppendProperties, LenProperties
      <3> QED
        BY <3>1 DEF SyncInv, Sound
    <2>2. \A h \in Hooks : ~Idle(h)' => Underway(hook[h], repos)'
      BY DEF SyncInv, Sound, Idle, Underway
    <2> QED
      BY <2>1, <2>2 DEF Sound, Shaped
  <1>4. ASSUME NEW i \in Insts PROVE InstTold(i)'
    <2>1. InstTold(i)
      BY DEF SyncInv
    <2> DEFINE W == {h \in Hooks : InstWrites(hook[h], i)}
    <2>2. {h \in Hooks : InstWrites(hook[h], i)}' = W
      BY DEF InstWrites, InstRel
    <2>3. Told(wire, Handled, InstRel(i), InstGood(i), W, InstRight(i))
      BY <2>1 DEF InstTold
    <2> HIDE DEF W
    <2>4. CASE e \in InstRel(i) /\ e \in InstGood(i)'
      <3>1. Told(wire', Handled, InstRel(i), InstGood(i)', W, InstRight(i)')
        BY <1>1, <2>4, NewsTold
      <3> QED
        BY <1>2, <2>2, <3>1 DEF InstTold, InstRel
    <2>5. CASE e \notin InstRel(i) /\ (gh'[i] = "active" <=> gh[i] = "active")
      <3>1. InstGood(i)' = InstGood(i) /\ (InstRight(i)' <=> InstRight(i))
        BY <2>5 DEF InstGood, InstRight
      <3>2. Told(wire', Handled, InstRel(i), InstGood(i), W, InstRight(i))
        BY <1>1, <2>3, <2>5, OtherNewsTold
      <3> QED
        BY <1>2, <2>2, <3>1, <3>2 DEF InstTold, InstRel, Told
    <2> QED
      BY <2>4, <2>5
  <1>5. ASSUME NEW m \in Accounts PROVE MemberTold(m)'
    <2>1. MemberTold(m)
      BY DEF SyncInv
    <2> DEFINE W == {h \in Hooks : MemberWrites(hook[h], m)}
    <2>2. {h \in Hooks : MemberWrites(hook[h], m)}' = W
      BY DEF MemberWrites, MemberRel
    <2>3. Told(wire, Handled, MemberRel(m), MemberGood(m), W, MemberRight(m))
      BY <2>1 DEF MemberTold
    <2> HIDE DEF W
    <2>4. CASE e \in MemberRel(m) /\ e \in MemberGood(m)'
      <3>1. Told(wire', Handled, MemberRel(m), MemberGood(m)', W, MemberRight(m)')
        BY <1>1, <2>4, NewsTold
      <3> QED
        BY <1>2, <2>2, <3>1 DEF MemberTold, MemberRel
    <2>5. CASE e \notin MemberRel(m) /\ (Installed(m)' <=> Installed(m))
      <3>1. MemberGood(m)' = MemberGood(m) /\ (MemberRight(m)' <=> MemberRight(m))
        BY <2>5 DEF MemberGood, MemberRight
      <3>2. Told(wire', Handled, MemberRel(m), MemberGood(m), W, MemberRight(m))
        BY <1>1, <2>3, <2>5, OtherNewsTold
      <3> QED
        BY <1>2, <2>2, <3>1, <3>2 DEF MemberTold, MemberRel, Told
    <2> QED
      BY <2>4, <2>5
  <1>6. ASSUME NEW i \in Insts, NEW r \in Repos PROVE LinkTold(i, r)'
    <2>1. LinkTold(i, r)
      BY DEF SyncInv
    <2> DEFINE W == {h \in Hooks : LinkWrites(hook[h], i, r)}
    <2>2. {h \in Hooks : LinkWrites(hook[h], i, r)}' = W
      BY DEF LinkWrites, LinkRel
    <2>3. Told(wire, Handled, LinkRel(i, r), LinkGood(i, r), W, LinkRight(i, r))
      BY <2>1 DEF LinkTold
    <2> HIDE DEF W
    <2>4. CASE e \in LinkRel(i, r) /\ e \in LinkGood(i, r)'
      <3>1. Told(wire', Handled, LinkRel(i, r), LinkGood(i, r)', W, LinkRight(i, r)')
        BY <1>1, <2>4, NewsTold
      <3> QED
        BY <1>2, <2>2, <3>1 DEF LinkTold, LinkRel
    <2>5. CASE e \notin LinkRel(i, r) /\ (r \in shared'[i] <=> r \in shared[i])
      <3>1. LinkGood(i, r)' = LinkGood(i, r) /\ (LinkRight(i, r)' <=> LinkRight(i, r))
        BY <2>5 DEF LinkGood, LinkRight
      <3>2. Told(wire', Handled, LinkRel(i, r), LinkGood(i, r), W, LinkRight(i, r))
        BY <1>1, <2>3, <2>5, OtherNewsTold
      <3> QED
        BY <1>2, <2>2, <3>1, <3>2 DEF LinkTold, LinkRel, Told
    <2> QED
      BY <2>4, <2>5
  <1> QED
    BY <1>3, <1>4, <1>5, <1>6 DEF SyncInv

\* What one change does.
LEMMA ChangeEffects ==
  ASSUME IInv, NEW i \in Insts, NEW kind \in {"activate", "suspend", "deleted", "repositories"},
         NEW state \in {"active", "suspended", "deleted"}, NEW S \in SUBSET Repos,
         NEW added \in SUBSET Repos, NEW removed \in SUBSET Repos,
         Change(i, kind, state, S, added, removed)
  PROVE  \E e \in Event :
           /\ e.kind = kind /\ e.inst = i /\ e.added = added /\ e.removed = removed
           /\ wire' = Append(wire, e) /\ UNCHANGED <<hook, repos, insts, members>>
           /\ gh'[i] = state /\ shared'[i] = S
           /\ \A j \in Insts \ {i} : gh'[j] = gh[j] /\ shared'[j] = shared[j]
  <1> DEFINE e == [kind |-> kind, inst |-> i, added |-> added, removed |-> removed]
  <1>1. e \in Event /\ e.kind = kind /\ e.inst = i /\ e.added = added /\ e.removed = removed
    BY DEF Event
  <1>2. /\ wire' = Append(wire, e) /\ UNCHANGED <<hook, repos, insts, members>>
        /\ gh' = [gh EXCEPT ![i] = state] /\ shared' = [shared EXCEPT ![i] = S]
    BY DEF Change, store
  <1> HIDE DEF e
  <1>3. gh'[i] = state /\ shared'[i] = S
        /\ \A j \in Insts \ {i} : gh'[j] = gh[j] /\ shared'[j] = shared[j]
    BY <1>2 DEF IInv, GitHubOK
  <1> QED
    BY <1>1, <1>2, <1>3

LEMMA GitHubTold == IInv /\ SyncInv /\ GitHub => SyncInv'
  <1> SUFFICES ASSUME IInv, SyncInv, GitHub PROVE SyncInv'
    OBVIOUS
  <1>0. /\ shared \in [Insts -> SUBSET Repos] /\ AccountOf \in [Insts -> Accounts]
        /\ gh \in [Insts -> {"none", "active", "suspended", "deleted"}]
    BY DEF IInv, GitHubOK
  <1>c. \A i \in Insts : shared[i] \in SUBSET Repos
    BY <1>0
  <1>o. Orderly
    BY DEF SyncInv, Sound
  <1> USE DEF InstRel, InstGood, MemberRel, MemberGood, LinkRel, LinkGood, Installed, Present
  <1>1. ASSUME NEW i \in Insts, NEW S \in SUBSET Repos, Install(i, S) PROVE SyncInv'
    <2>1. /\ gh[i] = "none" /\ shared[i] = {} /\ Free(S)
          /\ \A j \in Insts : AccountOf[j] = AccountOf[i] => ~Present(j)
          /\ Change(i, "activate", "active", S, S, {})
      BY <1>1, <1>o DEF Install, Orderly
    <2>c. /\ "activate" \in {"activate", "suspend", "deleted", "repositories"}
          /\ "active" \in {"active", "suspended", "deleted"} /\ {} \in SUBSET Repos
      OBVIOUS
    <2>2. PICK e \in Event :
             /\ e.kind = "activate" /\ e.inst = i /\ e.added = S /\ e.removed = {}
             /\ wire' = Append(wire, e) /\ UNCHANGED <<hook, repos, insts, members>>
             /\ gh'[i] = "active" /\ shared'[i] = S
             /\ \A j \in Insts \ {i} : gh'[j] = gh[j] /\ shared'[j] = shared[j]
      BY <2>c, <2>1, ChangeEffects, ZenonT(60)
    <2>3. e \in Shaped
      BY <2>2 DEF Shaped
    <2>4. Orderly'
      BY <1>o, <2>1, <2>2 DEF Orderly, Free
    <2>5. \A j \in Insts :
             \/ e \in InstRel(j) /\ e \in InstGood(j)'
             \/ e \notin InstRel(j) /\ (gh'[j] = "active" <=> gh[j] = "active")
      BY <2>2
    <2>6. \A m \in Accounts :
             \/ e \in MemberRel(m) /\ e \in MemberGood(m)'
             \/ e \notin MemberRel(m) /\ (Installed(m)' <=> Installed(m))
      BY <2>2
    <2>7. \A j \in Insts, r \in Repos :
             \/ e \in LinkRel(j, r) /\ e \in LinkGood(j, r)'
             \/ e \notin LinkRel(j, r) /\ (r \in shared'[j] <=> r \in shared[j])
      BY <2>1, <2>2 DEF Free
    <2> HIDE DEF InstRel, InstGood, MemberRel, MemberGood, LinkRel, LinkGood, Installed, Present
    <2> QED
      BY <2>2, <2>3, <2>4, <2>5, <2>6, <2>7, ChangeTold
  <1>2. ASSUME NEW i \in Insts, Reactivate(i) PROVE SyncInv'
    <2>1. PICK listed \in {{}, shared[i]} :
            Present(i) /\ Change(i, "activate", "active", shared[i], listed, {})
      BY <1>2 DEF Reactivate
    <2>0. listed \in SUBSET Repos /\ shared[i] \in SUBSET Repos
      BY <1>c
    <2>c. /\ "activate" \in {"activate", "suspend", "deleted", "repositories"}
          /\ "active" \in {"active", "suspended", "deleted"} /\ {} \in SUBSET Repos
      OBVIOUS
    <2>2. PICK e \in Event :
             /\ e.kind = "activate" /\ e.inst = i /\ e.added = listed /\ e.removed = {}
             /\ wire' = Append(wire, e) /\ UNCHANGED <<hook, repos, insts, members>>
             /\ gh'[i] = "active" /\ shared'[i] = shared[i]
             /\ \A j \in Insts \ {i} : gh'[j] = gh[j] /\ shared'[j] = shared[j]
      BY <2>c, <2>0, <2>1, ChangeEffects, ZenonT(60)
    <2>3. e \in Shaped
      BY <2>2 DEF Shaped
    <2>4. Orderly'
      BY <1>o, <2>1, <2>2 DEF Orderly
    <2>5. \A j \in Insts :
             \/ e \in InstRel(j) /\ e \in InstGood(j)'
             \/ e \notin InstRel(j) /\ (gh'[j] = "active" <=> gh[j] = "active")
      BY <2>2
    <2>6. \A m \in Accounts :
             \/ e \in MemberRel(m) /\ e \in MemberGood(m)'
             \/ e \notin MemberRel(m) /\ (Installed(m)' <=> Installed(m))
      BY <2>2
    <2>7. \A j \in Insts, r \in Repos :
             \/ e \in LinkRel(j, r) /\ e \in LinkGood(j, r)'
             \/ e \notin LinkRel(j, r) /\ (r \in shared'[j] <=> r \in shared[j])
      BY <1>o, <2>1, <2>2 DEF Orderly
    <2> HIDE DEF InstRel, InstGood, MemberRel, MemberGood, LinkRel, LinkGood, Installed, Present
    <2> QED
      BY <2>2, <2>3, <2>4, <2>5, <2>6, <2>7, ChangeTold
  <1>3. ASSUME NEW i \in Insts, Suspend(i) PROVE SyncInv'
    <2>1. gh[i] = "active" /\ Change(i, "suspend", "suspended", shared[i], {}, {})
      BY <1>3 DEF Suspend
    <2>c. /\ "suspend" \in {"activate", "suspend", "deleted", "repositories"}
          /\ "suspended" \in {"active", "suspended", "deleted"} /\ {} \in SUBSET Repos
          /\ shared[i] \in SUBSET Repos
      BY <1>c
    <2>2. PICK e \in Event :
             /\ e.kind = "suspend" /\ e.inst = i /\ e.added = {} /\ e.removed = {}
             /\ wire' = Append(wire, e) /\ UNCHANGED <<hook, repos, insts, members>>
             /\ gh'[i] = "suspended" /\ shared'[i] = shared[i]
             /\ \A j \in Insts \ {i} : gh'[j] = gh[j] /\ shared'[j] = shared[j]
      BY <2>c, <2>1, ChangeEffects, ZenonT(60)
    <2>3. e \in Shaped
      BY <2>2 DEF Shaped
    <2>4. Orderly'
      BY <1>o, <2>1, <2>2 DEF Orderly
    <2>5. \A j \in Insts :
             \/ e \in InstRel(j) /\ e \in InstGood(j)'
             \/ e \notin InstRel(j) /\ (gh'[j] = "active" <=> gh[j] = "active")
      BY <2>2
    <2>6. \A m \in Accounts : e \notin MemberRel(m) /\ (Installed(m)' <=> Installed(m))
      BY <2>1, <2>2
    <2>7. \A j \in Insts, r \in Repos :
             e \notin LinkRel(j, r) /\ (r \in shared'[j] <=> r \in shared[j])
      BY <2>2
    <2> HIDE DEF InstRel, InstGood, MemberRel, MemberGood, LinkRel, LinkGood, Installed, Present
    <2> QED
      BY <2>2, <2>3, <2>4, <2>5, <2>6, <2>7, ChangeTold
  <1>4. ASSUME NEW i \in Insts, Uninstall(i) PROVE SyncInv'
    <2>1. Present(i) /\ Change(i, "deleted", "deleted", {}, {}, {})
      BY <1>4 DEF Uninstall
    <2>c. /\ "deleted" \in {"activate", "suspend", "deleted", "repositories"}
          /\ "deleted" \in {"active", "suspended", "deleted"} /\ {} \in SUBSET Repos
      OBVIOUS
    <2>2. PICK e \in Event :
             /\ e.kind = "deleted" /\ e.inst = i /\ e.added = {} /\ e.removed = {}
             /\ wire' = Append(wire, e) /\ UNCHANGED <<hook, repos, insts, members>>
             /\ gh'[i] = "deleted" /\ shared'[i] = {}
             /\ \A j \in Insts \ {i} : gh'[j] = gh[j] /\ shared'[j] = shared[j]
      BY <2>c, <2>1, ChangeEffects, ZenonT(60)
    <2>3. e \in Shaped
      BY <2>2 DEF Shaped
    <2>4. Orderly'
      BY <1>o, <2>1, <2>2 DEF Orderly
    <2>5. \A j \in Insts :
             \/ e \in InstRel(j) /\ e \in InstGood(j)'
             \/ e \notin InstRel(j) /\ (gh'[j] = "active" <=> gh[j] = "active")
      BY <2>2
    <2>6. \A m \in Accounts :
             \/ e \in MemberRel(m) /\ e \in MemberGood(m)'
             \/ e \notin MemberRel(m) /\ (Installed(m)' <=> Installed(m))
      <3> SUFFICES ASSUME NEW m \in Accounts
                   PROVE  \/ e \in MemberRel(m) /\ e \in MemberGood(m)'
                          \/ e \notin MemberRel(m) /\ (Installed(m)' <=> Installed(m))
        OBVIOUS
      <3>1. CASE AccountOf[i] = m
        <4>1. ASSUME NEW j \in Insts, AccountOf[j] = m, Present(j)' PROVE FALSE
          BY <1>o, <2>1, <2>2, <3>1, <4>1 DEF Orderly
        <4> QED
          BY <2>2, <3>1, <4>1
      <3>2. CASE AccountOf[i] # m
        BY <2>2, <3>2
      <3> QED
        BY <3>1, <3>2
    <2>7. \A j \in Insts, r \in Repos :
             \/ e \in LinkRel(j, r) /\ e \in LinkGood(j, r)'
             \/ e \notin LinkRel(j, r) /\ (r \in shared'[j] <=> r \in shared[j])
      BY <2>2
    <2> HIDE DEF InstRel, InstGood, MemberRel, MemberGood, LinkRel, LinkGood, Installed, Present
    <2> QED
      BY <2>2, <2>3, <2>4, <2>5, <2>6, <2>7, ChangeTold
  <1>5. ASSUME NEW i \in Insts, NEW r \in Repos, Share(i, r) PROVE SyncInv'
    <2>0. {r} \in SUBSET Repos /\ shared[i] \union {r} \in SUBSET Repos
      BY <1>c
    <2>1. PICK S \in SUBSET Repos, R \in SUBSET Repos :
            /\ S = shared[i] \union {r} /\ R = {r} /\ gh[i] = "active" /\ Free({r})
            /\ Change(i, "repositories", "active", S, R, {})
      BY <1>5, <2>0 DEF Share
    <2>d. Change(i, "repositories", "active", S, R, {})
      BY <2>1
    <2>c. /\ "repositories" \in {"activate", "suspend", "deleted", "repositories"}
          /\ "active" \in {"active", "suspended", "deleted"} /\ {} \in SUBSET Repos
      OBVIOUS
    <2>2. PICK e \in Event :
             /\ e.kind = "repositories" /\ e.inst = i /\ e.added = R /\ e.removed = {}
             /\ wire' = Append(wire, e) /\ UNCHANGED <<hook, repos, insts, members>>
             /\ gh'[i] = "active" /\ shared'[i] = S
             /\ \A j \in Insts \ {i} : gh'[j] = gh[j] /\ shared'[j] = shared[j]
      BY <2>c, <2>d, ChangeEffects, ZenonT(60)
    <2>3. e \in Shaped
      BY <2>1, <2>2 DEF Shaped
    <2>4. Orderly'
      BY <1>o, <2>1, <2>2 DEF Orderly, Free
    <2>5. \A j \in Insts : e \notin InstRel(j) /\ (gh'[j] = "active" <=> gh[j] = "active")
      BY <2>1, <2>2
    <2>6. \A m \in Accounts :
             \/ e \in MemberRel(m) /\ e \in MemberGood(m)'
             \/ e \notin MemberRel(m) /\ (Installed(m)' <=> Installed(m))
      BY <2>2
    <2>7. \A j \in Insts, s \in Repos :
             \/ e \in LinkRel(j, s) /\ e \in LinkGood(j, s)'
             \/ e \notin LinkRel(j, s) /\ (s \in shared'[j] <=> s \in shared[j])
      BY <2>1, <2>2 DEF Free
    <2> HIDE DEF InstRel, InstGood, MemberRel, MemberGood, LinkRel, LinkGood, Installed, Present
    <2> QED
      BY <2>2, <2>3, <2>4, <2>5, <2>6, <2>7, ChangeTold
  <1>6. ASSUME NEW i \in Insts, NEW r \in Repos, Unshare(i, r) PROVE SyncInv'
    <2>0. {r} \in SUBSET Repos /\ shared[i] \ {r} \in SUBSET Repos
      BY <1>c
    <2>1. PICK S \in SUBSET Repos, R \in SUBSET Repos :
            /\ S = shared[i] \ {r} /\ R = {r} /\ gh[i] = "active" /\ r \in shared[i]
            /\ Change(i, "repositories", "active", S, {}, R)
      BY <1>6, <2>0 DEF Unshare
    <2>d. Change(i, "repositories", "active", S, {}, R)
      BY <2>1
    <2>c. /\ "repositories" \in {"activate", "suspend", "deleted", "repositories"}
          /\ "active" \in {"active", "suspended", "deleted"} /\ {} \in SUBSET Repos
      OBVIOUS
    <2>2. PICK e \in Event :
             /\ e.kind = "repositories" /\ e.inst = i /\ e.added = {} /\ e.removed = R
             /\ wire' = Append(wire, e) /\ UNCHANGED <<hook, repos, insts, members>>
             /\ gh'[i] = "active" /\ shared'[i] = S
             /\ \A j \in Insts \ {i} : gh'[j] = gh[j] /\ shared'[j] = shared[j]
      BY <2>c, <2>d, ChangeEffects, ZenonT(60)
    <2>3. e \in Shaped
      BY <2>1, <2>2 DEF Shaped
    <2>4. Orderly'
      BY <1>o, <2>1, <2>2 DEF Orderly
    <2>5. \A j \in Insts : e \notin InstRel(j) /\ (gh'[j] = "active" <=> gh[j] = "active")
      BY <2>1, <2>2
    <2>6. \A m \in Accounts :
             \/ e \in MemberRel(m) /\ e \in MemberGood(m)'
             \/ e \notin MemberRel(m) /\ (Installed(m)' <=> Installed(m))
      BY <2>2
    <2>7. \A j \in Insts, s \in Repos :
             \/ e \in LinkRel(j, s) /\ e \in LinkGood(j, s)'
             \/ e \notin LinkRel(j, s) /\ (s \in shared'[j] <=> s \in shared[j])
      BY <1>o, <2>1, <2>2 DEF Orderly
    <2> HIDE DEF InstRel, InstGood, MemberRel, MemberGood, LinkRel, LinkGood, Installed, Present
    <2> QED
      BY <2>2, <2>3, <2>4, <2>5, <2>6, <2>7, ChangeTold
  <1> QED
    BY <1>1, <1>2, <1>3, <1>4, <1>5, <1>6 DEF GitHub

-----------------------------------------------------------------------------
(***************************************************************************)
(* The requests.                                                           *)
(***************************************************************************)

LEMMA OnlyCall == ASSUME NEW a PROVE Len(<<a>>) = 1 /\ <<a>>[1] = a
  OBVIOUS

LEMMA TailOfTwo ==
  ASSUME NEW a, NEW b
  PROVE  Tail(<<a, b>>) = <<b>> /\ Len(<<a, b>>) = 2 /\ <<a, b>>[1] = a
  OBVIOUS

LEMMA TailOfThree ==
  ASSUME NEW a, NEW b, NEW c
  PROVE  Tail(<<a, b, c>>) = <<b, c>> /\ Len(<<a, b, c>>) = 3 /\ <<a, b, c>>[1] = a
  OBVIOUS

LEMMA TailOfFour ==
  ASSUME NEW a, NEW b, NEW c, NEW d
  PROVE  Tail(<<a, b, c, d>>) = <<b, c, d>> /\ Len(<<a, b, c, d>>) = 4 /\ <<a, b, c, d>>[1] = a
  OBVIOUS

\* The call of a request, for each kind of event, and what follows it.
LEMMA Stages ==
  ASSUME NEW kind \in {"activate", "suspend", "deleted", "repositories"}, NEW s \in Suffixes(kind)
  PROVE  \/ /\ \/ kind = "activate" /\ s[1] = "add"
               \/ kind = "suspend" /\ s[1] = "disable"
               \/ kind = "deleted" /\ s[1] = "forget"
               \/ kind = "repositories" /\ s[1] = "member"
            /\ Len(s) = 1
         \/ /\ \/ kind = "activate" /\ s[1] = "upsert" /\ Tail(s)[1] = "member"
               \/ kind = "activate" /\ s[1] = "member" /\ Tail(s)[1] = "add"
               \/ kind = "deleted" /\ s[1] = "query" /\ Tail(s)[1] = "purge"
               \/ kind = "deleted" /\ s[1] = "purge" /\ Tail(s)[1] = "disable"
               \/ kind = "deleted" /\ s[1] = "disable" /\ Tail(s)[1] = "forget"
               \/ kind = "repositories" /\ s[1] = "add" /\ Tail(s)[1] = "remove"
               \/ kind = "repositories" /\ s[1] = "remove" /\ Tail(s)[1] = "member"
            /\ Len(s) # 1
            /\ Tail(s) \in Suffixes(kind)
  <1>1. CASE kind = "activate"
    <2>1. Suffixes(kind) = {<<"upsert", "member", "add">>, <<"member", "add">>, <<"add">>}
      BY <1>1, Zenon DEF Suffixes
    <2>2. CASE s = <<"upsert", "member", "add">>
      <3>1. Tail(s) = <<"member", "add">> /\ Len(s) = 3 /\ s[1] = "upsert"
        BY TailOfThree, <2>2, ZenonT(60)
      <3>2. Tail(s)[1] = "member"
        BY TailOfTwo, <3>1, Zenon
      <3>3. Tail(s) \in Suffixes(kind)
        BY <2>1, <3>1, Zenon
      <3>4. Len(s) # 1
        BY <3>1
      <3> QED
        BY <1>1, <3>1, <3>2, <3>3, <3>4, Zenon
    <2>3. CASE s = <<"member", "add">>
      <3>1. Tail(s) = <<"add">> /\ Len(s) = 2 /\ s[1] = "member"
        BY TailOfTwo, <2>3, Zenon
      <3>2. Tail(s)[1] = "add"
        BY OnlyCall, <3>1, Zenon
      <3>3. Tail(s) \in Suffixes(kind)
        BY <2>1, <3>1, Zenon
      <3>4. Len(s) # 1
        BY <3>1
      <3> QED
        BY <1>1, <3>1, <3>2, <3>3, <3>4, Zenon
    <2>4. CASE s = <<"add">>
      <3>1. Len(s) = 1 /\ s[1] = "add"
        BY <2>4
      <3> QED
        BY <1>1, <3>1
    <2> QED
      BY <2>1, <2>2, <2>3, <2>4
  <1>2. CASE kind = "suspend"
    <2>1. Suffixes(kind) = {<<"disable">>}
      BY <1>2, Zenon DEF Suffixes
    <2>2. Len(s) = 1 /\ s[1] = "disable"
      BY <2>1
    <2> QED
      BY <1>2, <2>2
  <1>3. CASE kind = "deleted"
    <2>1. Suffixes(kind) = {<<"query", "purge", "disable", "forget">>,
                            <<"purge", "disable", "forget">>, <<"disable", "forget">>, <<"forget">>}
      BY <1>3, Zenon DEF Suffixes
    <2>2. CASE s = <<"query", "purge", "disable", "forget">>
      <3>a. Tail(s) = <<"purge", "disable", "forget">>
        BY TailOfFour, <2>2
      <3>b. Len(s) = 4
        BY TailOfFour, <2>2
      <3>c. s[1] = "query"
        BY TailOfFour, <2>2
      <3>1. Tail(s) = <<"purge", "disable", "forget">> /\ Len(s) = 4 /\ s[1] = "query"
        BY <3>a, <3>b, <3>c
      <3>d. <<"purge", "disable", "forget">>[1] = "purge"
        BY TailOfThree
      <3>2. Tail(s)[1] = "purge"
        BY <3>a, <3>d, Zenon
      <3>3. Tail(s) \in Suffixes(kind)
        BY <2>1, <3>1, Zenon
      <3>4. Len(s) # 1
        BY <3>1
      <3> QED
        BY <1>3, <3>1, <3>2, <3>3, <3>4, Zenon
    <2>3. CASE s = <<"purge", "disable", "forget">>
      <3>1. Tail(s) = <<"disable", "forget">> /\ Len(s) = 3 /\ s[1] = "purge"
        BY TailOfThree, <2>3, ZenonT(60)
      <3>2. Tail(s)[1] = "disable"
        BY TailOfTwo, <3>1, Zenon
      <3>3. Tail(s) \in Suffixes(kind)
        BY <2>1, <3>1, Zenon
      <3>4. Len(s) # 1
        BY <3>1
      <3> QED
        BY <1>3, <3>1, <3>2, <3>3, <3>4, Zenon
    <2>4. CASE s = <<"disable", "forget">>
      <3>1. Tail(s) = <<"forget">> /\ Len(s) = 2 /\ s[1] = "disable"
        BY TailOfTwo, <2>4, Zenon
      <3>2. Tail(s)[1] = "forget"
        BY OnlyCall, <3>1, Zenon
      <3>3. Tail(s) \in Suffixes(kind)
        BY <2>1, <3>1, Zenon
      <3>4. Len(s) # 1
        BY <3>1
      <3> QED
        BY <1>3, <3>1, <3>2, <3>3, <3>4, Zenon
    <2>5. CASE s = <<"forget">>
      <3>1. Len(s) = 1 /\ s[1] = "forget"
        BY <2>5
      <3> QED
        BY <1>3, <3>1
    <2> QED
      BY <2>1, <2>2, <2>3, <2>4, <2>5
  <1>4. CASE kind = "repositories"
    <2>1. Suffixes(kind) = {<<"add", "remove", "member">>, <<"remove", "member">>, <<"member">>}
      BY <1>4, Zenon DEF Suffixes
    <2>2. CASE s = <<"add", "remove", "member">>
      <3>1. Tail(s) = <<"remove", "member">> /\ Len(s) = 3 /\ s[1] = "add"
        BY TailOfThree, <2>2, ZenonT(60)
      <3>2. Tail(s)[1] = "remove"
        BY TailOfTwo, <3>1, Zenon
      <3>3. Tail(s) \in Suffixes(kind)
        BY <2>1, <3>1, Zenon
      <3>4. Len(s) # 1
        BY <3>1
      <3> QED
        BY <1>4, <3>1, <3>2, <3>3, <3>4, Zenon
    <2>3. CASE s = <<"remove", "member">>
      <3>1. Tail(s) = <<"member">> /\ Len(s) = 2 /\ s[1] = "remove"
        BY TailOfTwo, <2>3, Zenon
      <3>2. Tail(s)[1] = "member"
        BY OnlyCall, <3>1, Zenon
      <3>3. Tail(s) \in Suffixes(kind)
        BY <2>1, <3>1, Zenon
      <3>4. Len(s) # 1
        BY <3>1
      <3> QED
        BY <1>4, <3>1, <3>2, <3>3, <3>4, Zenon
    <2>4. CASE s = <<"member">>
      <3>1. Len(s) = 1 /\ s[1] = "member"
        BY <2>4
      <3> QED
        BY <1>4, <3>1
    <2> QED
      BY <2>1, <2>2, <2>3, <2>4
  <1> QED
    BY <1>1, <1>2, <1>3, <1>4

\* What Returned leaves of a request.
LEMMA ReturnedStage ==
  ASSUME NEW docs, NEW j \in HookState, HookOK(j), Underway(j, docs)
  PROVE  LET k == Returned(j) IN
         \/ /\ k = NoHook
            /\ \/ j.event.kind = "activate" /\ j.calls[1] = "add"
               \/ j.event.kind = "suspend" /\ j.calls[1] = "disable"
               \/ j.event.kind = "deleted" /\ j.calls[1] = "forget"
               \/ j.event.kind = "repositories" /\ j.calls[1] = "member"
         \/ /\ k \in [calls : Seq(CallNames), event : {j.event}, add : {j.add}, remove : {j.remove},
                      reads : {j.reads}]
            /\ k.calls \in Suffixes(j.event.kind)
            /\ \/ j.event.kind = "activate" /\ j.calls[1] = "upsert" /\ k.calls[1] = "member"
               \/ j.event.kind = "activate" /\ j.calls[1] = "member" /\ k.calls[1] = "add"
               \/ j.event.kind = "deleted" /\ j.calls[1] = "query" /\ k.calls[1] = "purge"
               \/ j.event.kind = "deleted" /\ j.calls[1] = "purge" /\ k.calls[1] = "disable"
               \/ j.event.kind = "deleted" /\ j.calls[1] = "disable" /\ k.calls[1] = "forget"
               \/ j.event.kind = "repositories" /\ j.calls[1] = "add" /\ k.calls[1] = "remove"
               \/ j.event.kind = "repositories" /\ j.calls[1] = "remove" /\ k.calls[1] = "member"
  <1> DEFINE kind == j.event.kind
  <1>1. kind \in {"activate", "suspend", "deleted", "repositories"} /\ j.calls \in Suffixes(kind)
    BY DEF Underway, Shaped, Event
  <1>2. CASE Len(j.calls) = 1
    <2>1. Returned(j) = NoHook
      BY <1>2 DEF Returned
    <2> QED
      BY <1>1, <1>2, <2>1, Stages
  <1>3. CASE Len(j.calls) # 1
    <2> DEFINE calls == Tail(j.calls)
    <2>1. calls \in Seq(CallNames)
      <3>1. j.calls \in Seq(CallNames)
        BY DEF HookState
      <3>2. j.calls # <<>>
        BY DEF HookOK, Underway, Shaped
      <3> QED
        BY <3>1, <3>2, HeadTailProperties
    <2>2. /\ calls \in Suffixes(kind)
          /\ \/ kind = "activate" /\ j.calls[1] = "upsert" /\ calls[1] = "member"
             \/ kind = "activate" /\ j.calls[1] = "member" /\ calls[1] = "add"
             \/ kind = "deleted" /\ j.calls[1] = "query" /\ calls[1] = "purge"
             \/ kind = "deleted" /\ j.calls[1] = "purge" /\ calls[1] = "disable"
             \/ kind = "deleted" /\ j.calls[1] = "disable" /\ calls[1] = "forget"
             \/ kind = "repositories" /\ j.calls[1] = "add" /\ calls[1] = "remove"
             \/ kind = "repositories" /\ j.calls[1] = "remove" /\ calls[1] = "member"
      BY <1>1, <1>3, Stages
    <2>3. Returned(j) = [j EXCEPT !.calls = calls]
      BY <1>3 DEF Returned
    <2> HIDE DEF calls
    <2>4. /\ [j EXCEPT !.calls = calls].calls = calls
          /\ [j EXCEPT !.calls = calls]
               \in [calls : Seq(CallNames), event : {j.event}, add : {j.add}, remove : {j.remove},
                    reads : {j.reads}]
      BY <2>1 DEF HookState
    <2> QED
      BY <2>2, <2>3, <2>4
  <1> QED
    BY <1>2, <1>3

\* The only request there is.
LEMMA OnlyHook ==
  ASSUME OneByOne, NEW h \in Hooks
  PROVE  Hooks = {h} /\ Handled = {hook[h].event} /\ Handled' = {hook'[h].event}
  BY DEF OneByOne, Handled

\* A step of the request: it turns from hook[h] into k.  It keeps the store
\* right where nothing is left to be written.
LEMMA RequestTold ==
  ASSUME OneByOne, IInv, SyncInv, NEW h \in Hooks, NEW k,
         HookBecomes(h, k), UNCHANGED <<gh, shared, wire>>,
         k.event \in {hook[h].event, None},
         k.event # None => Underway(k, repos'),
         \A i \in Insts :
           /\ hook[h].event \in InstRel(i) => hook[h].event \in InstGood(i)
           /\ InstWrites(hook[h], i) \/ InstRight(i)
           => InstWrites(k, i) \/ InstRight(i)',
         \A m \in Accounts :
           /\ hook[h].event \in MemberRel(m) => hook[h].event \in MemberGood(m)
           /\ MemberWrites(hook[h], m) \/ MemberRight(m)
           => MemberWrites(k, m) \/ MemberRight(m)',
         \A i \in Insts, r \in Repos :
           /\ hook[h].event \in LinkRel(i, r) => hook[h].event \in LinkGood(i, r)
           /\ LinkWrites(hook[h], i, r) \/ LinkRight(i, r)
           => LinkWrites(k, i, r) \/ LinkRight(i, r)'
  PROVE  SyncInv'
  <1>1. hook'[h] = k
    BY DEF IInv, HooksOK, HookBecomes
  <1>2. Hooks = {h} /\ Handled = {hook[h].event} /\ Handled' = {k.event}
    BY <1>1, OnlyHook
  <1>3. Sound'
    <2>1. Orderly'
      BY DEF SyncInv, Sound, Orderly, Present
    <2>2. \A n \in DOMAIN wire' : wire'[n] \in Shaped
      BY DEF SyncInv, Sound
    <2>3. \A g \in Hooks : ~Idle(g)' => Underway(hook[g], repos)'
      BY <1>1, <1>2 DEF Idle
    <2> QED
      BY <2>1, <2>2, <2>3 DEF Sound
  <1>4. ASSUME NEW i \in Insts PROVE InstTold(i)'
    <2> DEFINE W == {g \in Hooks : InstWrites(hook[g], i)}
    <2> DEFINE X == {g \in Hooks : InstWrites(hook[g], i)}'
    <2>1. (W = {} <=> ~InstWrites(hook[h], i)) /\ (X = {} <=> ~InstWrites(k, i))
      BY <1>1, <1>2 DEF InstWrites, InstRel
    <2>2. Told(wire, Handled, InstRel(i), InstGood(i), W, InstRight(i))
      BY DEF SyncInv, InstTold
    <2> HIDE DEF W, X
    <2>3. {k.event} \intersect InstRel(i) \subseteq Handled
      BY <1>2 DEF InstRel
    <2>4. Told(wire, {k.event}, InstRel(i), InstGood(i), X, InstRight(i)')
      BY <1>2, <2>1, <2>2, <2>3 DEF Told
    <2>5. InstGood(i)' = InstGood(i) /\ InstRel(i)' = InstRel(i)
      BY DEF InstGood, InstRel
    <2> QED
      BY <1>2, <2>4, <2>5 DEF InstTold, X
  <1>5. ASSUME NEW m \in Accounts PROVE MemberTold(m)'
    <2> DEFINE W == {g \in Hooks : MemberWrites(hook[g], m)}
    <2> DEFINE X == {g \in Hooks : MemberWrites(hook[g], m)}'
    <2>1. (W = {} <=> ~MemberWrites(hook[h], m)) /\ (X = {} <=> ~MemberWrites(k, m))
      BY <1>1, <1>2 DEF MemberWrites, MemberRel
    <2>2. Told(wire, Handled, MemberRel(m), MemberGood(m), W, MemberRight(m))
      BY DEF SyncInv, MemberTold
    <2> HIDE DEF W, X
    <2>3. {k.event} \intersect MemberRel(m) \subseteq Handled
      BY <1>2 DEF MemberRel
    <2>4. Told(wire, {k.event}, MemberRel(m), MemberGood(m), X, MemberRight(m)')
      BY <1>2, <2>1, <2>2, <2>3 DEF Told
    <2>5. MemberGood(m)' = MemberGood(m) /\ MemberRel(m)' = MemberRel(m)
      BY DEF MemberGood, MemberRel, Installed, Present
    <2> QED
      BY <1>2, <2>4, <2>5 DEF MemberTold, X
  <1>6. ASSUME NEW i \in Insts, NEW r \in Repos PROVE LinkTold(i, r)'
    <2> DEFINE W == {g \in Hooks : LinkWrites(hook[g], i, r)}
    <2> DEFINE X == {g \in Hooks : LinkWrites(hook[g], i, r)}'
    <2>1. (W = {} <=> ~LinkWrites(hook[h], i, r)) /\ (X = {} <=> ~LinkWrites(k, i, r))
      BY <1>1, <1>2 DEF LinkWrites, LinkRel
    <2>2. Told(wire, Handled, LinkRel(i, r), LinkGood(i, r), W, LinkRight(i, r))
      BY DEF SyncInv, LinkTold
    <2> HIDE DEF W, X
    <2>3. {k.event} \intersect LinkRel(i, r) \subseteq Handled
      BY <1>2 DEF LinkRel
    <2>4. Told(wire, {k.event}, LinkRel(i, r), LinkGood(i, r), X, LinkRight(i, r)')
      BY <1>2, <2>1, <2>2, <2>3 DEF Told
    <2>5. LinkGood(i, r)' = LinkGood(i, r) /\ LinkRel(i, r)' = LinkRel(i, r)
      BY DEF LinkGood, LinkRel
    <2> QED
      BY <1>2, <2>4, <2>5 DEF LinkTold, X
  <1> QED
    BY <1>3, <1>4, <1>5, <1>6 DEF SyncInv

\* A request that is not idle, and the kind of event each of its calls is for.
LEMMA BusyStage ==
  ASSUME IInv, SyncInv, NEW h \in Hooks, ~Idle(h)
  PROVE  LET j == hook[h] IN
         /\ j \in HookState /\ HookOK(j) /\ Underway(j, repos)
         /\ j.event \in Event /\ j.event # None /\ j.event.inst \in Insts
         /\ j.event.kind \in {"activate", "suspend", "deleted", "repositories"}
         /\ j.calls[1] = "upsert" => j.event.kind = "activate"
         /\ j.calls[1] = "disable" => j.event.kind \in {"suspend", "deleted"}
         /\ j.calls[1] = "member" => j.event.kind \in {"activate", "repositories"}
         /\ j.calls[1] = "add" => j.event.kind \in {"activate", "repositories"}
         /\ j.calls[1] = "remove" => j.event.kind = "repositories"
         /\ j.calls[1] \in {"query", "purge", "forget"} => j.event.kind = "deleted"
  <1> DEFINE j == hook[h]
  <1>1. j \in HookState /\ HookOK(j) /\ Underway(j, repos)
    BY BusyHook DEF SyncInv, Sound
  <1>2. /\ j.event \in Event /\ j.event # None /\ j.event.inst \in Insts
        /\ j.event.kind \in {"activate", "suspend", "deleted", "repositories"}
    BY <1>1 DEF Underway, Shaped, Event
  <1> HIDE DEF j
  <1>3. j.calls \in Suffixes(j.event.kind)
    BY <1>1 DEF Underway
  <1>4. /\ j.calls[1] = "upsert" => j.event.kind = "activate"
        /\ j.calls[1] = "disable" => j.event.kind \in {"suspend", "deleted"}
        /\ j.calls[1] = "member" => j.event.kind \in {"activate", "repositories"}
        /\ j.calls[1] = "add" => j.event.kind \in {"activate", "repositories"}
        /\ j.calls[1] = "remove" => j.event.kind = "repositories"
        /\ j.calls[1] \in {"query", "purge", "forget"} => j.event.kind = "deleted"
    BY <1>2, <1>3, Stages
  <1> QED
    BY <1>1, <1>2, <1>4 DEF j

\* Returned forgets nothing that is still to be written, but what its call has
\* written.
LEMMA ReturnedWrites ==
  ASSUME IInv, SyncInv, NEW h \in Hooks, ~Idle(h),
         hook[h].calls[1] # "query",
         hook[h].calls[1] = "add" => hook[h].add = {},
         hook[h].calls[1] \in {"remove", "purge"} => hook[h].remove = {}
  PROVE  LET k == Returned(hook[h]) IN
         /\ k.event \in {hook[h].event, None}
         /\ k.event # None => Underway(k, repos)
         /\ hook[h].calls[1] \notin {"upsert", "disable"} =>
              \A i \in Insts : InstWrites(hook[h], i) => InstWrites(k, i)
         /\ hook[h].calls[1] \notin {"member", "forget"} =>
              \A m \in Accounts : MemberWrites(hook[h], m) => MemberWrites(k, m)
         /\ \A i \in Insts, r \in Repos : LinkWrites(hook[h], i, r) => LinkWrites(k, i, r)
  <1> DEFINE j == hook[h]
  <1> DEFINE k == Returned(j)
  <1>1. /\ j \in HookState /\ HookOK(j) /\ Underway(j, repos)
        /\ j.event \in Event /\ j.event # None
    BY BusyStage
  <1>2. \/ /\ k = NoHook
           /\ \/ j.event.kind = "activate" /\ j.calls[1] = "add"
              \/ j.event.kind = "suspend" /\ j.calls[1] = "disable"
              \/ j.event.kind = "deleted" /\ j.calls[1] = "forget"
              \/ j.event.kind = "repositories" /\ j.calls[1] = "member"
        \/ /\ k \in [calls : Seq(CallNames), event : {j.event}, add : {j.add}, remove : {j.remove},
                     reads : {j.reads}]
           /\ k.calls \in Suffixes(j.event.kind)
           /\ \/ j.event.kind = "activate" /\ j.calls[1] = "upsert" /\ k.calls[1] = "member"
              \/ j.event.kind = "activate" /\ j.calls[1] = "member" /\ k.calls[1] = "add"
              \/ j.event.kind = "deleted" /\ j.calls[1] = "query" /\ k.calls[1] = "purge"
              \/ j.event.kind = "deleted" /\ j.calls[1] = "purge" /\ k.calls[1] = "disable"
              \/ j.event.kind = "deleted" /\ j.calls[1] = "disable" /\ k.calls[1] = "forget"
              \/ j.event.kind = "repositories" /\ j.calls[1] = "add" /\ k.calls[1] = "remove"
              \/ j.event.kind = "repositories" /\ j.calls[1] = "remove" /\ k.calls[1] = "member"
    BY <1>1, ReturnedStage
  <1>3. /\ j.calls[1] # "query"
        /\ j.calls[1] = "add" => j.add = {}
        /\ j.calls[1] \in {"remove", "purge"} => j.remove = {}
    OBVIOUS
  <1> HIDE DEF j, k
  <1>4. CASE k = NoHook
    <2>1. k.event = None
      BY <1>4 DEF NoHook
    <2>2. /\ \/ j.event.kind = "activate" /\ j.calls[1] = "add"
             \/ j.event.kind = "suspend" /\ j.calls[1] = "disable"
             \/ j.event.kind = "deleted" /\ j.calls[1] = "forget"
             \/ j.event.kind = "repositories" /\ j.calls[1] = "member"
      BY <1>1, <1>2, <2>1
    <2>3. \A i \in Insts : ~(j.calls[1] # "disable" /\ InstWrites(j, i))
      BY <2>2 DEF InstWrites
    <2>4. \A m \in Accounts : ~(j.calls[1] \notin {"member", "forget"} /\ MemberWrites(j, m))
      BY <2>2 DEF MemberWrites, MemberRel
    <2>5. j.add = {} /\ j.remove = {}
      BY <1>1, <1>3, <2>2 DEF Underway, Shaped
    <2>6. \A i \in Insts, r \in Repos : ~LinkWrites(j, i, r)
      BY <2>2, <2>5 DEF LinkWrites
    <2> QED
      BY <2>1, <2>3, <2>4, <2>6 DEF j, k
  <1>5. CASE k # NoHook
    <2>1. /\ k.event = j.event /\ k.add = j.add /\ k.remove = j.remove
          /\ k.calls \in Suffixes(j.event.kind)
          /\ \/ j.event.kind = "activate" /\ j.calls[1] = "upsert" /\ k.calls[1] = "member"
             \/ j.event.kind = "activate" /\ j.calls[1] = "member" /\ k.calls[1] = "add"
             \/ j.event.kind = "deleted" /\ j.calls[1] = "purge" /\ k.calls[1] = "disable"
             \/ j.event.kind = "deleted" /\ j.calls[1] = "disable" /\ k.calls[1] = "forget"
             \/ j.event.kind = "repositories" /\ j.calls[1] = "add" /\ k.calls[1] = "remove"
             \/ j.event.kind = "repositories" /\ j.calls[1] = "remove" /\ k.calls[1] = "member"
      BY <1>2, <1>3, <1>5
    <2>2. Underway(k, repos)
      BY <1>1, <1>3, <2>1 DEF Underway
    <2>3. j.calls[1] \notin {"upsert", "disable"} =>
            \A i \in Insts : InstWrites(j, i) => InstWrites(k, i)
      BY <2>1 DEF InstWrites
    <2>4. j.calls[1] \notin {"member", "forget"} =>
            \A m \in Accounts : MemberWrites(j, m) => MemberWrites(k, m)
      BY <2>1 DEF MemberWrites
    <2>5. \A i \in Insts, r \in Repos : LinkWrites(j, i, r) => LinkWrites(k, i, r)
      BY <1>3, <2>1 DEF LinkWrites
    <2> QED
      BY <2>1, <2>2, <2>3, <2>4, <2>5 DEF j, k
  <1> QED
    BY <1>4, <1>5

-----------------------------------------------------------------------------
(***************************************************************************)
(* The calls.                                                              *)
(***************************************************************************)
LEMMA UpsertInstallationTold ==
  ASSUME OneByOne, IInv, SyncInv, NEW h \in Hooks, UpsertInstallation(h)
  PROVE  SyncInv'
  <1> DEFINE j == hook[h]
  <1> DEFINE k == Returned(j)
  <1>1. /\ ~Idle(h) /\ j.calls[1] = "upsert" /\ HookBecomes(h, k)
        /\ insts' = [insts EXCEPT ![j.event.inst] = Upserted(@)]
        /\ UNCHANGED <<gh, shared, wire, repos, members>>
    BY DEF UpsertInstallation, Calling, github, bounded
  <1>2. j.event \in Event /\ j.event.kind = "activate" /\ j.event.inst \in Insts
    BY <1>1, BusyStage
  <1>3. /\ k.event \in {j.event, None} /\ (k.event # None => Underway(k, repos))
        /\ \A m \in Accounts : MemberWrites(j, m) => MemberWrites(k, m)
        /\ \A i \in Insts, r \in Repos : LinkWrites(j, i, r) => LinkWrites(k, i, r)
    BY <1>1, ReturnedWrites
  <1> HIDE DEF j, k
  <1>4. ASSUME NEW i \in Insts, j.event \in InstRel(i) => j.event \in InstGood(i),
               InstWrites(j, i) \/ InstRight(i)
        PROVE  InstRight(i)'
    <2>1. CASE i = j.event.inst
      <3>1. gh[i] = "active"
        BY <1>2, <1>4, <2>1 DEF InstRel, InstGood
      <3>2. insts'[i].enabled
        BY <1>1, <2>1 DEF IInv, StoreOK, Upserted
      <3> QED
        BY <1>1, <3>1, <3>2 DEF InstRight
    <2>2. CASE i # j.event.inst
      <3>1. InstRight(i)
        BY <1>4, <2>2 DEF InstWrites, InstRel
      <3>2. insts'[i] = insts[i]
        BY <1>1, <2>2 DEF IInv, StoreOK
      <3> QED
        BY <1>1, <3>1, <3>2 DEF InstRight
    <2> QED
      BY <2>1, <2>2
  <1>5. \A m \in Accounts : MemberRight(m)' <=> MemberRight(m)
    BY <1>1 DEF MemberRight, Installed, Present
  <1>6. \A i \in Insts, r \in Repos : LinkRight(i, r)' <=> LinkRight(i, r)
    BY <1>1 DEF LinkRight
  <1> QED
    BY <1>1, <1>3, <1>4, <1>5, <1>6, RequestTold DEF j

LEMMA DisableInstallationTold ==
  ASSUME OneByOne, IInv, SyncInv, NEW h \in Hooks, DisableInstallation(h)
  PROVE  SyncInv'
  <1> DEFINE j == hook[h]
  <1> DEFINE k == Returned(j)
  <1>1. /\ ~Idle(h) /\ j.calls[1] = "disable" /\ HookBecomes(h, k)
        /\ insts' = [insts EXCEPT ![j.event.inst] = Disabled(@)]
        /\ UNCHANGED <<gh, shared, wire, repos, members>>
    BY DEF DisableInstallation, Calling, github, bounded
  <1>2. j.event \in Event /\ j.event.kind \in {"suspend", "deleted"} /\ j.event.inst \in Insts
    BY <1>1, BusyStage
  <1>3. /\ k.event \in {j.event, None} /\ (k.event # None => Underway(k, repos))
        /\ \A m \in Accounts : MemberWrites(j, m) => MemberWrites(k, m)
        /\ \A i \in Insts, r \in Repos : LinkWrites(j, i, r) => LinkWrites(k, i, r)
    BY <1>1, ReturnedWrites
  <1> HIDE DEF j, k
  <1>4. ASSUME NEW i \in Insts, j.event \in InstRel(i) => j.event \in InstGood(i),
               InstWrites(j, i) \/ InstRight(i)
        PROVE  InstRight(i)'
    <2>1. CASE i = j.event.inst
      <3>1. gh[i] # "active"
        BY <1>2, <1>4, <2>1 DEF InstRel, InstGood
      <3>2. ~insts'[i].enabled
        BY <1>1, <2>1 DEF IInv, StoreOK, Disabled
      <3> QED
        BY <1>1, <3>1, <3>2 DEF InstRight
    <2>2. CASE i # j.event.inst
      <3>1. InstRight(i)
        BY <1>4, <2>2 DEF InstWrites, InstRel
      <3>2. insts'[i] = insts[i]
        BY <1>1, <2>2 DEF IInv, StoreOK
      <3> QED
        BY <1>1, <3>1, <3>2 DEF InstRight
    <2> QED
      BY <2>1, <2>2
  <1>5. \A m \in Accounts : MemberRight(m)' <=> MemberRight(m)
    BY <1>1 DEF MemberRight, Installed, Present
  <1>6. \A i \in Insts, r \in Repos : LinkRight(i, r)' <=> LinkRight(i, r)
    BY <1>1 DEF LinkRight
  <1> QED
    BY <1>1, <1>3, <1>4, <1>5, <1>6, RequestTold DEF j

LEMMA UpsertMemberTold ==
  ASSUME OneByOne, IInv, SyncInv, NEW h \in Hooks, UpsertMember(h)
  PROVE  SyncInv'
  <1> DEFINE j == hook[h]
  <1> DEFINE k == Returned(j)
  <1> DEFINE a == AccountOf[j.event.inst]
  <1>1. /\ ~Idle(h) /\ j.calls[1] = "member" /\ HookBecomes(h, k)
        /\ members' = [members EXCEPT ![a] = [enabled |-> TRUE, inst |-> j.event.inst]]
        /\ UNCHANGED <<gh, shared, wire, repos, insts>>
    BY DEF UpsertMember, Calling, github, bounded
  <1>2. /\ j.event \in Event /\ j.event.kind \in {"activate", "repositories"}
        /\ j.event.inst \in Insts
    BY <1>1, BusyStage
  <1>3. /\ k.event \in {j.event, None} /\ (k.event # None => Underway(k, repos))
        /\ \A i \in Insts : InstWrites(j, i) => InstWrites(k, i)
        /\ \A i \in Insts, r \in Repos : LinkWrites(j, i, r) => LinkWrites(k, i, r)
    BY <1>1, ReturnedWrites
  <1> HIDE DEF j, k
  <1>4. ASSUME NEW m \in Accounts, j.event \in MemberRel(m) => j.event \in MemberGood(m),
               MemberWrites(j, m) \/ MemberRight(m)
        PROVE  MemberRight(m)'
    <2>1. CASE m = a
      <3>1. Installed(m)
        BY <1>2, <1>4, <2>1 DEF MemberRel, MemberGood
      <3>2. members'[m].enabled
        BY <1>1, <2>1 DEF IInv, StoreOK
      <3> QED
        BY <1>1, <3>1, <3>2 DEF MemberRight, Installed, Present
    <2>2. CASE m # a
      <3>1. MemberRight(m)
        BY <1>4, <2>2 DEF MemberWrites, MemberRel
      <3>2. members'[m] = members[m]
        BY <1>1, <2>2 DEF IInv, StoreOK
      <3> QED
        BY <1>1, <3>1, <3>2 DEF MemberRight, Installed, Present
    <2> QED
      BY <2>1, <2>2
  <1>5. \A i \in Insts : InstRight(i)' <=> InstRight(i)
    BY <1>1 DEF InstRight
  <1>6. \A i \in Insts, r \in Repos : LinkRight(i, r)' <=> LinkRight(i, r)
    BY <1>1 DEF LinkRight
  <1> QED
    BY <1>1, <1>3, <1>4, <1>5, <1>6, RequestTold DEF j

LEMMA DisableMemberTold ==
  ASSUME OneByOne, IInv, SyncInv, NEW h \in Hooks, DisableMember(h)
  PROVE  SyncInv'
  <1> DEFINE j == hook[h]
  <1> DEFINE k == Returned(j)
  <1> DEFINE a == AccountOf[j.event.inst]
  <1>1. /\ ~Idle(h) /\ j.calls[1] = "forget" /\ HookBecomes(h, k)
        /\ members' = [members EXCEPT ![a].enabled = FALSE]
        /\ UNCHANGED <<gh, shared, wire, repos, insts>>
    BY DEF DisableMember, Calling, github, bounded
  <1>2. j.event \in Event /\ j.event.kind = "deleted" /\ j.event.inst \in Insts
    BY <1>1, BusyStage
  <1>3. /\ k.event \in {j.event, None} /\ (k.event # None => Underway(k, repos))
        /\ \A i \in Insts : InstWrites(j, i) => InstWrites(k, i)
        /\ \A i \in Insts, r \in Repos : LinkWrites(j, i, r) => LinkWrites(k, i, r)
    BY <1>1, ReturnedWrites
  <1> HIDE DEF j, k
  <1>4. ASSUME NEW m \in Accounts, j.event \in MemberRel(m) => j.event \in MemberGood(m),
               MemberWrites(j, m) \/ MemberRight(m)
        PROVE  MemberRight(m)'
    <2>1. CASE m = a
      <3>1. ~Installed(m)
        BY <1>2, <1>4, <2>1 DEF MemberRel, MemberGood
      <3>2. ~members'[m].enabled
        BY <1>1, <2>1 DEF IInv, StoreOK
      <3> QED
        BY <1>1, <3>1, <3>2 DEF MemberRight, Installed, Present
    <2>2. CASE m # a
      <3>1. MemberRight(m)
        BY <1>4, <2>2 DEF MemberWrites, MemberRel
      <3>2. members'[m] = members[m]
        BY <1>1, <2>2 DEF IInv, StoreOK
      <3> QED
        BY <1>1, <3>1, <3>2 DEF MemberRight, Installed, Present
    <2> QED
      BY <2>1, <2>2
  <1>5. \A i \in Insts : InstRight(i)' <=> InstRight(i)
    BY <1>1 DEF InstRight
  <1>6. \A i \in Insts, r \in Repos : LinkRight(i, r)' <=> LinkRight(i, r)
    BY <1>1 DEF LinkRight
  <1> QED
    BY <1>1, <1>3, <1>4, <1>5, <1>6, RequestTold DEF j

LEMMA LoopEndsTold ==
  ASSUME OneByOne, IInv, SyncInv, NEW h \in Hooks, LoopEnds(h)
  PROVE  SyncInv'
  <1> DEFINE j == hook[h]
  <1> DEFINE k == Returned(j)
  <1>1. /\ ~Idle(h) /\ HookBecomes(h, k) /\ j.calls[1] \in {"add", "remove", "purge"}
        /\ j.calls[1] = "add" => j.add = {}
        /\ j.calls[1] \in {"remove", "purge"} => j.remove = {}
        /\ UNCHANGED <<gh, shared, wire, repos, insts, members>>
    BY DEF LoopEnds, Calling, github, bounded, store
  <1>2. /\ k.event \in {j.event, None} /\ (k.event # None => Underway(k, repos))
        /\ \A i \in Insts : InstWrites(j, i) => InstWrites(k, i)
        /\ \A m \in Accounts : MemberWrites(j, m) => MemberWrites(k, m)
        /\ \A i \in Insts, r \in Repos : LinkWrites(j, i, r) => LinkWrites(k, i, r)
    BY <1>1, ReturnedWrites
  <1> HIDE DEF j, k
  <1>3. \A i \in Insts : InstRight(i)' <=> InstRight(i)
    BY <1>1 DEF InstRight
  <1>4. \A m \in Accounts : MemberRight(m)' <=> MemberRight(m)
    BY <1>1 DEF MemberRight, Installed, Present
  <1>5. \A i \in Insts, r \in Repos : LinkRight(i, r)' <=> LinkRight(i, r)
    BY <1>1 DEF LinkRight
  <1> QED
    BY <1>1, <1>2, <1>3, <1>4, <1>5, RequestTold DEF j

\* The query finds every repository that is linked to the installation that is
\* gone: the others need no more writing.
LEMMA QueryLinkedTold ==
  ASSUME OneByOne, IInv, SyncInv, NEW h \in Hooks, QueryLinked(h)
  PROVE  SyncInv'
  <1> DEFINE j == hook[h]
  <1> DEFINE linked == {r \in Repos : repos[r].inst = j.event.inst}
  <1> DEFINE k == [Returned(j) EXCEPT !.remove = linked]
  <1>1. /\ ~Idle(h) /\ HookBecomes(h, k) /\ j.calls[1] = "query"
        /\ UNCHANGED <<gh, shared, wire, repos, insts, members>>
    BY DEF QueryLinked, Calling, github, bounded, store
  <1>2. /\ j \in HookState /\ HookOK(j) /\ Underway(j, repos) /\ j.event \in Event
        /\ j.event.kind = "deleted" /\ j.event.inst \in Insts
    BY <1>1, BusyStage
  <1>3. /\ Returned(j) \in [calls : Seq(CallNames), event : {j.event}, add : {j.add}, remove : {j.remove},
                            reads : {j.reads}]
        /\ Returned(j).calls \in Suffixes("deleted") /\ Returned(j).calls[1] = "purge"
    <2>1. j.calls[1] \notin {"add", "disable", "forget", "member", "upsert", "purge", "remove"}
      BY <1>1
    <2> HIDE DEF j, k
    <2> QED
      BY <1>2, <2>1, ReturnedStage
  <1>4. /\ k.event = j.event /\ k.add = j.add /\ k.remove = linked
        /\ k.calls \in Suffixes("deleted") /\ k.calls[1] = "purge"
    <2> HIDE DEF j, linked
    <2> QED
      BY <1>3
  <1>5. \A r \in linked : r \in Repos /\ repos[r].inst = j.event.inst
    OBVIOUS
  <1>6. \A r \in Repos : r \in linked \/ repos[r].inst # j.event.inst
    OBVIOUS
  <1> HIDE DEF j, linked, k
  <1>7. Underway(k, repos)
    BY <1>2, <1>4, <1>5 DEF Underway
  <1>8. ASSUME NEW i \in Insts, NEW r \in Repos,
               j.event \in LinkRel(i, r) => j.event \in LinkGood(i, r),
               LinkWrites(j, i, r) \/ LinkRight(i, r)
        PROVE  LinkWrites(k, i, r) \/ LinkRight(i, r)
    <2>1. j.event.added = {} /\ j.event.removed = {}
      BY <1>2 DEF Underway, Shaped
    <2>2. CASE i = j.event.inst
      <3>1. j.event \in LinkRel(i, r)
        BY <1>2, <2>2 DEF LinkRel
      <3>2. r \notin shared[i]
        BY <1>8, <2>1, <3>1 DEF LinkGood
      <3>3. CASE r \in linked
        BY <1>4, <3>1, <3>3 DEF LinkWrites
      <3>4. CASE r \notin linked
        BY <1>6, <2>2, <3>2, <3>4 DEF LinkRight
      <3> QED
        BY <3>3, <3>4
    <2>3. CASE i # j.event.inst
      BY <1>8, <2>1, <2>3 DEF LinkWrites, LinkRel
    <2> QED
      BY <2>2, <2>3
  <1>9. \A i \in Insts : InstWrites(j, i) => InstWrites(k, i)
    BY <1>4 DEF InstWrites
  <1>10. \A m \in Accounts : MemberWrites(j, m) => MemberWrites(k, m)
    BY <1>2, <1>4 DEF MemberWrites
  <1>11. /\ \A i \in Insts : InstRight(i)' <=> InstRight(i)
         /\ \A m \in Accounts : MemberRight(m)' <=> MemberRight(m)
         /\ \A i \in Insts, r \in Repos : LinkRight(i, r)' <=> LinkRight(i, r)
    BY <1>1 DEF InstRight, MemberRight, Installed, Present, LinkRight
  <1> QED
    BY <1>1, <1>4, <1>7, <1>8, <1>9, <1>10, <1>11, RequestTold DEF j

\* A step of a loop over repositories: one of them is written.
LEMMA LoopStepTold ==
  ASSUME OneByOne, IInv, SyncInv, NEW h \in Hooks, NEW r \in Repos, NEW k, NEW doc,
         ~Idle(h), HookBecomes(h, k), UNCHANGED <<gh, shared, wire, insts, members>>,
         repos' = [repos EXCEPT ![r] = doc],
         k.event = hook[h].event, k.calls = hook[h].calls,
         k.add \subseteq hook[h].add, k.remove \subseteq hook[h].remove,
         hook[h].add \ k.add \subseteq {r}, hook[h].remove \ k.remove \subseteq {r},
         doc.inst = repos[r].inst \/ hook[h].event.kind # "deleted",
         \A i \in Insts :
           /\ hook[h].event \in LinkRel(i, r) => hook[h].event \in LinkGood(i, r)
           /\ LinkWrites(hook[h], i, r) \/ LinkRight(i, r)
           => (doc.enabled /\ doc.inst = i <=> r \in shared[i])
  PROVE  SyncInv'
  <1>1. Underway(hook[h], repos) /\ hook[h].event # None
    BY BusyStage
  <1>2. repos'[r] = doc /\ \A s \in Repos \ {r} : repos'[s] = repos[s]
    BY DEF IInv, StoreOK
  <1>3. hook[h].remove \subseteq Repos
    BY BusyHook DEF HookState
  <1>4. Underway(k, repos')
    <2>1. hook[h].event.kind = "deleted" => \A s \in k.remove : repos'[s].inst = hook[h].event.inst
      BY <1>1, <1>2, <1>3 DEF Underway
    <2> QED
      BY <1>1, <2>1 DEF Underway
  <1>5. \A i \in Insts : InstWrites(hook[h], i) => InstWrites(k, i)
    BY DEF InstWrites
  <1>6. \A m \in Accounts : MemberWrites(hook[h], m) => MemberWrites(k, m)
    BY DEF MemberWrites
  <1>7. /\ \A i \in Insts : InstRight(i)' <=> InstRight(i)
        /\ \A m \in Accounts : MemberRight(m)' <=> MemberRight(m)
    BY DEF InstRight, MemberRight, Installed, Present
  <1>8. ASSUME NEW i \in Insts, NEW s \in Repos,
               hook[h].event \in LinkRel(i, s) => hook[h].event \in LinkGood(i, s),
               LinkWrites(hook[h], i, s) \/ LinkRight(i, s)
        PROVE  LinkWrites(k, i, s) \/ LinkRight(i, s)'
    <2>1. CASE s = r
      BY <1>2, <1>8, <2>1 DEF LinkRight
    <2>2. CASE s # r
      <3>1. LinkRight(i, s)' <=> LinkRight(i, s)
        BY <1>2, <2>2 DEF LinkRight
      <3>2. LinkWrites(hook[h], i, s) => LinkWrites(k, i, s)
        BY <2>2 DEF LinkWrites
      <3> QED
        BY <1>8, <3>1, <3>2
    <2> QED
      BY <2>1, <2>2
  <1> QED
    BY <1>4, <1>5, <1>6, <1>7, <1>8, RequestTold

\* The read of add changes nothing that is told.
LEMMA AddReadsTold ==
  ASSUME OneByOne, IInv, SyncInv, NEW h \in Hooks, NEW r \in Repos, AddReads(h, r)
  PROVE  SyncInv'
  <1> DEFINE j == hook[h]
  <1> DEFINE k == [j EXCEPT !.reads = {[repo |-> r, found |-> repos[r].stored]}]
  <1>1. /\ ~Idle(h) /\ HookBecomes(h, k)
        /\ UNCHANGED <<gh, shared, wire, repos, insts, members>>
    BY DEF AddReads, Calling, github, bounded, store
  <1>2. j \in HookState /\ Underway(j, repos)
    BY <1>1, BusyStage
  <1>3. /\ k.event = j.event /\ k.calls = j.calls /\ k.add = j.add /\ k.remove = j.remove
    BY <1>2 DEF HookState
  <1> HIDE DEF j, k
  <1>4. Underway(k, repos')
    BY <1>1, <1>2, <1>3 DEF Underway
  <1>5. /\ \A i \in Insts : InstWrites(j, i) => InstWrites(k, i)
        /\ \A m \in Accounts : MemberWrites(j, m) => MemberWrites(k, m)
        /\ \A i \in Insts, s \in Repos : LinkWrites(j, i, s) => LinkWrites(k, i, s)
    BY <1>3 DEF InstWrites, MemberWrites, LinkWrites
  <1>6. /\ \A i \in Insts : InstRight(i)' <=> InstRight(i)
        /\ \A m \in Accounts : MemberRight(m)' <=> MemberRight(m)
        /\ \A i \in Insts, s \in Repos : LinkRight(i, s)' <=> LinkRight(i, s)
    BY <1>1 DEF InstRight, MemberRight, LinkRight, Installed, Present
  <1> QED
    BY <1>1, <1>3, <1>4, <1>5, <1>6, RequestTold DEF j

LEMMA AddWritesTold ==
  ASSUME OneByOne, IInv, SyncInv, NEW h \in Hooks, NEW a \in Reads, AddWrites(h, a)
  PROVE  SyncInv'
  <1> DEFINE j == hook[h]
  <1> DEFINE r == a.repo
  <1> DEFINE k == [j EXCEPT !.add = @ \ {r}, !.reads = {}]
  <1> DEFINE doc == AddedRepo(repos[r], j.event.inst, a.found)
  <1>0. r \in Repos /\ a.found \in BOOLEAN /\ a \in j.reads
    BY DEF Reads, AddWrites
  <1>1. /\ ~Idle(h) /\ j.calls[1] = "add" /\ HookBecomes(h, k)
        /\ repos' = [repos EXCEPT ![r] = doc]
        /\ UNCHANGED <<gh, shared, wire, insts, members>>
    BY DEF AddWrites, Calling, github, bounded
  <1>2. /\ j \in HookState /\ Underway(j, repos) /\ j.event \in Event
        /\ j.event.kind \in {"activate", "repositories"} /\ j.event.inst \in Insts
        /\ r \in j.add
    BY <1>0, <1>1, BusyStage DEF HookOK
  <1>3. doc.enabled /\ doc.inst = j.event.inst
    <2>1. repos[r] \in RepoDoc
      BY <1>0 DEF IInv, StoreOK
    <2>2. j.event.inst \in Insts /\ j.event.inst # None
      BY <1>2
    <2> HIDE DEF j, r
    <2> QED
      BY <1>0, <2>1, <2>2 DEF AddedRepo, RepoDoc
  <1>4. /\ k.event = j.event /\ k.calls = j.calls /\ k.add = j.add \ {r} /\ k.remove = j.remove
    BY <1>2 DEF HookState
  <1> HIDE DEF j, r, k, doc
  <1>5. ASSUME NEW i \in Insts, j.event \in LinkRel(i, r) => j.event \in LinkGood(i, r)
        PROVE  doc.enabled /\ doc.inst = i <=> r \in shared[i]
    <2>1. r \in j.event.added
      BY <1>2 DEF Underway
    <2>2. j.event \in LinkGood(i, r)
      BY <1>2, <1>5, <2>1 DEF LinkRel
    <2> QED
      BY <1>3, <2>1, <2>2 DEF LinkGood
  <1>6. /\ k.add \subseteq j.add /\ k.remove \subseteq j.remove
        /\ j.add \ k.add \subseteq {r} /\ j.remove \ k.remove \subseteq {r}
        /\ j.event.kind # "deleted"
    BY <1>2, <1>4
  <1> QED
    BY <1>0, <1>1, <1>4, <1>5, <1>6, LoopStepTold DEF j

LEMMA DisableRepoTold ==
  ASSUME OneByOne, IInv, SyncInv, NEW h \in Hooks, NEW r \in Repos, DisableRepo(h, r)
  PROVE  SyncInv'
  <1> DEFINE j == hook[h]
  <1> DEFINE k == [j EXCEPT !.remove = @ \ {r}]
  <1> DEFINE doc == Disabled(repos[r])
  <1>1. /\ ~Idle(h) /\ j.calls[1] \in {"remove", "purge"} /\ r \in j.remove /\ HookBecomes(h, k)
        /\ repos' = [repos EXCEPT ![r] = doc]
        /\ UNCHANGED <<gh, shared, wire, insts, members>>
    BY DEF DisableRepo, Calling, github, bounded
  <1>2. /\ j \in HookState /\ Underway(j, repos) /\ j.event \in Event
        /\ j.event.kind \in {"deleted", "repositories"} /\ j.event.inst \in Insts
    BY <1>1, BusyStage
  <1>3. ~doc.enabled /\ doc.inst = repos[r].inst
    BY DEF Disabled, IInv, StoreOK, RepoDoc
  <1>4. /\ k.event = j.event /\ k.calls = j.calls /\ k.add = j.add /\ k.remove = j.remove \ {r}
    BY <1>2 DEF HookState
  <1> HIDE DEF j, k, doc
  <1>5. ASSUME NEW i \in Insts, j.event \in LinkRel(i, r) => j.event \in LinkGood(i, r),
               LinkWrites(j, i, r) \/ LinkRight(i, r)
        PROVE  doc.enabled /\ doc.inst = i <=> r \in shared[i]
    <2>1. CASE j.event.kind = "repositories"
      <3>1. r \in j.event.removed /\ r \notin j.event.added
        BY <1>1, <1>2, <2>1 DEF Underway, Shaped
      <3>2. j.event \in LinkGood(i, r)
        BY <1>2, <1>5, <3>1 DEF LinkRel
      <3> QED
        BY <1>3, <3>1, <3>2 DEF LinkGood
    <2>2. CASE j.event.kind = "deleted" /\ j.event.inst = i
      <3>1. r \notin j.event.added
        BY <1>2, <2>2 DEF Underway, Shaped
      <3>2. j.event \in LinkGood(i, r)
        BY <1>2, <1>5, <2>2 DEF LinkRel
      <3> QED
        BY <1>3, <3>1, <3>2 DEF LinkGood
    <2>3. CASE j.event.kind = "deleted" /\ j.event.inst # i
      <3>1. repos[r].inst = j.event.inst /\ j.event.added = {} /\ j.event.removed = {}
        BY <1>1, <1>2, <2>3 DEF Underway, Shaped
      <3>2. LinkRight(i, r)
        BY <1>5, <2>3, <3>1 DEF LinkWrites, LinkRel
      <3> QED
        BY <1>3, <2>3, <3>1, <3>2 DEF LinkRight
    <2> QED
      BY <1>2, <2>1, <2>2, <2>3
  <1>6. /\ k.add \subseteq j.add /\ k.remove \subseteq j.remove
        /\ j.add \ k.add \subseteq {r} /\ j.remove \ k.remove \subseteq {r}
    BY <1>4
  <1> QED
    BY <1>1, <1>3, <1>4, <1>5, <1>6, LoopStepTold DEF j

-----------------------------------------------------------------------------
(***************************************************************************)
(* The wire.                                                               *)
(***************************************************************************)
LEMMA FirstCalls ==
  ASSUME NEW kind \in {"activate", "suspend", "deleted", "repositories"}
  PROVE  /\ Calls(kind) \in Suffixes(kind)
         /\ kind = "activate" => Calls(kind)[1] = "upsert"
         /\ kind = "suspend" => Calls(kind)[1] = "disable"
         /\ kind = "deleted" => Calls(kind)[1] = "query"
         /\ kind = "repositories" => Calls(kind)[1] = "add"
  <1>1. CASE kind = "activate"
    <2>1. Calls(kind) = <<"upsert", "member", "add">>
      BY <1>1, Zenon DEF Calls
    <2>2. Suffixes(kind) = {<<"upsert", "member", "add">>, <<"member", "add">>, <<"add">>}
      BY <1>1, Zenon DEF Suffixes
    <2>3. Calls(kind)[1] = "upsert"
      BY TailOfThree, <2>1
    <2>4. Calls(kind) \in Suffixes(kind)
      BY <2>1, <2>2, Zenon
    <2> QED
      BY <1>1, <2>3, <2>4
  <1>2. CASE kind = "suspend"
    <2>1. Calls(kind) = <<"disable">>
      BY <1>2, Zenon DEF Calls
    <2>2. Suffixes(kind) = {<<"disable">>}
      BY <1>2, Zenon DEF Suffixes
    <2>3. Calls(kind)[1] = "disable"
      BY OnlyCall, <2>1, Zenon
    <2>4. Calls(kind) \in Suffixes(kind)
      BY <2>1, <2>2, Zenon
    <2> QED
      BY <1>2, <2>3, <2>4
  <1>3. CASE kind = "deleted"
    <2>1. Calls(kind) = <<"query", "purge", "disable", "forget">>
      BY <1>3, Zenon DEF Calls
    <2>2. Suffixes(kind) = {<<"query", "purge", "disable", "forget">>,
                            <<"purge", "disable", "forget">>, <<"disable", "forget">>, <<"forget">>}
      BY <1>3, Zenon DEF Suffixes
    <2>3. Calls(kind)[1] = "query"
      BY TailOfFour, <2>1
    <2>4. Calls(kind) \in Suffixes(kind)
      BY <2>1, <2>2, Zenon
    <2> QED
      BY <1>3, <2>3, <2>4
  <1>4. CASE kind = "repositories"
    <2>1. Calls(kind) = <<"add", "remove", "member">>
      BY <1>4, Zenon DEF Calls
    <2>2. Suffixes(kind) = {<<"add", "remove", "member">>, <<"remove", "member">>, <<"member">>}
      BY <1>4, Zenon DEF Suffixes
    <2>3. Calls(kind)[1] = "add"
      BY TailOfThree, <2>1
    <2>4. Calls(kind) \in Suffixes(kind)
      BY <2>1, <2>2, Zenon
    <2> QED
      BY <1>4, <2>3, <2>4
  <1> QED
    BY <1>1, <1>2, <1>3, <1>4

\* The first event of the wire becomes the one being handled; all of it is
\* still to be written.
LEMMA ReceiveTold ==
  ASSUME OneByOne, IInv, SyncInv, NEW h \in Hooks, NEW n \in DOMAIN wire, Receive(h, n)
  PROVE  SyncInv'
  <1> DEFINE e == wire[1]
  <1> DEFINE j == [calls |-> Calls(e.kind), event |-> e, add |-> e.added, remove |-> e.removed,
                  reads |-> {}]
  <1>1. /\ Idle(h) /\ wire' = Without(wire, 1) /\ HookBecomes(h, j)
        /\ UNCHANGED <<gh, shared, repos, insts, members>>
        /\ 1 \in DOMAIN wire
    BY DEF Receive, OneByOne, github, store, bounded
  <1>2. wire \in Seq(Event) /\ wire # <<>>
    <2>1. Honest \subseteq Event
      BY DEF Honest
    <2> QED
      BY <1>1, <2>1, SeqMonotonic DEF IInv, WireOK
  <1>3. /\ e \in Shaped /\ e \in Event /\ e # None
        /\ e.kind \in {"activate", "suspend", "deleted", "repositories"}
    BY <1>1 DEF SyncInv, Sound, Shaped, Event
  <1>4. /\ Calls(e.kind) \in Suffixes(e.kind)
        /\ e.kind = "activate" => Calls(e.kind)[1] = "upsert"
        /\ e.kind = "suspend" => Calls(e.kind)[1] = "disable"
        /\ e.kind = "deleted" => Calls(e.kind)[1] = "query"
        /\ e.kind = "repositories" => Calls(e.kind)[1] = "add"
    BY <1>3, FirstCalls
  <1>5. /\ j.calls = Calls(e.kind) /\ j.event = e /\ j.add = e.added /\ j.remove = e.removed
    OBVIOUS
  <1>6. hook'[h] = j
    BY <1>1 DEF IInv, HooksOK, HookBecomes
  <1>7. Hooks = {h} /\ Handled = {None} /\ Handled' = {e}
    BY <1>1, <1>5, <1>6, OnlyHook DEF Idle
  <1> HIDE DEF j, e
  <1>8. Underway(j, repos)
    BY <1>3, <1>4, <1>5 DEF Underway, Shaped
  <1>9. Sound'
    <2>1. Orderly'
      BY <1>1 DEF SyncInv, Sound, Orderly, Present
    <2>2. \A l \in DOMAIN wire' : wire'[l] \in Shaped
      <3>1. LET t == Without(wire, 1)
            IN  /\ Len(wire) \in Nat \ {0} /\ DOMAIN wire = 1 .. Len(wire)
                /\ DOMAIN t = 1 .. Len(wire) - 1
                /\ \A l \in 1 .. Len(wire) - 1 : t[l] = wire[l + 1]
        BY <1>2, WithoutFirst
      <3> QED
        BY <1>1, <3>1, SMTT(30) DEF SyncInv, Sound
    <2>3. \A g \in Hooks : ~Idle(g)' => Underway(hook[g], repos)'
      BY <1>1, <1>6, <1>7, <1>8
    <2> QED
      BY <2>1, <2>2, <2>3 DEF Sound
  <1>10. ASSUME NEW i \in Insts PROVE InstTold(i)'
    <2> DEFINE W == {g \in Hooks : InstWrites(hook[g], i)}
    <2> DEFINE X == {g \in Hooks : InstWrites(hook[g], i)}'
    <2>1. W = {}
      BY <1>1, <1>7 DEF Idle, InstWrites, InstRel
    <2>2. e \in InstRel(i) => X # {}
      <3>1. e \in InstRel(i) => InstWrites(j, i)
        BY <1>4, <1>5 DEF InstWrites, InstRel
      <3> QED
        BY <1>6, <1>7, <3>1 DEF InstWrites, InstRel
    <2>3. Told(wire, Handled, InstRel(i), InstGood(i), W, InstRight(i))
      BY DEF SyncInv, InstTold
    <2> HIDE DEF W, X
    <2>4. Told(wire', Handled', InstRel(i), InstGood(i), X, InstRight(i))
      BY <1>1, <1>2, <1>7, <2>1, <2>2, <2>3, ReceivedTold DEF e
    <2>5. /\ InstGood(i)' = InstGood(i) /\ InstRel(i)' = InstRel(i)
          /\ InstRight(i)' <=> InstRight(i)
      BY <1>1 DEF InstGood, InstRel, InstRight
    <2> QED
      BY <2>4, <2>5 DEF InstTold, X, Told
  <1>11. ASSUME NEW m \in Accounts PROVE MemberTold(m)'
    <2> DEFINE W == {g \in Hooks : MemberWrites(hook[g], m)}
    <2> DEFINE X == {g \in Hooks : MemberWrites(hook[g], m)}'
    <2>1. W = {}
      BY <1>1, <1>7 DEF Idle, MemberWrites, MemberRel
    <2>2. e \in MemberRel(m) => X # {}
      <3>1. e \in MemberRel(m) => MemberWrites(j, m)
        BY <1>4, <1>5 DEF MemberWrites
      <3> QED
        BY <1>6, <1>7, <3>1 DEF MemberWrites, MemberRel
    <2>3. Told(wire, Handled, MemberRel(m), MemberGood(m), W, MemberRight(m))
      BY DEF SyncInv, MemberTold
    <2> HIDE DEF W, X
    <2>4. Told(wire', Handled', MemberRel(m), MemberGood(m), X, MemberRight(m))
      BY <1>1, <1>2, <1>7, <2>1, <2>2, <2>3, ReceivedTold DEF e
    <2>5. /\ MemberGood(m)' = MemberGood(m) /\ MemberRel(m)' = MemberRel(m)
          /\ MemberRight(m)' <=> MemberRight(m)
      BY <1>1 DEF MemberGood, MemberRel, MemberRight, Installed, Present
    <2> QED
      BY <2>4, <2>5 DEF MemberTold, X, Told
  <1>12. ASSUME NEW i \in Insts, NEW r \in Repos PROVE LinkTold(i, r)'
    <2> DEFINE W == {g \in Hooks : LinkWrites(hook[g], i, r)}
    <2> DEFINE X == {g \in Hooks : LinkWrites(hook[g], i, r)}'
    <2>1. W = {}
      BY <1>1, <1>7 DEF Idle, LinkWrites, LinkRel
    <2>2. e \in LinkRel(i, r) => X # {}
      <3>1. e \in LinkRel(i, r) => LinkWrites(j, i, r)
        BY <1>4, <1>5 DEF LinkWrites, LinkRel
      <3> QED
        BY <1>6, <1>7, <3>1 DEF LinkWrites, LinkRel
    <2>3. Told(wire, Handled, LinkRel(i, r), LinkGood(i, r), W, LinkRight(i, r))
      BY DEF SyncInv, LinkTold
    <2> HIDE DEF W, X
    <2>4. Told(wire', Handled', LinkRel(i, r), LinkGood(i, r), X, LinkRight(i, r))
      BY <1>1, <1>2, <1>7, <2>1, <2>2, <2>3, ReceivedTold DEF e
    <2>5. /\ LinkGood(i, r)' = LinkGood(i, r) /\ LinkRel(i, r)' = LinkRel(i, r)
          /\ LinkRight(i, r)' <=> LinkRight(i, r)
      BY <1>1 DEF LinkGood, LinkRel, LinkRight
    <2> QED
      BY <2>4, <2>5 DEF LinkTold, X, Told
  <1> QED
    BY <1>9, <1>10, <1>11, <1>12 DEF SyncInv

\* The request fails: its event is the first of the wire again, and still to be
\* written where it matters.
LEMMA HandlerFailsTold ==
  ASSUME OneByOne, IInv, SyncInv, NEW h \in Hooks, HandlerFails(h)
  PROVE  SyncInv'
  <1> DEFINE e == hook[h].event
  <1>1. /\ ~Idle(h) /\ wire' = <<e>> \o wire /\ HookBecomes(h, NoHook)
        /\ UNCHANGED <<gh, shared, repos, insts, members>>
    BY DEF HandlerFails, github, store
  <1>2. wire \in Seq(Event)
    <2>1. Honest \subseteq Event
      BY DEF Honest
    <2> QED
      BY <2>1, SeqMonotonic DEF IInv, WireOK
  <1>3. e \in Shaped /\ e \in Event
    BY <1>1, BusyStage DEF Underway
  <1>4. hook'[h] = NoHook
    BY <1>1 DEF IInv, HooksOK, HookBecomes
  <1>5. Hooks = {h} /\ Handled = {e} /\ Handled' = {None}
    BY <1>4, OnlyHook DEF NoHook
  <1> HIDE DEF e
  <1>6. Sound'
    <2>1. Orderly'
      BY <1>1 DEF SyncInv, Sound, Orderly, Present
    <2>2. \A l \in DOMAIN wire' : wire'[l] \in Shaped
      <3>1. <<e>> \in Seq(Event) /\ Len(<<e>>) = 1 /\ <<e>>[1] = e
        BY <1>3
      <3>2. Len(wire) \in Nat /\ DOMAIN wire = 1 .. Len(wire)
        BY <1>2, LenProperties
      <3>3. /\ DOMAIN wire' = 1 .. Len(wire) + 1 /\ wire'[1] = e
            /\ \A l \in 1 .. Len(wire) : wire'[l + 1] = wire[l]
        BY <1>1, <1>2, <3>1, <3>2, ConcatProperties
      <3>4. \A l \in DOMAIN wire' : l = 1 \/ (l - 1 \in DOMAIN wire /\ wire'[l] = wire[l - 1])
        BY <3>2, <3>3
      <3> QED
        BY <1>3, <3>3, <3>4 DEF SyncInv, Sound
    <2>3. \A g \in Hooks : Idle(g)'
      BY <1>4, <1>5 DEF Idle, NoHook
    <2> QED
      BY <2>1, <2>2, <2>3 DEF Sound, Shaped
  <1>7. ASSUME NEW i \in Insts PROVE InstTold(i)'
    <2> DEFINE W == {g \in Hooks : InstWrites(hook[g], i)}
    <2> DEFINE X == {g \in Hooks : InstWrites(hook[g], i)}'
    <2>1. e \notin InstRel(i) => W = {}
      BY <1>5 DEF InstWrites, e
    <2>2. Told(wire, Handled, InstRel(i), InstGood(i), W, InstRight(i))
      BY DEF SyncInv, InstTold
    <2> HIDE DEF W, X
    <2>3. Handled' \intersect InstRel(i) \subseteq Handled /\ e \in Handled
      BY <1>5 DEF InstRel
    <2>4. Told(wire', Handled', InstRel(i), InstGood(i), X, InstRight(i))
      BY <1>1, <1>2, <1>3, <2>1, <2>2, <2>3, FailedTold
    <2>5. /\ InstGood(i)' = InstGood(i) /\ InstRel(i)' = InstRel(i)
          /\ InstRight(i)' <=> InstRight(i)
      BY <1>1 DEF InstGood, InstRel, InstRight
    <2> QED
      BY <2>4, <2>5 DEF InstTold, X, Told
  <1>8. ASSUME NEW m \in Accounts PROVE MemberTold(m)'
    <2> DEFINE W == {g \in Hooks : MemberWrites(hook[g], m)}
    <2> DEFINE X == {g \in Hooks : MemberWrites(hook[g], m)}'
    <2>1. e \notin MemberRel(m) => W = {}
      BY <1>5 DEF MemberWrites, e
    <2>2. Told(wire, Handled, MemberRel(m), MemberGood(m), W, MemberRight(m))
      BY DEF SyncInv, MemberTold
    <2> HIDE DEF W, X
    <2>3. Handled' \intersect MemberRel(m) \subseteq Handled /\ e \in Handled
      BY <1>5 DEF MemberRel
    <2>4. Told(wire', Handled', MemberRel(m), MemberGood(m), X, MemberRight(m))
      BY <1>1, <1>2, <1>3, <2>1, <2>2, <2>3, FailedTold
    <2>5. /\ MemberGood(m)' = MemberGood(m) /\ MemberRel(m)' = MemberRel(m)
          /\ MemberRight(m)' <=> MemberRight(m)
      BY <1>1 DEF MemberGood, MemberRel, MemberRight, Installed, Present
    <2> QED
      BY <2>4, <2>5 DEF MemberTold, X, Told
  <1>9. ASSUME NEW i \in Insts, NEW r \in Repos PROVE LinkTold(i, r)'
    <2> DEFINE W == {g \in Hooks : LinkWrites(hook[g], i, r)}
    <2> DEFINE X == {g \in Hooks : LinkWrites(hook[g], i, r)}'
    <2>1. e \notin LinkRel(i, r) => W = {}
      BY <1>5 DEF LinkWrites, e
    <2>2. Told(wire, Handled, LinkRel(i, r), LinkGood(i, r), W, LinkRight(i, r))
      BY DEF SyncInv, LinkTold
    <2> HIDE DEF W, X
    <2>3. Handled' \intersect LinkRel(i, r) \subseteq Handled /\ e \in Handled
      BY <1>5 DEF LinkRel
    <2>4. Told(wire', Handled', LinkRel(i, r), LinkGood(i, r), X, LinkRight(i, r))
      BY <1>1, <1>2, <1>3, <2>1, <2>2, <2>3, FailedTold
    <2>5. /\ LinkGood(i, r)' = LinkGood(i, r) /\ LinkRel(i, r)' = LinkRel(i, r)
          /\ LinkRight(i, r)' <=> LinkRight(i, r)
      BY <1>1 DEF LinkGood, LinkRel, LinkRight
    <2> QED
      BY <2>4, <2>5 DEF LinkTold, X, Told
  <1> QED
    BY <1>6, <1>7, <1>8, <1>9 DEF SyncInv

\* The requests and the store stay as they are, but for what no part looks at;
\* the wire tells no less than before.
LEMMA WireTold ==
  ASSUME SyncInv, UNCHANGED <<gh, shared, hook, insts, members>>,
         \A r \in Repos : repos'[r].enabled = repos[r].enabled /\ repos'[r].inst = repos[r].inst,
         \A h \in Hooks : hook[h].remove \subseteq Repos,
         \A n \in DOMAIN wire' : wire'[n] \in Shaped,
         \A Rel, Good, W, Right :
           Told(wire, Handled, Rel, Good, W, Right) => Told(wire', Handled, Rel, Good, W, Right)
  PROVE  SyncInv'
  <1>1. Handled' = Handled
    BY DEF Handled
  <1>2. Sound'
    <2>1. Orderly'
      BY DEF SyncInv, Sound, Orderly, Present
    <2>2. \A h \in Hooks : ~Idle(h)' => Underway(hook[h], repos)'
      BY DEF SyncInv, Sound, Idle, Underway
    <2> QED
      BY <2>1, <2>2 DEF Sound, Shaped
  <1>3. ASSUME NEW i \in Insts PROVE InstTold(i)'
    <2> DEFINE W == {h \in Hooks : InstWrites(hook[h], i)}
    <2>1. Told(wire, Handled, InstRel(i), InstGood(i), W, InstRight(i))
      BY DEF SyncInv, InstTold
    <2>2. {h \in Hooks : InstWrites(hook[h], i)}' = W
      BY DEF InstWrites, InstRel
    <2> HIDE DEF W
    <2>3. Told(wire', Handled, InstRel(i), InstGood(i), W, InstRight(i))
      BY <2>1
    <2>4. /\ InstGood(i)' = InstGood(i) /\ InstRel(i)' = InstRel(i)
          /\ InstRight(i)' <=> InstRight(i)
      BY DEF InstGood, InstRel, InstRight
    <2> QED
      BY <1>1, <2>2, <2>3, <2>4 DEF InstTold, Told
  <1>4. ASSUME NEW m \in Accounts PROVE MemberTold(m)'
    <2> DEFINE W == {h \in Hooks : MemberWrites(hook[h], m)}
    <2>1. Told(wire, Handled, MemberRel(m), MemberGood(m), W, MemberRight(m))
      BY DEF SyncInv, MemberTold
    <2>2. {h \in Hooks : MemberWrites(hook[h], m)}' = W
      BY DEF MemberWrites, MemberRel
    <2> HIDE DEF W
    <2>3. Told(wire', Handled, MemberRel(m), MemberGood(m), W, MemberRight(m))
      BY <2>1
    <2>4. /\ MemberGood(m)' = MemberGood(m) /\ MemberRel(m)' = MemberRel(m)
          /\ MemberRight(m)' <=> MemberRight(m)
      BY DEF MemberGood, MemberRel, MemberRight, Installed, Present
    <2> QED
      BY <1>1, <2>2, <2>3, <2>4 DEF MemberTold, Told
  <1>5. ASSUME NEW i \in Insts, NEW r \in Repos PROVE LinkTold(i, r)'
    <2> DEFINE W == {h \in Hooks : LinkWrites(hook[h], i, r)}
    <2>1. Told(wire, Handled, LinkRel(i, r), LinkGood(i, r), W, LinkRight(i, r))
      BY DEF SyncInv, LinkTold
    <2>2. {h \in Hooks : LinkWrites(hook[h], i, r)}' = W
      BY DEF LinkWrites, LinkRel
    <2> HIDE DEF W
    <2>3. Told(wire', Handled, LinkRel(i, r), LinkGood(i, r), W, LinkRight(i, r))
      BY <2>1
    <2>4. /\ LinkGood(i, r)' = LinkGood(i, r) /\ LinkRel(i, r)' = LinkRel(i, r)
          /\ LinkRight(i, r)' <=> LinkRight(i, r)
      BY DEF LinkGood, LinkRel, LinkRight
    <2> QED
      BY <1>1, <2>2, <2>3, <2>4 DEF LinkTold, Told
  <1> QED
    BY <1>2, <1>3, <1>4, <1>5 DEF SyncInv

LEMMA RepeatTold ==
  ASSUME IInv, SyncInv, NEW k \in DOMAIN wire, Repeat(k)
  PROVE  SyncInv'
  <1> DEFINE t == SubSeq(wire, 1, k) \o SubSeq(wire, k, Len(wire))
  <1>1. wire' = t /\ UNCHANGED <<gh, shared, hook, repos, insts, members>>
    BY DEF Repeat, github, store
  <1>2. wire \in Seq(Shaped)
    <2>1. wire \in Seq(Event)
      <3>1. Honest \subseteq Event
        BY DEF Honest
      <3> QED
        BY <3>1, SeqMonotonic DEF IInv, WireOK
    <2>2. DOMAIN wire = 1 .. Len(wire) /\ Len(wire) \in Nat
          /\ wire = [n \in 1 .. Len(wire) |-> wire[n]]
      BY <2>1, LenProperties
    <2>3. \A n \in 1 .. Len(wire) : wire[n] \in Shaped
      BY <2>2 DEF SyncInv, Sound
    <2> QED
      BY <2>1, <2>2, <2>3, IsASeq
  <1>3. t \in Seq(Shaped)
    BY <1>2, RepeatSeq
  <1>4. \A n \in DOMAIN t : t[n] \in Shaped
    <2> HIDE DEF t
    <2> QED
      BY <1>3, LenProperties, ElementOfSeq
  <1>5. \A Rel, Good, W, Right :
          Told(wire, Handled, Rel, Good, W, Right) => Told(t, Handled, Rel, Good, W, Right)
    BY <1>2, RepeatedTold
  <1>6. \A h \in Hooks : hook[h].remove \subseteq Repos
    BY DEF IInv, HooksOK, HookOK, HookState
  <1> HIDE DEF t
  <1> QED
    BY <1>1, <1>4, <1>5, <1>6, WireTold

\* Steps that change neither the wire, the requests nor what the parts look at.
LEMMA AsideTold ==
  ASSUME IInv, SyncInv, UNCHANGED <<gh, shared, wire, hook, insts, members>>,
         \A r \in Repos : repos'[r].enabled = repos[r].enabled /\ repos'[r].inst = repos[r].inst
  PROVE  SyncInv'
  <1>1. \A h \in Hooks : hook[h].remove \subseteq Repos
    BY DEF IInv, HooksOK, HookOK, HookState
  <1>2. \A n \in DOMAIN wire' : wire'[n] \in Shaped
    BY DEF SyncInv, Sound
  <1> QED
    BY <1>1, <1>2, WireTold

LEMMA SyncNext == OneByOne /\ IInv /\ SyncInv /\ [Next]_vars => SyncInv'
  <1> SUFFICES ASSUME OneByOne, IInv, SyncInv, [Next]_vars PROVE SyncInv'
    OBVIOUS
  <1>1. CASE GitHub
    BY <1>1, GitHubTold
  <1>2. ASSUME NEW h \in Hooks, Handle(h) PROVE SyncInv'
    <2>1. ASSUME NEW k \in DOMAIN wire, Receive(h, k) PROVE SyncInv'
      BY <2>1, ReceiveTold
    <2>2. ASSUME NEW r \in Repos, AddReads(h, r) \/ DisableRepo(h, r) PROVE SyncInv'
      BY <2>2, AddReadsTold, DisableRepoTold
    <2>6. ASSUME NEW a \in Reads, AddWrites(h, a) PROVE SyncInv'
      BY <2>6, AddWritesTold
    <2>3. CASE UpsertInstallation(h) \/ UpsertMember(h)
      BY <2>3, UpsertInstallationTold, UpsertMemberTold
    <2>4. CASE QueryLinked(h) \/ LoopEnds(h)
      BY <2>4, QueryLinkedTold, LoopEndsTold
    <2>5. CASE DisableInstallation(h) \/ DisableMember(h)
      BY <2>5, DisableInstallationTold, DisableMemberTold
    <2> QED
      BY <1>2, <2>1, <2>2, <2>3, <2>4, <2>5, <2>6 DEF Handle
  <1>3. ASSUME NEW h \in Hooks, HandlerFails(h) PROVE SyncInv'
    BY <1>3, HandlerFailsTold
  <1>4. ASSUME NEW k \in DOMAIN wire, Lose(k) PROVE FALSE
    BY <1>4 DEF Lose, OneByOne
  <1>5. ASSUME NEW k \in DOMAIN wire, Repeat(k) PROVE SyncInv'
    BY <1>5, RepeatTold
  <1>6. ASSUME NEW r \in Repos, AdminAddReads(r) \/ AdminRemove(r) PROVE FALSE
    <2>1. edits < MaxEdits /\ MaxEdits = 0 /\ edits \in 0 .. MaxEdits
      BY <1>6 DEF AdminAddReads, AdminRemove, Edit, OneByOne, IInv, StoreOK
    <2> QED
      BY <2>1
  <1>8. adding = {}
    <2>1. MaxEdits = 0 /\ \A a \in adding : a.edit \in 1 .. MaxEdits
      BY DEF OneByOne, IInv, StoreOK
    <2> QED
      BY <2>1
  <1>7. CASE UNCHANGED vars
    BY <1>7, AsideTold DEF vars, github, store
  <1> QED
    BY <1>1, <1>2, <1>3, <1>4, <1>5, <1>6, <1>7, <1>8 DEF Next

LEMMA SyncMemberNext == OneByOne /\ MInv /\ SyncInv /\ [MemberNext]_allVars => SyncInv'
  <1> SUFFICES ASSUME OneByOne, MInv, SyncInv, [MemberNext]_allVars PROVE SyncInv'
    OBVIOUS
  <1>1. IInv
    BY DEF MInv
  <1>2. CASE Elsewhere
    BY <1>1, <1>2, SyncNext DEF Elsewhere
  <1>3. CASE UNCHANGED vars
    BY <1>1, <1>3, SyncNext
  <1>4. ASSUME NEW w \in Workers, NEW r \in Repos, Write(w, r) PROVE SyncInv'
    <2>1. /\ repos' = [repos EXCEPT ![r] = CursorMerged(@)]
          /\ UNCHANGED <<gh, shared, wire, hook, insts, members>>
      BY <1>4 DEF Write, github
    <2>2. \A s \in Repos : repos'[s].enabled = repos[s].enabled /\ repos'[s].inst = repos[s].inst
      BY <1>1, <2>1 DEF IInv, StoreOK, CursorMerged, RepoDoc
    <2> QED
      BY <1>1, <2>1, <2>2, AsideTold
  <1>5. ASSUME NEW w \in Workers, Handler(w) PROVE UNCHANGED vars \/ \E r \in Repos : Write(w, r)
    BY <1>5 DEF Handler, Begin, List, Mint, Post, Fails, Scan
  <1>6. ASSUME UNCHANGED allVars PROVE UNCHANGED vars
    BY <1>6 DEF allVars
  <1> QED
    BY <1>2, <1>3, <1>4, <1>5, <1>6 DEF MemberNext

-----------------------------------------------------------------------------
\* process_webhook_event, one event after the other in the order GitHub sent
\* them: once every event is handled, tracked_repos, installations and members
\* say what GitHub says, whatever was run again or came twice on the way.
THEOREM EventsSyncStore ==
  ASSUME OneByOne
  PROVE  Spec => []Synced
  <1>1. IInv /\ SyncInv => Synced
    BY SyncInvSynced
  <1>2. Init => IInv /\ SyncInv
    BY IInvInit, SyncInit
  <1>3. IInv /\ SyncInv /\ [Next]_vars => (IInv /\ SyncInv)'
    BY IInvNext, SyncNext
  <1> QED
    BY <1>1, <1>2, <1>3, PTL DEF Spec

\* The same with the digests of members in flight: the cursors they write to the
\* documents do not disturb what the webhook writes there.
THEOREM DigestsKeepSync ==
  ASSUME OneByOne
  PROVE  MemberSpec => []Synced
  <1>1. MInv /\ SyncInv => Synced
    BY SyncInvSynced DEF MInv
  <1>2. MemberInit => MInv /\ SyncInv
    BY MInvInit, SyncInit DEF MemberInit
  <1>3. MInv /\ SyncInv /\ [MemberNext]_allVars => (MInv /\ SyncInv)'
    BY MInvNext, SyncMemberNext
  <1> QED
    BY <1>1, <1>2, <1>3, PTL DEF MemberSpec
=============================================================================
