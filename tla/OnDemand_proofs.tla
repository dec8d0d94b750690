-------------------------- MODULE OnDemand_proofs ---------------------------
(***************************************************************************)
(* Proofs about OnDemand, for any feeds, page sizes and limits, and        *)
(* whatever appears, is deleted or is edited while a digest is prepared.   *)
(***************************************************************************)
EXTENDS OnDemand, Lemmas

-----------------------------------------------------------------------------
(***************************************************************************)
(* The loops of OnDemand, one step at a time.                              *)
(***************************************************************************)
Section == [source : Sources, items : Seq(Events)]
Repos   == {RepoOf[e] : e \in Events}
Field   == [user : Sources, total : Nat, repos : Seq(Repos)]
Page    == Seq(Field)

\* The loop that keeps the elements of S.
OnlyLoop(A, s, S) ==
  \E f \in [0 .. Len(s) -> Seq(A)] :
    /\ f[0] = <<>> /\ Only(s, S) = f[Len(s)]
    /\ \A n \in 1 .. Len(s) : f[n] = IF s[n] \in S THEN Append(f[n - 1], s[n]) ELSE f[n - 1]

LEMMA OnlyRuns ==
  ASSUME NEW A, NEW s \in Seq(A), NEW S
  PROVE  OnlyLoop(A, s, S)
  <1> DEFINE step == [x \in Seq(A) \X A |-> IF x[2] \in S THEN Append(x[1], x[2]) ELSE x[1]]
             D(f) == [P \in SUBSET DOMAIN s |->
                       IF P = {} THEN <<>>
                       ELSE IF s[Max(P)] \in S THEN Append(f[P \ {Max(P)}], s[Max(P)])
                       ELSE f[P \ {Max(P)}]]
             iter == CHOOSE f : f = D(f)
  <1>0. Len(s) \in Nat /\ DOMAIN s = 1 .. Len(s) /\ \A k \in 1 .. Len(s) : s[k] \in A
    BY LenProperties, ElementOfSeq
  <1>1. step \in [(Seq(A)) \X (A) -> Seq(A)] /\ <<>> \in Seq(A)
    OBVIOUS
  <1>2. \A P \in SUBSET (1 .. Len(s)) : P # {} => s[Max(P)] \in A
    BY <1>0, Positions
  <1> HIDE DEF step
  <1>3. PICK f \in [SUBSET (1 .. Len(s)) -> Seq(A)] : FoldsTo(f, Len(s), s, step, <<>>)
    BY <1>1, FoldExists
  <1> USE DEF step
  <1>4. f = D(f)
    BY <1>0, <1>2, <1>3 DEF FoldsTo
  <1>5. iter = D(iter)
    BY <1>4
  <1>6. Only(s, S) = iter[1 .. Len(s)]
    BY <1>0 DEF Only, FoldLeft, MapThenFoldSet
  <1> HIDE DEF iter
  <1>7. ASSUME NEW P \in SUBSET (1 .. Len(s)), P # {}, iter[P \ {Max(P)}] \in Seq(A)
        PROVE  iter[P] = step[<<iter[P \ {Max(P)}], s[Max(P)]>>]
    BY <1>0, <1>2, <1>5, <1>7
  <1>8. iter[{}] = <<>>
    BY <1>5
  <1> HIDE DEF step
  <1>9. Unfolds(iter, s, step, <<>>, Seq(A))
    BY <1>7, <1>8 DEF Unfolds
  <1>10. LoopReturns(iter[1 .. Len(s)], s, step, <<>>, Seq(A))
    BY <1>1, <1>9, LoopRuns
  <1>11. PICK g \in [0 .. Len(s) -> Seq(A)] : LoopsTo(g, s, step, <<>>) /\ g[Len(s)] = iter[1 .. Len(s)]
    BY <1>10 DEF LoopReturns
  <1> USE DEF step
  <1>12. ASSUME NEW n \in 1 .. Len(s)
         PROVE  g[n] = IF s[n] \in S THEN Append(g[n - 1], s[n]) ELSE g[n - 1]
    <2>1. n - 1 \in 0 .. Len(s) /\ g[n - 1] \in Seq(A) /\ s[n] \in A
      BY <1>0
    <2> QED
      BY <1>11, <2>1 DEF LoopsTo
  <1> QED
    BY <1>6, <1>11, <1>12 DEF LoopsTo, OnlyLoop

\* The loop over the items of a section.
LEMMA ReposRun ==
  ASSUME NEW section \in Section
  PROVE  \E f \in [0 .. Len(section.items) -> Seq(Repos)] :
           /\ f[0] = <<>> /\ ReposOf(section) = f[Len(section.items)]
           /\ \A n \in 1 .. Len(section.items) :
                f[n] = IF RepoOf[section.items[n]] \in ToSet(f[n - 1]) THEN f[n - 1]
                       ELSE Append(f[n - 1], RepoOf[section.items[n]])
  <1> DEFINE s == section.items
             step == [x \in Seq(Repos) \X Events |->
                       IF RepoOf[x[2]] \in ToSet(x[1]) THEN x[1] ELSE Append(x[1], RepoOf[x[2]])]
             D(f) == [P \in SUBSET DOMAIN s |->
                       IF P = {} THEN <<>>
                       ELSE IF RepoOf[s[Max(P)]] \in ToSet(f[P \ {Max(P)}]) THEN f[P \ {Max(P)}]
                       ELSE Append(f[P \ {Max(P)}], RepoOf[s[Max(P)]])]
             iter == CHOOSE f : f = D(f)
  <1>s. s \in Seq(Events)
    BY DEF Section
  <1> HIDE DEF s
  <1>0. Len(s) \in Nat /\ DOMAIN s = 1 .. Len(s) /\ \A k \in 1 .. Len(s) : s[k] \in Events
    BY <1>s, LenProperties, ElementOfSeq
  <1>1. step \in [(Seq(Repos)) \X (Events) -> Seq(Repos)] /\ <<>> \in Seq(Repos)
    BY DEF Repos
  <1>2. \A P \in SUBSET (1 .. Len(s)) : P # {} => s[Max(P)] \in Events
    BY <1>0, Positions
  <1> HIDE DEF step
  <1>3. PICK f \in [SUBSET (1 .. Len(s)) -> Seq(Repos)] : FoldsTo(f, Len(s), s, step, <<>>)
    BY <1>s, <1>1, FoldExists
  <1> USE DEF step
  <1>4. f = D(f)
    BY <1>0, <1>2, <1>3 DEF FoldsTo
  <1>5. iter = D(iter)
    BY <1>4
  <1>6. ReposOf(section) = iter[1 .. Len(s)]
    BY <1>0 DEF s, ReposOf, FoldLeft, MapThenFoldSet
  <1> HIDE DEF iter
  <1>7. ASSUME NEW P \in SUBSET (1 .. Len(s)), P # {}, iter[P \ {Max(P)}] \in Seq(Repos)
        PROVE  iter[P] = step[<<iter[P \ {Max(P)}], s[Max(P)]>>]
    BY <1>0, <1>2, <1>5, <1>7
  <1>8. iter[{}] = <<>>
    BY <1>5
  <1> HIDE DEF step
  <1>9. Unfolds(iter, s, step, <<>>, Seq(Repos))
    BY <1>7, <1>8 DEF Unfolds
  <1>10. LoopReturns(iter[1 .. Len(s)], s, step, <<>>, Seq(Repos))
    BY <1>s, <1>1, <1>9, LoopRuns
  <1>11. PICK g \in [0 .. Len(s) -> Seq(Repos)] : LoopsTo(g, s, step, <<>>) /\ g[Len(s)] = iter[1 .. Len(s)]
    BY <1>10 DEF LoopReturns
  <1> USE DEF step
  <1>12. ASSUME NEW n \in 1 .. Len(s)
         PROVE  g[n] = IF RepoOf[s[n]] \in ToSet(g[n - 1]) THEN g[n - 1] ELSE Append(g[n - 1], RepoOf[s[n]])
    <2>1. n - 1 \in 0 .. Len(s) /\ g[n - 1] \in Seq(Repos) /\ s[n] \in Events
      BY <1>0
    <2> QED
      BY <1>11, <2>1 DEF LoopsTo
  <1> QED
    BY <1>6, <1>11, <1>12 DEF LoopsTo, s

\* The characters of a field.
LEMMA SizeTyped ==
  ASSUME NEW field \in Field
  PROVE  Size(field) \in Nat
  <1> DEFINE k == Len(field.repos)
             long == {n \in DOMAIN field.repos : field.repos[n] \in Verbose}
  <1>1. k \in Nat /\ DOMAIN field.repos = 1 .. k
    BY LenProperties DEF Field
  <1> HIDE DEF k
  <1>2. IsFiniteSet(1 .. k)
    BY <1>1, FS_Interval
  <1>3. IsFiniteSet(long)
    BY <1>1, <1>2, FS_Subset
  <1> HIDE DEF long
  <1>4. Cardinality(long) \in Nat
    BY <1>3, FS_CardinalityType
  <1>5. Size(field) = 1 + k + 2 * Cardinality(long)
    BY DEF Size, k, long
  <1> QED
    BY <1>1, <1>4, <1>5

\* The loop over the fields of a page.
LEMMA SizeRun ==
  ASSUME NEW s \in Page
  PROVE  \E f \in [0 .. Len(s) -> Nat] :
           /\ f[0] = 0 /\ SizeOf(s) = f[Len(s)]
           /\ \A n \in 1 .. Len(s) : f[n] = f[n - 1] + Size(s[n])
  <1> DEFINE step == [x \in Nat \X Field |-> x[1] + Size(x[2])]
             D(f) == [P \in SUBSET DOMAIN s |->
                       IF P = {} THEN 0 ELSE f[P \ {Max(P)}] + Size(s[Max(P)])]
             iter == CHOOSE f : f = D(f)
  <1> USE DEF Page
  <1>0. Len(s) \in Nat /\ DOMAIN s = 1 .. Len(s) /\ \A k \in 1 .. Len(s) : s[k] \in Field
    BY LenProperties, ElementOfSeq
  <1>1. step \in [(Nat) \X (Field) -> Nat] /\ 0 \in Nat
    BY SizeTyped
  <1>2. \A P \in SUBSET (1 .. Len(s)) : P # {} => s[Max(P)] \in Field
    BY <1>0, Positions
  <1> HIDE DEF step
  <1>3. PICK f \in [SUBSET (1 .. Len(s)) -> Nat] : FoldsTo(f, Len(s), s, step, 0)
    BY <1>1, FoldExists
  <1> USE DEF step
  <1>4. f = D(f)
    BY <1>0, <1>2, <1>3 DEF FoldsTo
  <1>5. iter = D(iter)
    BY <1>4
  <1>6. SizeOf(s) = iter[1 .. Len(s)]
    BY <1>0 DEF SizeOf, FoldLeft, MapThenFoldSet
  <1> HIDE DEF iter
  <1>7. ASSUME NEW P \in SUBSET (1 .. Len(s)), P # {}, iter[P \ {Max(P)}] \in Nat
        PROVE  iter[P] = step[<<iter[P \ {Max(P)}], s[Max(P)]>>]
    BY <1>0, <1>2, <1>5, <1>7
  <1>8. iter[{}] = 0
    BY <1>5
  <1> HIDE DEF step
  <1>9. Unfolds(iter, s, step, 0, Nat)
    BY <1>7, <1>8 DEF Unfolds
  <1>10. LoopReturns(iter[1 .. Len(s)], s, step, 0, Nat)
    BY <1>1, <1>9, LoopRuns
  <1>11. PICK g \in [0 .. Len(s) -> Nat] : LoopsTo(g, s, step, 0) /\ g[Len(s)] = iter[1 .. Len(s)]
    BY <1>10 DEF LoopReturns
  <1> USE DEF step
  <1>12. ASSUME NEW n \in 1 .. Len(s)
         PROVE  g[n] = g[n - 1] + Size(s[n])
    <2>1. n - 1 \in 0 .. Len(s) /\ g[n - 1] \in Nat /\ s[n] \in Field
      BY <1>0
    <2> QED
      BY <1>11, <2>1 DEF LoopsTo
  <1> QED
    BY <1>6, <1>11, <1>12 DEF LoopsTo

\* The repositories of a section: those of its items.
LEMMA ReposMet ==
  ASSUME NEW section \in Section
  PROVE  /\ ReposOf(section) \in Seq(Repos)
         /\ \A n \in DOMAIN section.items : RepoOf[section.items[n]] \in ToSet(ReposOf(section))
  <1> DEFINE s == section.items
  <1>0. s \in Seq(Events) /\ Len(s) \in Nat /\ DOMAIN s = 1 .. Len(s) /\ \A k \in 1 .. Len(s) : s[k] \in Events
    BY LenProperties, ElementOfSeq DEF Section
  <1>1. PICK f \in [0 .. Len(s) -> Seq(Repos)] :
           /\ f[0] = <<>> /\ ReposOf(section) = f[Len(s)]
           /\ \A n \in 1 .. Len(s) :
                f[n] = IF RepoOf[s[n]] \in ToSet(f[n - 1]) THEN f[n - 1]
                       ELSE Append(f[n - 1], RepoOf[s[n]])
    BY ReposRun
  <1> DEFINE T == {n \in 0 .. Len(s) : \A k \in 1 .. n : RepoOf[s[k]] \in ToSet(f[n])}
  <1> HIDE DEF s
  <1>2. 0 \in T
    BY <1>0
  <1>3. ASSUME NEW n \in 0 .. Len(s) - 1, n \in T PROVE n + 1 \in T
    <2>1. n + 1 \in 1 .. Len(s) /\ (n + 1) - 1 = n /\ f[n] \in Seq(Repos) /\ RepoOf[s[n + 1]] \in Repos
      BY <1>0 DEF Repos
    <2>2. f[n + 1] = IF RepoOf[s[n + 1]] \in ToSet(f[n]) THEN f[n] ELSE Append(f[n], RepoOf[s[n + 1]])
      BY <1>1, <2>1
    <2>3. ToSet(Append(f[n], RepoOf[s[n + 1]])) = ToSet(f[n]) \union {RepoOf[s[n + 1]]}
      BY <2>1, InAppend
    <2>4. ToSet(f[n]) \union {RepoOf[s[n + 1]]} \subseteq ToSet(f[n + 1])
      BY <2>2, <2>3
    <2>5. ASSUME NEW k \in 1 .. n + 1 PROVE RepoOf[s[k]] \in ToSet(f[n + 1])
      <3>1. k \in 1 .. n \/ k = n + 1
        OBVIOUS
      <3> QED
        BY <1>3, <2>4, <3>1
    <2> QED
      BY <1>0, <2>1, <2>5
  <1> HIDE DEF T
  <1>4. 0 .. Len(s) \subseteq T
    BY <1>0, <1>2, <1>3, BoundedInduction
  <1>5. Len(s) \in T
    BY <1>0, <1>4
  <1> QED
    BY <1>0, <1>1, <1>5 DEF T, s

\* What a field shows of its section.
LEMMA FieldTyped ==
  ASSUME NEW section \in Section
  PROVE  /\ UserField(section) \in Field /\ UserField(section).user = section.source
         /\ \A r \in ToSet(ReposOf(section)) :
              r \in ToSet(UserField(section).repos) \/ Len(UserField(section).repos) = MaxRepos
  <1> DEFINE repos == ReposOf(section)
             m == IF Len(repos) < MaxRepos THEN Len(repos) ELSE MaxRepos
             cut == SubSeq(repos, 1, m)
  <1>1. repos \in Seq(Repos) /\ Len(repos) \in Nat /\ MaxRepos \in Nat \ {0} /\ Len(section.items) \in Nat
    BY ReposMet, LenProperties, OnDemandAssumption DEF Section
  <1>2. UserField(section) = [user |-> section.source, total |-> Len(section.items), repos |-> cut]
    BY DEF UserField
  <1> HIDE DEF repos
  <1>3. m \in 0 .. Len(repos) /\ 1 \in 1 .. Len(repos) + 1
    BY <1>1
  <1>4. cut \in Seq(Repos) /\ Len(cut) = m /\ (m = Len(repos) => cut = repos)
    BY <1>1, <1>3, SubSeqProperties
  <1>5. UserField(section) \in Field /\ UserField(section).user = section.source
    BY <1>1, <1>2, <1>4 DEF Section, Field
  <1>6. m = Len(repos) \/ m = MaxRepos
    OBVIOUS
  <1> HIDE DEF m, cut
  <1>7. UserField(section).repos = cut
    BY <1>2
  <1> QED
    BY <1>4, <1>5, <1>6, <1>7 DEF repos

\* What one section does to the pages.
LEMMA PagesStep ==
  ASSUME NEW pages \in Seq(Page), NEW section \in Section
  PROVE  /\ Append(pages, <<UserField(section)>>) \in Seq(Page)
         /\ pages # <<>> => Front(pages) \o <<Append(Last(pages), UserField(section))>> \in Seq(Page)
  <1>1. UserField(section) \in Field /\ <<UserField(section)>> \in Page
    BY FieldTyped DEF Page
  <1>2. ASSUME pages # <<>> PROVE Front(pages) \in Seq(Page) /\ Last(pages) \in Page
    BY <1>2, FrontAndLast
  <1>3. ASSUME pages # <<>> PROVE <<Append(Last(pages), UserField(section))>> \in Seq(Page)
    BY <1>1, <1>2, <1>3, AppendProperties DEF Page
  <1> QED
    BY <1>1, <1>2, <1>3, AppendProperties, ConcatProperties

\* The loop over the sections of an answer.
LEMMA PagesRun ==
  ASSUME NEW s \in Seq(Section)
  PROVE  \E f \in [0 .. Len(s) -> Seq(Page)] :
           /\ f[0] = <<>> /\ Pages(s) = f[Len(s)]
           /\ \A n \in 1 .. Len(s) :
                f[n] = IF f[n - 1] # <<>> /\ Fits(Last(f[n - 1]), UserField(s[n]))
                       THEN Front(f[n - 1]) \o <<Append(Last(f[n - 1]), UserField(s[n]))>>
                       ELSE Append(f[n - 1], <<UserField(s[n])>>)
  <1> DEFINE step == [x \in Seq(Page) \X Section |->
                       IF x[1] # <<>> /\ Fits(Last(x[1]), UserField(x[2]))
                       THEN Front(x[1]) \o <<Append(Last(x[1]), UserField(x[2]))>>
                       ELSE Append(x[1], <<UserField(x[2])>>)]
             D(f) == [P \in SUBSET DOMAIN s |->
                       IF P = {} THEN <<>>
                       ELSE IF f[P \ {Max(P)}] # <<>> /\ Fits(Last(f[P \ {Max(P)}]), UserField(s[Max(P)]))
                       THEN Front(f[P \ {Max(P)}]) \o <<Append(Last(f[P \ {Max(P)}]), UserField(s[Max(P)]))>>
                       ELSE Append(f[P \ {Max(P)}], <<UserField(s[Max(P)])>>)]
             iter == CHOOSE f : f = D(f)
  <1>0. Len(s) \in Nat /\ DOMAIN s = 1 .. Len(s) /\ \A k \in 1 .. Len(s) : s[k] \in Section
    BY LenProperties, ElementOfSeq
  <1>1. step \in [(Seq(Page)) \X (Section) -> Seq(Page)] /\ <<>> \in Seq(Page)
    BY SMTT(30), PagesStep
  <1>2. \A P \in SUBSET (1 .. Len(s)) : P # {} => s[Max(P)] \in Section
    BY <1>0, Positions
  <1> HIDE DEF step
  <1>3. PICK f \in [SUBSET (1 .. Len(s)) -> Seq(Page)] : FoldsTo(f, Len(s), s, step, <<>>)
    BY <1>1, FoldExists
  <1> USE DEF step
  <1>4. f = D(f)
    BY <1>0, <1>2, <1>3 DEF FoldsTo
  <1>5. iter = D(iter)
    BY <1>4
  <1>6. Pages(s) = iter[1 .. Len(s)]
    BY <1>0 DEF Pages, FoldLeft, MapThenFoldSet
  <1> HIDE DEF iter
  <1>7. ASSUME NEW P \in SUBSET (1 .. Len(s)), P # {}, iter[P \ {Max(P)}] \in Seq(Page)
        PROVE  iter[P] = step[<<iter[P \ {Max(P)}], s[Max(P)]>>]
    BY <1>0, <1>2, <1>5, <1>7
  <1>8. iter[{}] = <<>>
    BY <1>5
  <1> HIDE DEF step
  <1>9. Unfolds(iter, s, step, <<>>, Seq(Page))
    BY <1>7, <1>8 DEF Unfolds
  <1>10. LoopReturns(iter[1 .. Len(s)], s, step, <<>>, Seq(Page))
    BY <1>1, <1>9, LoopRuns
  <1>11. PICK g \in [0 .. Len(s) -> Seq(Page)] : LoopsTo(g, s, step, <<>>) /\ g[Len(s)] = iter[1 .. Len(s)]
    BY <1>10 DEF LoopReturns
  <1> USE DEF step
  <1>12. ASSUME NEW n \in 1 .. Len(s)
         PROVE  g[n] = IF g[n - 1] # <<>> /\ Fits(Last(g[n - 1]), UserField(s[n]))
                       THEN Front(g[n - 1]) \o <<Append(Last(g[n - 1]), UserField(s[n]))>>
                       ELSE Append(g[n - 1], <<UserField(s[n])>>)
    <2>1. n - 1 \in 0 .. Len(s) /\ g[n - 1] \in Seq(Page) /\ s[n] \in Section
      BY <1>0
    <2> QED
      BY <1>11, <2>1 DEF LoopsTo
  <1> QED
    BY <1>6, <1>11, <1>12 DEF LoopsTo

\* A page that gets one more field is that much longer.
LEMMA SizeGrows ==
  ASSUME NEW page \in Page, NEW field \in Field
  PROVE  SizeOf(page) \in Nat /\ SizeOf(Append(page, field)) = SizeOf(page) + Size(field)
  <1> DEFINE more == Append(page, field)
             k == Len(page)
  <1>1. /\ more \in Page /\ k \in Nat /\ Len(more) = k + 1
        /\ (\A i \in 1 .. k : more[i] = page[i]) /\ more[k + 1] = field
    BY AppendProperties, LenProperties DEF Page
  <1>2. PICK f \in [0 .. k -> Nat] :
          /\ f[0] = 0 /\ SizeOf(page) = f[k]
          /\ \A n \in 1 .. k : f[n] = f[n - 1] + Size(page[n])
    BY SizeRun
  <1> HIDE DEF more
  <1>3. PICK g \in [0 .. Len(more) -> Nat] :
          /\ g[0] = 0 /\ SizeOf(more) = g[Len(more)]
          /\ \A n \in 1 .. Len(more) : g[n] = g[n - 1] + Size(more[n])
    BY <1>1, SizeRun
  <1> HIDE DEF k
  <1>4. \A n \in 0 .. k : f[n] = g[n]
    <2>1. ASSUME NEW n \in 1 .. k, f[n - 1] = g[n - 1] PROVE f[n] = g[n]
      <3>1. n \in 1 .. Len(more) /\ more[n] = page[n]
        BY <1>1
      <3> QED
        BY <1>2, <1>3, <2>1, <3>1
    <2>2. AlikeStep(f, g, k)
      BY <1>2, <1>3, <2>1 DEF AlikeStep
    <2>3. Alike(f, g, k)
      BY <1>1, <2>2, LoopsAgree
    <2> QED
      BY <2>3 DEF Alike
  <1>5. g[k + 1] = g[k] + Size(field)
    <2>1. k + 1 \in 1 .. Len(more) /\ (k + 1) - 1 = k
      BY <1>1
    <2> QED
      BY <1>1, <1>3, <2>1
  <1> QED
    BY <1>1, <1>2, <1>3, <1>4, <1>5 DEF more

-----------------------------------------------------------------------------
(***************************************************************************)
(* The pages of an answer.                                                 *)
(***************************************************************************)
Neat(pages) ==
  \A n \in DOMAIN pages :
    /\ Len(pages[n]) \in 1 .. MaxFields
    /\ SizeOf(pages[n]) <= MaxSize \/ Len(pages[n]) = 1
    /\ n < Len(pages) => \/ Len(pages[n]) = MaxFields
                        \/ SizeOf(pages[n]) + Size(Head(pages[n + 1])) > MaxSize

\* A new page is begun when the field does not fit the last one.
LEMMA PageBegun ==
  ASSUME NEW pages \in Seq(Page), NEW field \in Field, Neat(pages),
         ~(pages # <<>> /\ Fits(Last(pages), field))
  PROVE  /\ Append(pages, <<field>>) \in Seq(Page) /\ Neat(Append(pages, <<field>>))
         /\ FlattenSeq(Append(pages, <<field>>)) = Append(FlattenSeq(pages), field)
  <1> DEFINE k == Len(pages)
             q == Append(pages, <<field>>)
  <1>0. MaxFields \in Nat \ {0} /\ MaxSize \in Nat \ {0} /\ Size(field) \in Nat
    BY OnDemandAssumption, SizeTyped
  <1>1. <<field>> \in Page /\ Len(<<field>>) = 1 /\ Head(<<field>>) = field
    BY DEF Page
  <1>2. /\ k \in Nat /\ Len(q) = k + 1 /\ q \in Seq(Page) /\ DOMAIN q = 1 .. k + 1 /\ DOMAIN pages = 1 .. k
        /\ (\A i \in 1 .. k : q[i] = pages[i]) /\ q[k + 1] = <<field>>
    BY <1>1, AppendProperties, LenProperties
  <1>3. FlattenSeq(q) = Append(FlattenSeq(pages), field)
    <2>1. pages \in Seq(Seq(Field)) /\ <<field>> \in Seq(Field)
      BY <1>1 DEF Page
    <2>2. FlattenSeq(pages) \in Seq(Field) /\ FlattenSeq(q) = FlattenSeq(pages) \o <<field>>
      BY <2>1, FlattenGrows
    <2> QED
      BY <2>2, AppendIsConcat
  <1>4. ASSUME k > 0
        PROVE  Len(pages[k]) = MaxFields \/ SizeOf(pages[k]) + Size(field) > MaxSize
    <2>1. pages # <<>> /\ Last(pages) = pages[k] /\ k \in DOMAIN pages /\ pages[k] \in Page
      BY <1>2, <1>4, EmptySeq, ElementOfSeq DEF Last
    <2>2. Len(pages[k]) \in 1 .. MaxFields /\ SizeOf(pages[k]) \in Nat
      BY <2>1, SizeGrows DEF Neat
    <2>3. ~(Len(pages[k]) < MaxFields /\ SizeOf(pages[k]) + Size(field) <= MaxSize)
      BY <2>1 DEF Fits
    <2> QED
      BY <1>0, <2>2, <2>3
  <1> HIDE DEF q, k
  <1>5. ASSUME NEW n \in 1 .. k + 1
        PROVE  /\ Len(q[n]) \in 1 .. MaxFields
               /\ SizeOf(q[n]) <= MaxSize \/ Len(q[n]) = 1
               /\ n < Len(q) => \/ Len(q[n]) = MaxFields
                               \/ SizeOf(q[n]) + Size(Head(q[n + 1])) > MaxSize
    <2>1. CASE n < k
      <3>1. n \in 1 .. k /\ n + 1 \in 1 .. k
        BY <1>2, <2>1
      <3> QED
        BY <1>2, <2>1, <3>1 DEF Neat, k
    <2>2. CASE n = k
      <3>1. n \in 1 .. k /\ q[n] = pages[n] /\ q[n + 1] = <<field>> /\ k > 0
        BY <1>2, <2>2
      <3> QED
        BY <1>1, <1>2, <1>4, <2>2, <3>1 DEF Neat
    <2>3. CASE n = k + 1
      <3>1. q[n] = <<field>> /\ ~(n < Len(q)) /\ Len(q[n]) = 1
        BY <1>1, <1>2, <2>3
      <3> QED
        BY <1>0, <3>1
    <2> QED
      BY <1>2, <2>1, <2>2, <2>3
  <1>6. Neat(q)
    BY <1>2, <1>5 DEF Neat
  <1> QED
    BY <1>2, <1>3, <1>6 DEF q

\* A field that fits goes to the last page.
LEMMA PageExtended ==
  ASSUME NEW pages \in Seq(Page), NEW field \in Field, Neat(pages),
         pages # <<>>, Fits(Last(pages), field),
         NEW q, q = Front(pages) \o <<Append(Last(pages), field)>>
  PROVE  q \in Seq(Page) /\ Neat(q) /\ FlattenSeq(q) = Append(FlattenSeq(pages), field)
  <1> DEFINE k == Len(pages) - 1
             front == Front(pages)
             last == Last(pages)
             longer == Append(last, field)
  <1>0. MaxFields \in Nat \ {0} /\ MaxSize \in Nat \ {0} /\ Size(field) \in Nat
    BY OnDemandAssumption, SizeTyped
  <1>a. q = front \o <<longer>> /\ Len(last) < MaxFields /\ SizeOf(last) + Size(field) <= MaxSize
    BY DEF Fits
  <1>b. /\ Len(pages) \in Nat \ {0} /\ front \in Seq(Page) /\ Len(front) = Len(pages) - 1
        /\ last \in Page /\ last = pages[Len(pages)]
        /\ \A i \in 1 .. Len(pages) - 1 : front[i] = pages[i]
    BY FrontAndLast
  <1> HIDE DEF front, last
  <1>1. /\ k \in Nat /\ Len(pages) = k + 1 /\ front \in Seq(Page) /\ Len(front) = k
        /\ last \in Page /\ last = pages[k + 1] /\ \A i \in 1 .. k : front[i] = pages[i]
    BY <1>b
  <1> HIDE DEF k
  <1>2. DOMAIN pages = 1 .. k + 1
    BY <1>1, LenProperties
  <1>3. longer \in Page /\ Len(longer) = Len(last) + 1 /\ Len(last) \in Nat
    BY <1>1, AppendProperties, LenProperties DEF Page
  <1>4. SizeOf(longer) = SizeOf(last) + Size(field) /\ SizeOf(last) \in Nat
    BY <1>1, SizeGrows
  <1>5. Len(last) < MaxFields /\ SizeOf(last) + Size(field) <= MaxSize
    BY <1>a
  <1>k. k \in Nat /\ k + 1 \in 1 .. k + 1 /\ \A n \in 1 .. k + 1 : n \in 1 .. k \/ n = k + 1
    BY <1>1
  <1>6. Len(last) \in 1 .. MaxFields
    <2>1. k + 1 \in DOMAIN pages /\ last = pages[k + 1]
      BY <1>1, <1>2, <1>k
    <2> QED
      BY <2>1 DEF Neat
  <1>7. Head(longer) = Head(last)
    <2>1. 1 \in 1 .. Len(last) /\ last # <<>>
      BY <1>6
    <2>2. longer[1] = last[1]
      BY <1>1, <2>1, AppendProperties DEF Page
    <2> QED
      BY <1>1, <1>3, <2>1, <2>2, HeadTailProperties, EmptySeq DEF Page
  <1>8. q = Append(front, longer)
    BY <1>1, <1>3, <1>a, AppendIsConcat
  <1> HIDE DEF longer
  <1>9. /\ q \in Seq(Page) /\ Len(q) = k + 1 /\ DOMAIN q = 1 .. k + 1
        /\ (\A i \in 1 .. k : q[i] = front[i]) /\ q[k + 1] = longer
    <2>1. /\ Append(front, longer) \in Seq(Page) /\ Len(Append(front, longer)) = Len(front) + 1
          /\ (\A i \in 1 .. Len(front) : Append(front, longer)[i] = front[i])
          /\ Append(front, longer)[Len(front) + 1] = longer
      BY SMTT(30), <1>1, <1>3, AppendProperties
    <2>2. DOMAIN Append(front, longer) = 1 .. Len(Append(front, longer))
      BY <2>1, LenProperties
    <2>3. Len(front) = k
      BY <1>1
    <2> QED
      BY <1>8, <2>1, <2>2, <2>3
  <1>10. FlattenSeq(q) = Append(FlattenSeq(pages), field)
    <2>1. pages \in Seq(Seq(Field)) /\ front \in Seq(Seq(Field)) /\ longer \in Seq(Field) /\ last \in Seq(Field)
      BY <1>1, <1>3 DEF Page
    <2>2. pages = Append(front, last)
      <3>1. Append(front, last) \in Seq(Page) /\ Len(Append(front, last)) = k + 1
            /\ (\A i \in 1 .. k : Append(front, last)[i] = front[i]) /\ Append(front, last)[k + 1] = last
        BY <1>1, AppendProperties
      <3>2. \A i \in 1 .. k + 1 : pages[i] = Append(front, last)[i]
        <4>1. \A i \in 1 .. k + 1 : i \in 1 .. k \/ i = k + 1
          BY <1>1
        <4> QED
          BY <1>1, <3>1, <4>1
      <3> QED
        BY <1>1, <3>1, <3>2, SeqEqual
    <2>3. /\ FlattenSeq(front) \in Seq(Field) /\ FlattenSeq(q) = FlattenSeq(front) \o longer
          /\ FlattenSeq(pages) = FlattenSeq(front) \o last /\ FlattenSeq(pages) \in Seq(Field)
      BY <1>8, <2>1, <2>2, FlattenGrows
    <2>4. longer = last \o <<field>> /\ <<field>> \in Seq(Field)
      BY <2>1, AppendIsConcat DEF longer
    <2>5. FlattenSeq(front) \o (last \o <<field>>) = (FlattenSeq(front) \o last) \o <<field>>
      BY SMTT(30), <2>1, <2>3, <2>4, ConcatAssociative
    <2>6. FlattenSeq(pages) \o <<field>> = Append(FlattenSeq(pages), field)
      BY <2>3, AppendIsConcat
    <2> QED
      BY <2>3, <2>4, <2>5, <2>6
  <1>11. ASSUME NEW n \in 1 .. k + 1
         PROVE  /\ Len(q[n]) \in 1 .. MaxFields
                /\ SizeOf(q[n]) <= MaxSize \/ Len(q[n]) = 1
                /\ n < Len(q) => \/ Len(q[n]) = MaxFields
                                \/ SizeOf(q[n]) + Size(Head(q[n + 1])) > MaxSize
    <2>1. CASE n \in 1 .. k
      <3>1. n + 1 \in 1 .. k + 1 /\ q[n] = pages[n] /\ n < Len(pages) /\ n \in DOMAIN pages
        BY <1>1, <1>2, <1>9, <2>1
      <3>2. Head(q[n + 1]) = Head(pages[n + 1])
        <4>1. CASE n + 1 = k + 1
          BY <1>1, <1>7, <1>9, <4>1
        <4>2. CASE n + 1 \in 1 .. k
          BY <1>1, <1>9, <4>2
        <4> QED
          BY <1>k, <3>1, <4>1, <4>2
      <3> QED
        BY <3>1, <3>2 DEF Neat
    <2>2. CASE n = k + 1
      <3>0. Len(q) = k + 1 /\ q[k + 1] = longer
        BY <1>9
      <3>1. q[n] = longer /\ ~(n < Len(q))
        BY <1>k, <2>2, <3>0
      <3>2. Len(longer) \in 1 .. MaxFields /\ SizeOf(longer) <= MaxSize
        BY <1>0, <1>3, <1>4, <1>5, <1>6
      <3> QED
        BY <3>1, <3>2
    <2> QED
      BY <1>k, <2>1, <2>2
  <1>12. Neat(q)
    BY <1>9, <1>11 DEF Neat
  <1> QED
    BY <1>9, <1>10, <1>12

\* What format_digest lays out: every field once, in the order of the sections.
LEMMA LaidOut ==
  ASSUME NEW s \in Seq(Section)
  PROVE  /\ Pages(s) \in Seq(Page) /\ Neat(Pages(s))
         /\ FlattenSeq(Pages(s)) = [n \in DOMAIN s |-> UserField(s[n])]
  <1>0. Len(s) \in Nat /\ DOMAIN s = 1 .. Len(s) /\ \A k \in 1 .. Len(s) : s[k] \in Section
    BY LenProperties, ElementOfSeq
  <1>1. PICK f \in [0 .. Len(s) -> Seq(Page)] :
          /\ f[0] = <<>> /\ Pages(s) = f[Len(s)]
          /\ \A n \in 1 .. Len(s) :
               f[n] = IF f[n - 1] # <<>> /\ Fits(Last(f[n - 1]), UserField(s[n]))
                      THEN Front(f[n - 1]) \o <<Append(Last(f[n - 1]), UserField(s[n]))>>
                      ELSE Append(f[n - 1], <<UserField(s[n])>>)
    BY PagesRun
  <1> DEFINE fields(n) == [k \in 1 .. n |-> UserField(s[k])]
             T == {n \in 0 .. Len(s) : Neat(f[n]) /\ FlattenSeq(f[n]) = fields(n)}
  <1>2. 0 \in T
    <2>1. FlattenSeq(<<>>) = <<>>
      BY EmptySeq DEF FlattenSeq
    <2>2. fields(0) = <<>>
      OBVIOUS
    <2>3. Neat(<<>>)
      BY DEF Neat
    <2> QED
      BY <1>0, <1>1, <2>1, <2>2, <2>3
  <1>3. ASSUME NEW n \in 0 .. Len(s) - 1, n \in T PROVE n + 1 \in T
    <2> DEFINE field == UserField(s[n + 1])
    <2>1. n + 1 \in 1 .. Len(s) /\ (n + 1) - 1 = n /\ n \in 0 .. Len(s) /\ n \in Nat /\ n + 1 \in 0 .. Len(s)
      BY <1>0
    <2>2. field \in Field /\ f[n] \in Seq(Page) /\ \A k \in 1 .. n : UserField(s[k]) \in Field
      <3>1. \A k \in 1 .. n + 1 : s[k] \in Section
        BY <1>0, <2>1
      <3> QED
        BY <1>1, <2>1, <3>1, FieldTyped
    <2>3. f[n + 1] = IF f[n] # <<>> /\ Fits(Last(f[n]), field)
                     THEN Front(f[n]) \o <<Append(Last(f[n]), field)>>
                     ELSE Append(f[n], <<field>>)
      BY <1>1, <2>1
    <2>4. fields(n + 1) = Append(fields(n), field)
      <3>1. fields(n) \in Seq(Field) /\ Len(fields(n)) = n
        BY <2>1, <2>2
      <3> HIDE DEF field
      <3>2. /\ Append(fields(n), field) \in Seq(Field) /\ Len(Append(fields(n), field)) = n + 1
            /\ \A i \in 1 .. n : Append(fields(n), field)[i] = fields(n)[i]
            /\ Append(fields(n), field)[n + 1] = field
        BY <2>2, <3>1, AppendProperties
      <3>3. fields(n + 1) \in Seq(Field) /\ Len(fields(n + 1)) = n + 1
        <4>1. \A k \in 1 .. n + 1 : k \in 1 .. n \/ k = n + 1
          BY <2>1
        <4>2. \A k \in 1 .. n + 1 : UserField(s[k]) \in Field
          BY <2>2, <4>1 DEF field
        <4> QED
          BY <2>1, <4>2
      <3>4. \A i \in 1 .. n + 1 : Append(fields(n), field)[i] = fields(n + 1)[i]
        <4>1. \A k \in 1 .. n + 1 : k \in 1 .. n \/ k = n + 1
          BY <2>1
        <4> QED
          BY <2>1, <3>2, <4>1 DEF field
      <3> HIDE DEF fields
      <3> QED
        BY <3>2, <3>3, <3>4, SeqEqual
    <2> HIDE DEF field, fields
    <2>5. Neat(f[n]) /\ FlattenSeq(f[n]) = fields(n)
      BY <1>3
    <2>6. Neat(f[n + 1]) /\ FlattenSeq(f[n + 1]) = Append(FlattenSeq(f[n]), field)
      <3>1. CASE f[n] # <<>> /\ Fits(Last(f[n]), field)
        BY <2>2, <2>3, <2>5, <3>1, PageExtended
      <3>2. CASE ~(f[n] # <<>> /\ Fits(Last(f[n]), field))
        BY <2>2, <2>3, <2>5, <3>2, PageBegun
      <3> QED
        BY <3>1, <3>2
    <2> QED
      BY <2>1, <2>4, <2>5, <2>6
  <1> HIDE DEF T
  <1>4. 0 .. Len(s) \subseteq T
    BY <1>0, <1>2, <1>3, BoundedInduction
  <1>5. Len(s) \in T
    BY <1>0, <1>4
  <1> QED
    BY <1>0, <1>1, <1>5 DEF T

\* Every section has its field on a page.
LEMMA OnAPage ==
  ASSUME NEW s \in Seq(Section), NEW n \in DOMAIN s
  PROVE  \E page \in ToSet(Pages(s)) : UserField(s[n]) \in ToSet(page)
  <1>1. Pages(s) \in Seq(Seq(Field)) /\ FlattenSeq(Pages(s)) = [m \in DOMAIN s |-> UserField(s[m])]
    BY LaidOut DEF Page
  <1>2. UserField(s[n]) \in ToSet(FlattenSeq(Pages(s)))
    BY <1>1 DEF ToSet
  <1>3. PICK k \in DOMAIN Pages(s) : UserField(s[n]) \in ToSet(Pages(s)[k])
    BY <1>1, <1>2, FlattenHolds
  <1> QED
    BY <1>3 DEF ToSet

-----------------------------------------------------------------------------
(***************************************************************************)
(* What comprehensions and concatenations keep.                            *)
(***************************************************************************)
\* Where the elements that a comprehension keeps come from.
Embedding(t, s, n, S, g) ==
  /\ g \in [1 .. Len(t) -> 1 .. n] /\ Len(t) <= n
  /\ \A k \in 1 .. Len(t) : k <= g[k] /\ t[k] = s[g[k]] /\ s[g[k]] \in S
  /\ \A j, k \in 1 .. Len(t) : g[j] = g[k] => j = k
  /\ \A m \in 1 .. n : s[m] \in S => \E k \in 1 .. Len(t) : g[k] = m

Embedded(t, s, n, S) == \E g : Embedding(t, s, n, S, g)

\* The next element is kept, or it is not.
LEMMA OneMoreEmbedded ==
  ASSUME NEW A, NEW t \in Seq(A), NEW s, NEW n \in Nat, NEW S, Embedded(t, s, n, S), s[n + 1] \in A
  PROVE  /\ s[n + 1] \in S => Embedded(Append(t, s[n + 1]), s, n + 1, S)
         /\ s[n + 1] \notin S => Embedded(t, s, n + 1, S)
  <1>1. PICK g : Embedding(t, s, n, S, g)
    BY DEF Embedded
  <1> DEFINE l == Len(t)
             u == Append(t, s[n + 1])
  <1>2. l \in Nat /\ Len(u) = l + 1 /\ (\A i \in 1 .. l : u[i] = t[i]) /\ u[l + 1] = s[n + 1]
    BY AppendProperties, LenProperties
  <1>3. /\ g \in [1 .. l -> 1 .. n] /\ l <= n
        /\ \A k \in 1 .. l : k <= g[k] /\ t[k] = s[g[k]] /\ s[g[k]] \in S
        /\ \A j, k \in 1 .. l : g[j] = g[k] => j = k
        /\ \A m \in 1 .. n : s[m] \in S => \E k \in 1 .. l : g[k] = m
    BY <1>1 DEF Embedding
  <1>4. \A m \in 1 .. n + 1 : m \in 1 .. n \/ m = n + 1
    OBVIOUS
  <1>5. ASSUME s[n + 1] \notin S PROVE Embedded(t, s, n + 1, S)
    <2> HIDE DEF u
    <2>1. g \in [1 .. l -> 1 .. n + 1] /\ l <= n + 1
      <3>1. 1 .. n \subseteq 1 .. n + 1 /\ l <= n + 1
        BY <1>2, <1>3
      <3> QED
        BY <1>3, <3>1
    <2>2. \A m \in 1 .. n + 1 : s[m] \in S => \E k \in 1 .. l : g[k] = m
      BY <1>3, <1>4, <1>5
    <2>3. Embedding(t, s, n + 1, S, g)
      BY <1>3, <2>1, <2>2 DEF Embedding
    <2> QED
      BY <2>3 DEF Embedded
  <1>6. ASSUME s[n + 1] \in S PROVE Embedded(u, s, n + 1, S)
    <2> DEFINE h == [k \in 1 .. l + 1 |-> IF k = l + 1 THEN n + 1 ELSE g[k]]
    <2> HIDE DEF u, l
    <2>1. \A k \in 1 .. l + 1 : k \in 1 .. l \/ k = l + 1
      BY <1>2
    <2>2. l + 1 \in 1 .. l + 1 /\ h[l + 1] = n + 1 /\ l + 1 <= n + 1 /\ n + 1 \in 1 .. n + 1
      BY <1>2, <1>3
    <2>3. \A k \in 1 .. l : k \in 1 .. l + 1 /\ h[k] = g[k] /\ g[k] \in 1 .. n /\ g[k] \in 1 .. n + 1 /\ g[k] # n + 1
      <3>1. \A k \in 1 .. l : g[k] \in 1 .. n /\ k \in 1 .. l + 1 /\ k # l + 1
        BY <1>2, <1>3
      <3> QED
        BY <1>2, <3>1
    <2>4. h \in [1 .. l + 1 -> 1 .. n + 1]
      BY <2>1, <2>2, <2>3
    <2> HIDE DEF h
    <2>5. \A k \in 1 .. l + 1 : k <= h[k] /\ u[k] = s[h[k]] /\ s[h[k]] \in S
      BY <1>2, <1>3, <1>6, <2>1, <2>2, <2>3
    <2>6. \A j, k \in 1 .. l + 1 : h[j] = h[k] => j = k
      BY SMTT(30), <1>3, <2>1, <2>2, <2>3
    <2>7. \A m \in 1 .. n + 1 : s[m] \in S => \E k \in 1 .. l + 1 : h[k] = m
      BY <1>3, <1>4, <2>2, <2>3
    <2>8. Embedding(u, s, n + 1, S, h)
      BY <1>2, <2>2, <2>4, <2>5, <2>6, <2>7 DEF Embedding
    <2> QED
      BY <2>8 DEF Embedded
  <1> QED
    BY <1>5, <1>6

\* What Only keeps comes from the sequence, in its order.
LEMMA OnlyEmbedded ==
  ASSUME NEW A, NEW s \in Seq(A), NEW S
  PROVE  Only(s, S) \in Seq(A) /\ Embedded(Only(s, S), s, Len(s), S)
  <1>0. Len(s) \in Nat /\ DOMAIN s = 1 .. Len(s) /\ \A k \in 1 .. Len(s) : s[k] \in A
    BY LenProperties, ElementOfSeq
  <1>a. OnlyLoop(A, s, S)
    BY OnlyRuns
  <1>1. PICK f \in [0 .. Len(s) -> Seq(A)] :
           /\ f[0] = <<>> /\ Only(s, S) = f[Len(s)]
           /\ \A n \in 1 .. Len(s) :
                f[n] = IF s[n] \in S THEN Append(f[n - 1], s[n]) ELSE f[n - 1]
    BY <1>a DEF OnlyLoop
  <1> DEFINE T == {n \in 0 .. Len(s) : Embedded(f[n], s, n, S)}
  <1>2. 0 \in T
    <2>1. Embedding(<<>>, s, 0, S, <<>>)
      BY DEF Embedding
    <2> QED
      BY <1>0, <1>1, <2>1 DEF Embedded
  <1>3. ASSUME NEW n \in 0 .. Len(s) - 1, n \in T PROVE n + 1 \in T
    <2>1. n + 1 \in 1 .. Len(s) /\ (n + 1) - 1 = n /\ n \in 0 .. Len(s) /\ n \in Nat /\ n + 1 \in 0 .. Len(s)
      BY <1>0
    <2>2. f[n + 1] = IF s[n + 1] \in S THEN Append(f[n], s[n + 1]) ELSE f[n]
      BY <1>1, <2>1
    <2>3. f[n] \in Seq(A) /\ s[n + 1] \in A /\ Embedded(f[n], s, n, S)
      BY <1>0, <1>1, <1>3, <2>1
    <2>4. Embedded(f[n + 1], s, n + 1, S)
      BY <2>1, <2>2, <2>3, OneMoreEmbedded
    <2> QED
      BY <2>1, <2>4
  <1> HIDE DEF T
  <1>4. 0 .. Len(s) \subseteq T
    BY <1>0, <1>2, <1>3, BoundedInduction
  <1>5. Len(s) \in T
    BY <1>0, <1>4
  <1> QED
    BY <1>0, <1>1, <1>5 DEF T

\* What is kept is in S and no more often there, and nothing moves back.
LEMMA OnlyKeeps ==
  ASSUME NEW A, NEW s \in Seq(A), NEW S
  PROVE  /\ Only(s, S) \in Seq(A) /\ ToSet(Only(s, S)) = ToSet(s) \intersect S
         /\ IsInjective(s) => IsInjective(Only(s, S))
         /\ \A e : Copies(e, Only(s, S)) <= Copies(e, s)
         /\ \A m \in DOMAIN s : s[m] \in S => \E k \in DOMAIN Only(s, S) : k <= m /\ Only(s, S)[k] = s[m]
  <1> DEFINE t == Only(s, S)
             l == Len(t)
             n == Len(s)
  <1>1. t \in Seq(A) /\ Embedded(t, s, n, S)
    BY OnlyEmbedded
  <1> HIDE DEF t
  <1>2. PICK g : Embedding(t, s, n, S, g)
    BY <1>1 DEF Embedded
  <1>3. l \in Nat /\ DOMAIN t = 1 .. l /\ n \in Nat /\ DOMAIN s = 1 .. n
    BY <1>1, LenProperties
  <1>4. /\ g \in [1 .. l -> 1 .. n]
        /\ \A k \in 1 .. l : k <= g[k] /\ t[k] = s[g[k]] /\ s[g[k]] \in S
        /\ \A j, k \in 1 .. l : g[j] = g[k] => j = k
        /\ \A m \in 1 .. n : s[m] \in S => \E k \in 1 .. l : g[k] = m
    BY <1>2 DEF Embedding
  <1> HIDE DEF l, n
  <1>5. ToSet(t) = ToSet(s) \intersect S
    <2>1. \A k \in 1 .. l : t[k] \in ToSet(s) \intersect S
      BY <1>3, <1>4 DEF ToSet
    <2>2. \A m \in 1 .. n : s[m] \in S => s[m] \in ToSet(t)
      <3> SUFFICES ASSUME NEW m \in 1 .. n, s[m] \in S PROVE s[m] \in ToSet(t)
        OBVIOUS
      <3>1. PICK k \in 1 .. l : g[k] = m
        BY <1>4
      <3> QED
        BY <1>3, <1>4, <3>1 DEF ToSet
    <2> QED
      BY <1>3, <2>1, <2>2 DEF ToSet
  <1>6. IsInjective(s) => IsInjective(t)
    BY <1>3, <1>4 DEF IsInjective
  <1>7. ASSUME NEW e PROVE Copies(e, t) <= Copies(e, s)
    <2> DEFINE P == {k \in DOMAIN t : t[k] = e}
               Q == {m \in DOMAIN s : s[m] = e}
               h == [k \in P |-> g[k]]
    <2>1. IsFiniteSet(P) /\ IsFiniteSet(Q)
      BY <1>1, Counted
    <2>2. h \in [P -> Q] /\ \A x, y \in P : h[x] = h[y] => x = y
      BY <1>3, <1>4
    <2> HIDE DEF P, Q, h
    <2>3. Cardinality(P) <= Cardinality(Q)
      BY <2>1, <2>2, Injected
    <2> QED
      BY <2>3 DEF P, Q, Copies
  <1>8. ASSUME NEW m \in DOMAIN s, s[m] \in S PROVE \E k \in DOMAIN t : k <= m /\ t[k] = s[m]
    <2>1. PICK k \in 1 .. l : g[k] = m
      BY <1>3, <1>4, <1>8
    <2> QED
      BY <1>3, <1>4, <2>1
  <1> QED
    BY <1>1, <1>5, <1>6, <1>7, <1>8 DEF t

-----------------------------------------------------------------------------
(***************************************************************************)
(* Types, and what goes with them: feeds hold events of their source, no   *)
(* later than now, known ones are on them, and the handler has in each     *)
(* phase what it needs there.                                              *)
(***************************************************************************)
FeedOK ==
  /\ \A s \in Sources : \A n \in DOMAIN feed[s] : SourceOf[feed[s][n]] = s
  /\ \A e \in Events : dated[e] # None => dated[e] <= now
  /\ \A e \in known : e \in ToSet(feed[SourceOf[e]])

Phase ==
  /\ job.pc # "idle" => job.cmd \in {"digest", "substack"}
  /\ job.pc \in {"idle", "list"} => job.sections = <<>>
  /\ job.pc \in {"idle", "list", "edit"} => job.got = <<>> /\ job.todo = <<>>
  /\ job.pc = "compute" => job.todo # <<>>
  /\ job.pc = "read" => job.page > 0
  /\ job.pc = "read" /\ job.cmd = "substack" => job.got = <<>>
  /\ job.todo = <<>> => job.got = <<>>
  /\ IsInjective(job.todo)

Typed == TypeOK /\ FeedOK /\ Phase

\* The constants.
LEMMA Bounds ==
  /\ PageSize \in Nat \ {0} /\ MaxPages \in Nat \ {0} /\ Limit \in Nat \ {0}
  /\ MaxRepos \in Nat \ {0} /\ MaxFields \in Nat \ {0} /\ MaxSize \in Nat \ {0}
  /\ MaxEmbeds \in Nat \ {0} /\ DayLength \in Nat \ {0} /\ MaxTime \in Nat /\ MaxEdits \in Nat
  /\ Windows \subseteq Nat \ {0}
  BY OnDemandAssumption

LEMMA Sets ==
  /\ None \notin Sources /\ None \notin Events /\ None \notin Int
  /\ Listing \in Seq(Sources) /\ ToSet(Listing) = Sources /\ IsInjective(Listing)
  /\ SourceOf \in [Events -> Sources] /\ Users \subseteq Sources
  BY OnDemandAssumption DEF Sources

-----------------------------------------------------------------------------
\* The sequences of a state, and their positions.
LEMMA Sequences ==
  ASSUME TypeOK
  PROVE  /\ job.todo \in Seq(Sources) /\ job.got \in Seq(Events) /\ job.sections \in Seq(Section)
         /\ job.page \in Nat /\ job.page <= MaxPages /\ job.since \in Int
         /\ \A s \in Sources : /\ feed[s] \in Seq(Events) /\ Len(feed[s]) \in Nat
                               /\ DOMAIN feed[s] = 1 .. Len(feed[s])
                               /\ \A n \in 1 .. Len(feed[s]) : feed[s][n] \in Events
  <1>1. \A s \in Sources : feed[s] \in Seq(Events)
    BY DEF TypeOK
  <1>2. ASSUME NEW s \in Sources
        PROVE  /\ Len(feed[s]) \in Nat /\ DOMAIN feed[s] = 1 .. Len(feed[s])
               /\ \A n \in 1 .. Len(feed[s]) : feed[s][n] \in Events
    BY <1>1, LenProperties, ElementOfSeq
  <1>3. /\ job.todo \in Seq(Sources) /\ job.got \in Seq(Events) /\ job.sections \in Seq(Section)
        /\ job.page \in 0 .. MaxPages /\ job.since \in Int
    BY DEF TypeOK, Job, Section
  <1> QED
    BY <1>1, <1>2, <1>3, Bounds

\* The source that is read.
LEMMA HeadOfTodo ==
  ASSUME TypeOK, job.todo # <<>>
  PROVE  /\ Head(job.todo) \in Sources /\ Head(job.todo) \in ToSet(job.todo)
         /\ Tail(job.todo) \in Seq(Sources)
         /\ ToSet(job.todo) = {Head(job.todo)} \union ToSet(Tail(job.todo))
         /\ IsInjective(job.todo) => IsInjective(Tail(job.todo)) /\ Head(job.todo) \notin ToSet(Tail(job.todo))
  <1> DEFINE q == job.todo
             t == Tail(job.todo)
             k == Len(q)
  <1>1. q \in Seq(Sources)
    BY Sequences
  <1>2. /\ k \in Nat \ {0} /\ DOMAIN q = 1 .. k /\ \A i \in 1 .. k : q[i] \in Sources
        /\ Head(q) = q[1] /\ t \in Seq(Sources) /\ Len(t) = k - 1 /\ DOMAIN t = 1 .. k - 1
        /\ \A i \in 1 .. k - 1 : t[i] = q[i + 1]
    <2>1. k \in Nat /\ k # 0 /\ DOMAIN q = 1 .. k /\ \A i \in 1 .. k : q[i] \in Sources
      BY <1>1, LenProperties, EmptySeq, ElementOfSeq
    <2>2. Head(q) = q[1] /\ t \in Seq(Sources) /\ Len(t) = k - 1 /\ \A i \in 1 .. Len(t) : t[i] = q[i + 1]
      BY <1>1, HeadTailProperties
    <2>3. DOMAIN t = 1 .. Len(t)
      BY <2>2, LenProperties
    <2> QED
      BY <2>1, <2>2, <2>3
  <1> DEFINE h == Head(job.todo)
  <1> HIDE DEF q, t, k, h
  <1>3. h = q[1] /\ 1 \in 1 .. k
    BY <1>2 DEF h, q
  <1>4. \A i \in 1 .. k - 1 : i + 1 \in 1 .. k /\ i + 1 # 1
    BY <1>2
  <1>5. \A i \in 1 .. k : i = 1 \/ (i - 1 \in 1 .. k - 1 /\ (i - 1) + 1 = i)
    BY <1>2
  <1>a. DOMAIN q = 1 .. k /\ DOMAIN t = 1 .. k - 1 /\ k \in Nat
    BY <1>2
  <1>b. \A i \in 1 .. k - 1 : t[i] = q[i + 1]
    BY <1>2
  <1>6. ASSUME NEW i \in 1 .. k PROVE i = 1 \/ q[i] \in ToSet(t)
    <2>1. CASE i - 1 \in 1 .. k - 1 /\ (i - 1) + 1 = i
      <3>1. t[i - 1] = q[i]
        BY <1>b, <2>1
      <3> QED
        BY <1>a, <2>1, <3>1 DEF ToSet
    <2> QED
      BY <1>5, <2>1
  <1>7. ToSet(q) = {h} \union ToSet(t)
    <2>1. \A i \in 1 .. k : q[i] = h \/ q[i] \in ToSet(t)
      BY <1>3, <1>6
    <2>2. h \in ToSet(q)
      BY <1>3, <1>a DEF ToSet
    <2>3. \A i \in 1 .. k - 1 : t[i] \in ToSet(q)
      BY <1>4, <1>a, <1>b DEF ToSet
    <2>4. /\ \A x \in ToSet(q) : \E i \in 1 .. k : x = q[i]
          /\ \A x \in ToSet(t) : \E i \in 1 .. k - 1 : x = t[i]
      BY <1>a DEF ToSet
    <2> QED
      BY <2>1, <2>2, <2>3, <2>4
  <1>8. ASSUME IsInjective(q) PROVE IsInjective(t) /\ h \notin ToSet(t)
    <2>1. ASSUME NEW i \in 1 .. k - 1, NEW j \in 1 .. k - 1, t[i] = t[j] PROVE i = j
      <3>1. i + 1 \in DOMAIN q /\ j + 1 \in DOMAIN q /\ q[i + 1] = q[j + 1]
        BY <1>4, <1>a, <1>b, <2>1
      <3>2. i + 1 = j + 1
        BY <1>8, <3>1 DEF IsInjective
      <3> QED
        BY <3>2
    <2>2. \A i \in 1 .. k - 1 : t[i] # h
      BY <1>2, <1>3, <1>4, <1>8 DEF IsInjective
    <2> QED
      BY <1>2, <2>1, <2>2 DEF IsInjective, ToSet
  <1> QED
    BY <1>2, <1>3, <1>7, <1>8 DEF q, t, h

\* What an event that appears does to the feeds.
Was(n, x, s) == IF x = s THEN n - 1 ELSE n

LEMMA FeedGrows ==
  ASSUME Typed, NEW e \in Events, Appear(e)
  PROVE  /\ SourceOf[e] \in Sources /\ feed' \in [Sources -> Seq(Events)]
         /\ \A x \in Sources : e \notin ToSet(feed[x])
         /\ ToSet(feed'[SourceOf[e]]) = ToSet(feed[SourceOf[e]]) \union {e}
         /\ \A x \in Sources : x # SourceOf[e] => feed'[x] = feed[x]
         /\ \A x \in Sources : \A n \in DOMAIN feed'[x] :
              \/ n = 1 /\ x = SourceOf[e] /\ feed'[x][n] = e
              \/ /\ Was(n, x, SourceOf[e]) \in DOMAIN feed[x]
                 /\ feed'[x][n] = feed[x][Was(n, x, SourceOf[e])] /\ feed'[x][n] # e
         /\ dated' \in [Events -> 0 .. MaxTime \union {None}] /\ dated'[e] = now
         /\ \A d \in Events : d # e => dated'[d] = dated[d]
         /\ e \notin known
  <1> DEFINE s == SourceOf[e]
             q == <<e>> \o feed[s]
             k == Len(feed[s])
  <1>1. s \in Sources
    BY Sets
  <1>2. feed' = [feed EXCEPT ![s] = q] /\ dated[e] = None /\ dated' = [dated EXCEPT ![e] = now]
    BY DEF Appear
  <1>3. feed[s] \in Seq(Events) /\ k \in Nat /\ DOMAIN feed[s] = 1 .. k
    BY <1>1, Sequences DEF Typed
  <1>4. q \in Seq(Events) /\ DOMAIN q = 1 .. 1 + k /\ \A i \in 1 .. 1 + k : q[i] = IF i <= 1 THEN e ELSE feed[s][i - 1]
    <2>1. <<e>> \in Seq(Events) /\ Len(<<e>>) = 1 /\ <<e>>[1] = e
      OBVIOUS
    <2>2. /\ q \in Seq(Events) /\ Len(q) = 1 + k
          /\ \A i \in 1 .. 1 + k : q[i] = IF i <= 1 THEN <<e>>[i] ELSE feed[s][i - 1]
      BY <1>3, <2>1, ConcatProperties
    <2>3. DOMAIN q = 1 .. 1 + k
      BY <2>2, LenProperties
    <2>4. \A i \in 1 .. 1 + k : i <= 1 => i = 1
      OBVIOUS
    <2> HIDE DEF q, k
    <2> QED
      BY <2>1, <2>2, <2>3, <2>4
  <1>5. ToSet(q) = ToSet(feed[s]) \union {e}
    <2>1. <<e>> \in Seq(Events) /\ ToSet(<<e>>) = {e}
      BY DEF ToSet
    <2>2. ToSet(<<e>> \o feed[s]) = ToSet(<<e>>) \union ToSet(feed[s])
      <3>1. \A a, b \in Seq(Events) : ToSet(a \o b) = ToSet(a) \union ToSet(b)
        BY InConcat
      <3> QED
        BY <1>3, <2>1, <3>1
    <2> HIDE DEF s
    <2> QED
      BY <2>1, <2>2
  <1> HIDE DEF q, k
  <1>6. \A x \in Sources : feed[x] \in Seq(Events) /\ feed'[x] = IF x = s THEN q ELSE feed[x]
    BY <1>1, <1>2 DEF Typed, TypeOK
  <1>7. \A x \in Sources : e \notin ToSet(feed[x])
    <2>1. \A x \in Sources : \A n \in 1 .. Len(feed[x]) : dated[feed[x][n]] # None
      BY DEF Typed, TypeOK
    <2>2. \A x \in Sources : DOMAIN feed[x] = 1 .. Len(feed[x])
      BY Sequences DEF Typed
    <2> QED
      BY <1>2, <2>1, <2>2 DEF ToSet
  <1>8. e \notin known
    BY <1>1, <1>7 DEF Typed, FeedOK
  <1>9. feed' \in [Sources -> Seq(Events)]
    BY <1>1, <1>2, <1>4 DEF Typed, TypeOK
  <1>10. /\ dated' \in [Events -> 0 .. MaxTime \union {None}] /\ dated'[e] = now
         /\ \A d \in Events : d # e => dated'[d] = dated[d]
    BY <1>2 DEF Typed, TypeOK
  <1>11. ASSUME NEW x \in Sources, NEW n \in DOMAIN feed'[x]
         PROVE  \/ n = 1 /\ x = SourceOf[e] /\ feed'[x][n] = e
                \/ /\ Was(n, x, SourceOf[e]) \in DOMAIN feed[x]
                   /\ feed'[x][n] = feed[x][Was(n, x, SourceOf[e])] /\ feed'[x][n] # e
    <2>1. CASE x # s
      <3>1. feed'[x] = feed[x] /\ Was(n, x, s) = n
        BY <1>6, <2>1 DEF Was
      <3> QED
        BY <1>7, <1>11, <3>1 DEF ToSet
    <2>2. CASE x = s
      <3>1. n \in 1 .. 1 + k /\ feed'[x][n] = IF n <= 1 THEN e ELSE feed[s][n - 1]
        BY <1>4, <1>6, <2>2
      <3>2. CASE n <= 1
        BY <2>2, <3>1, <3>2
      <3>3. CASE ~(n <= 1)
        <4>1. n - 1 \in 1 .. k /\ Was(n, x, s) = n - 1
          BY <1>3, <2>2, <3>1, <3>3 DEF Was
        <4> QED
          BY <1>3, <1>7, <2>2, <3>1, <3>3, <4>1 DEF ToSet
      <3> QED
        BY <3>2, <3>3
    <2> QED
      BY <2>1, <2>2
  <1> QED
    BY <1>1, <1>5, <1>6, <1>7, <1>8, <1>9, <1>10, <1>11

\* The events of a page, by their places on the feed.
LEMMA PageHolds ==
  ASSUME Typed, NEW s \in Sources, job.page > 0, NEW f, f = feed[s], NEW p, p = PageOf(f),
         NEW lo, lo = (job.page - 1) * PageSize
  PROVE  /\ lo \in Nat /\ job.page * PageSize = lo + PageSize
         /\ p \in Seq(Events) /\ Len(p) \in Nat /\ DOMAIN p = 1 .. Len(p) /\ Len(p) <= PageSize
         /\ \A i \in 1 .. Len(p) : lo + i \in 1 .. Len(f) /\ p[i] = f[lo + i]
         /\ \A n \in 1 .. Len(f) : lo < n /\ n <= lo + PageSize => n - lo \in 1 .. Len(p)
         /\ Len(p) < PageSize => Len(f) < lo + PageSize
  <1> DEFINE l == Len(f)
             hi == IF l < lo + PageSize THEN l ELSE lo + PageSize
  <1>1. lo \in Nat /\ job.page * PageSize = lo + PageSize /\ PageSize \in Nat \ {0}
    <2>1. job.page \in Nat /\ job.page - 1 \in Nat /\ PageSize \in Nat \ {0}
      BY Sequences, Bounds DEF Typed
    <2>2. (job.page - 1) * PageSize \in Nat
      BY <2>1
    <2>3. job.page * PageSize = (job.page - 1) * PageSize + PageSize
      BY <2>1
    <2> QED
      BY <2>1, <2>2, <2>3
  <1>2. f \in Seq(Events) /\ l \in Nat /\ DOMAIN f = 1 .. l /\ \A n \in 1 .. l : f[n] \in Events
    BY Sequences DEF Typed
  <1>3. p = SubSeq(f, lo + 1, hi)
    BY <1>1 DEF PageOf
  <1> HIDE DEF l
  <1>4. hi \in Nat /\ hi <= l /\ hi <= lo + PageSize /\ (hi < lo + PageSize => hi = l)
    BY <1>1, <1>2
  <1> HIDE DEF hi
  <1>5. \A n \in lo + 1 .. hi : f[n] \in Events
    <2>1. \A n \in lo + 1 .. hi : n \in 1 .. l
      BY <1>1, <1>2, <1>4
    <2> QED
      BY <1>2, <2>1
  <1> DEFINE m == lo + 1
  <1>6. m \in Nat /\ m = lo + 1
    BY <1>1
  <1> HIDE DEF m
  <1>7. /\ p \in Seq(Events) /\ Len(p) = IF m <= hi THEN hi - m + 1 ELSE 0
        /\ \A i \in 1 .. hi - m + 1 : p[i] = f[m + i - 1]
    <2>1. \A n \in m .. hi : f[n] \in Events
      BY <1>5, <1>6
    <2>2. p = SubSeq(f, m, hi)
      BY <1>3, <1>6
    <2>3. m \in Int /\ hi \in Int
      BY <1>4, <1>6
    <2>4. /\ SubSeq(f, m, hi) \in Seq(Events) /\ Len(SubSeq(f, m, hi)) = (IF m <= hi THEN hi - m + 1 ELSE 0)
          /\ \A i \in 1 .. hi - m + 1 : SubSeq(f, m, hi)[i] = f[m + i - 1]
      BY <2>1, <2>3, SubSeqProperties
    <2> QED
      BY <2>2, <2>4
  <1>8. Len(p) \in Nat /\ DOMAIN p = 1 .. Len(p)
    BY <1>7, LenProperties
  <1> DEFINE k == Len(p)
  <1>a. lo \in Nat /\ PageSize \in Nat \ {0} /\ l \in Nat /\ k \in Nat
    BY <1>1, <1>2, <1>8
  <1>b. k = (IF m <= hi THEN hi - m + 1 ELSE 0) /\ DOMAIN p = 1 .. k
    BY <1>7, <1>8
  <1> HIDE DEF k
  <1>c. (m <= hi => k = hi - m + 1) /\ (~(m <= hi) => k = 0)
    BY <1>b
  <1>9. k <= PageSize /\ (k < PageSize => l < lo + PageSize)
    BY <1>4, <1>6, <1>a, <1>c
  <1>10. ASSUME NEW i \in 1 .. k PROVE lo + i \in 1 .. l /\ p[i] = f[lo + i]
    <2>1. k = hi - m + 1 /\ m <= hi
      BY <1>4, <1>6, <1>a, <1>c
    <2>2. i \in 1 .. hi - m + 1 /\ m + i - 1 = lo + i /\ lo + i \in 1 .. l
      BY <1>4, <1>6, <1>a, <2>1
    <2> QED
      BY <1>7, <2>2
  <1>11. ASSUME NEW n \in 1 .. l, lo < n, n <= lo + PageSize PROVE n - lo \in 1 .. k
    <2>1. n <= hi
      BY <1>4, <1>11, <1>a
    <2>2. k = hi - lo
      BY <1>4, <1>6, <1>11, <1>a, <1>c, <2>1
    <2> QED
      BY <1>4, <1>11, <1>a, <2>1, <2>2
  <1> QED
    BY <1>1, <1>7, <1>9, <1>10, <1>11, <1>a, <1>b DEF l, k

\* The events of a page back to since.
LEMMA RecentHolds ==
  ASSUME job.since \in Int, NEW p \in Seq(Events), \A i \in 1 .. Len(p) : dated[p[i]] \in Int,
         NEW r, r = Recent(p)
  PROVE  /\ r \in Seq(Events) /\ Len(r) \in Nat /\ DOMAIN r = 1 .. Len(r) /\ Len(r) <= Len(p)
         /\ \A i \in 1 .. Len(r) : r[i] = p[i] /\ dated[p[i]] >= job.since
         /\ r # p => Len(r) + 1 \in 1 .. Len(p) /\ dated[p[Len(r) + 1]] < job.since
  <1> DEFINE k == Len(p)
             older == {n \in DOMAIN p : dated[p[n]] < job.since}
             j == Min(older)
  <1>1. k \in Nat /\ DOMAIN p = 1 .. k /\ \A i \in 1 .. k : p[i] \in Events
    BY LenProperties, ElementOfSeq
  <1>2. r = IF older = {} THEN p ELSE SubSeq(p, 1, j - 1)
    BY DEF Recent
  <1>3. CASE older = {}
    <2>1. r = p
      BY <1>2, <1>3
    <2>2. ASSUME NEW i \in 1 .. k PROVE dated[p[i]] >= job.since
      <3>1. ~(dated[p[i]] < job.since)
        BY <1>1, <1>3
      <3> QED
        BY <3>1
    <2> QED
      BY <1>1, <2>1, <2>2
  <1>4. CASE older # {}
    <2>1. older \in SUBSET Nat /\ older \subseteq 1 .. k
      BY <1>1
    <2>2. j \in older /\ \A n \in older : j <= n
      <3> HIDE DEF older
      <3> QED
        BY <1>4, <2>1, LeastNumber
    <2>3. j \in 1 .. k /\ dated[p[j]] < job.since
      BY <1>1, <2>2
    <2>4. ASSUME NEW i \in 1 .. k, i < j PROVE dated[p[i]] >= job.since
      <3>1. i \notin older
        <4> HIDE DEF older
        <4>1. i \in Nat /\ j \in Nat /\ ~(j <= i)
          BY <1>1, <2>3, <2>4
        <4> QED
          BY <2>2, <4>1
      <3>2. ~(dated[p[i]] < job.since)
        BY <1>1, <3>1
      <3> QED
        BY <3>2
    <2> DEFINE m == j - 1
    <2> HIDE DEF j, k, older
    <2>5. m \in Nat /\ m + 1 = j /\ m < k
      BY <1>1, <2>3
    <2> HIDE DEF m
    <2>6. r = SubSeq(p, 1, m)
      BY <1>2, <1>4 DEF m
    <2>7. \A i \in 1 .. m : i \in 1 .. k /\ i < j /\ p[i] \in Events
      BY <1>1, <2>5
    <2>8. /\ r \in Seq(Events) /\ Len(r) = (IF 1 <= m THEN m - 1 + 1 ELSE 0)
          /\ \A i \in 1 .. m - 1 + 1 : r[i] = p[1 + i - 1]
      BY <2>5, <2>6, <2>7, SubSeqProperties
    <2>9. Len(r) = m
      BY <2>5, <2>8
    <2>10. \A i \in 1 .. m : i \in 1 .. m - 1 + 1 /\ 1 + i - 1 = i
      BY <2>5
    <2>11. \A i \in 1 .. m : r[i] = p[i]
      BY <2>8, <2>10
    <2>12. \A i \in 1 .. Len(r) : r[i] = p[i] /\ dated[p[i]] >= job.since
      BY <2>4, <2>7, <2>9, <2>11
    <2>13. Len(r) \in Nat /\ DOMAIN r = 1 .. Len(r) /\ Len(r) <= k
      <3>1. Len(r) \in Nat /\ DOMAIN r = 1 .. Len(r)
        BY <2>8, LenProperties
      <3>2. Len(r) <= k
        BY <1>1, <2>5, <2>9
      <3> QED
        BY <3>1, <3>2
    <2>14. Len(r) + 1 \in 1 .. k /\ dated[p[Len(r) + 1]] < job.since
      BY <2>3, <2>5, <2>9
    <2> QED
      BY <2>8, <2>12, <2>13, <2>14 DEF k
  <1> QED
    BY <1>3, <1>4

\* What one page of a feed adds, and what its end tells.
LEMMA PageRead ==
  ASSUME Typed, NEW s \in Sources, job.page > 0, NEW f, f = feed[s], NEW p, p = PageOf(f),
         NEW r, r = Recent(p), NEW lo, lo = (job.page - 1) * PageSize
  PROVE  /\ lo \in Nat /\ job.page * PageSize = lo + PageSize
         /\ r \in Seq(Events) /\ IsInjective(r)
         /\ \A i \in DOMAIN r : lo + i \in DOMAIN f /\ r[i] = f[lo + i] /\ i <= PageSize
                               /\ dated[r[i]] >= job.since
         /\ \A n \in DOMAIN f : lo < n /\ n <= lo + PageSize /\ dated[f[n]] >= job.since => f[n] \in ToSet(r)
         /\ LastPage(p, r) =>
              \A n \in DOMAIN f : n > lo + PageSize /\ n <= PageSize * MaxPages => ~(dated[f[n]] >= job.since)
         /\ ~LastPage(p, r) => job.page < MaxPages
  <1>1. /\ lo \in Nat /\ job.page * PageSize = lo + PageSize /\ PageSize \in Nat
        /\ p \in Seq(Events) /\ Len(p) \in Nat /\ DOMAIN p = 1 .. Len(p) /\ Len(p) <= PageSize
        /\ \A i \in 1 .. Len(p) : lo + i \in 1 .. Len(f) /\ p[i] = f[lo + i]
        /\ \A n \in 1 .. Len(f) : lo < n /\ n <= lo + PageSize => n - lo \in 1 .. Len(p)
        /\ Len(p) < PageSize => Len(f) < lo + PageSize
    BY SMTT(30), PageHolds, Bounds
  <1>2. /\ Len(f) \in Nat /\ DOMAIN f = 1 .. Len(f) /\ \A n \in 1 .. Len(f) : f[n] \in Events
        /\ job.since \in Int /\ job.page \in Nat /\ job.page <= MaxPages
    BY Sequences DEF Typed
  <1>3. /\ IsInjective(f)
        /\ \A n \in 1 .. Len(f) : dated[f[n]] \in Int
        /\ \A m, n \in 1 .. Len(f) : m <= n => dated[f[m]] >= dated[f[n]]
    <2>1. /\ IsInjective(f)
          /\ \A m \in 1 .. Len(f) : dated[f[m]] # None /\ \A n \in m .. Len(f) : dated[f[m]] >= dated[f[n]]
      BY DEF Typed, TypeOK
    <2>2. \A e \in Events : dated[e] # None => dated[e] \in Int
      BY Bounds DEF Typed, TypeOK
    <2> QED
      BY <1>2, <2>1, <2>2
  <1>4. /\ r \in Seq(Events) /\ Len(r) \in Nat /\ DOMAIN r = 1 .. Len(r) /\ Len(r) <= Len(p)
        /\ \A i \in 1 .. Len(r) : r[i] = p[i] /\ dated[p[i]] >= job.since
        /\ r # p => Len(r) + 1 \in 1 .. Len(p) /\ dated[p[Len(r) + 1]] < job.since
    <2>1. \A i \in 1 .. Len(p) : dated[p[i]] \in Int
      BY <1>1, <1>3
    <2>2. p \in Seq(Events) /\ job.since \in Int
      BY <1>1, <1>2
    <2> QED
      BY <2>1, <2>2, RecentHolds
  <1>5. ASSUME NEW i \in DOMAIN r
        PROVE  lo + i \in DOMAIN f /\ r[i] = f[lo + i] /\ i <= PageSize /\ dated[r[i]] >= job.since /\ i \in Nat
    <2>1. i \in 1 .. Len(r) /\ Len(r) \in Nat /\ Len(r) <= Len(p) /\ Len(p) \in Nat /\ Len(p) <= PageSize
      BY <1>1, <1>4
    <2>2. i \in 1 .. Len(p) /\ i \in Nat /\ i <= PageSize
      BY <1>1, <2>1
    <2>3. lo + i \in DOMAIN f /\ p[i] = f[lo + i]
      BY <1>1, <1>2, <2>2
    <2>4. r[i] = p[i] /\ dated[p[i]] >= job.since
      BY <1>4, <2>1
    <2> QED
      BY <2>2, <2>3, <2>4
  <1>6. IsInjective(r)
    <2>1. ASSUME NEW i \in DOMAIN r, NEW j \in DOMAIN r, r[i] = r[j] PROVE i = j
      <3>1. lo + i = lo + j
        BY <1>3, <1>5, <2>1 DEF IsInjective
      <3> QED
        BY <1>1, <1>5, <3>1
    <2> QED
      BY <2>1 DEF IsInjective
  \* Beyond the first old event there are only old ones.
  <1>7. ASSUME r # p, NEW n \in 1 .. Len(f), n >= lo + Len(r) + 1 PROVE ~(dated[f[n]] >= job.since)
    <2> DEFINE j == Len(r) + 1
    <2>1. j \in 1 .. Len(p) /\ dated[p[j]] < job.since
      BY <1>4, <1>7
    <2>a. lo \in Nat /\ Len(r) \in Nat /\ n \in Nat
      BY <1>1, <1>2, <1>4
    <2>2. lo + j \in 1 .. Len(f) /\ p[j] = f[lo + j] /\ lo + j <= n
      <3>1. lo + j \in 1 .. Len(f) /\ p[j] = f[lo + j]
        BY <1>1, <2>1
      <3>2. lo + j <= n
        BY <1>7, <2>a
      <3> QED
        BY <3>1, <3>2
    <2>3. dated[f[lo + j]] >= dated[f[n]] /\ dated[f[lo + j]] \in Int /\ dated[f[n]] \in Int
      BY <1>3, <2>2
    <2> QED
      BY <1>2, <2>1, <2>2, <2>3
  <1>8. ASSUME NEW n \in DOMAIN f, lo < n, n <= lo + PageSize, dated[f[n]] >= job.since
        PROVE  f[n] \in ToSet(r)
    <2>1. n - lo \in 1 .. Len(p) /\ n \in 1 .. Len(f)
      BY <1>1, <1>2, <1>8
    <2>2. p[n - lo] = f[n]
      <3>1. lo + (n - lo) = n
        BY <1>1, <2>1
      <3> QED
        BY <1>1, <2>1, <3>1
    <2>3. n - lo \in 1 .. Len(r)
      <3>1. CASE r = p
        BY <2>1, <3>1
      <3>2. CASE r # p
        <4>1. ~(n >= lo + Len(r) + 1)
          BY <1>7, <1>8, <2>1, <3>2
        <4> QED
          BY <1>1, <1>4, <2>1, <4>1
      <3> QED
        BY <3>1, <3>2
    <2>4. r[n - lo] = f[n]
      BY <1>4, <2>2, <2>3
    <2> QED
      BY <1>4, <2>3, <2>4 DEF ToSet
  <1>9. ASSUME LastPage(p, r), NEW n \in DOMAIN f, n > lo + PageSize, n <= PageSize * MaxPages
        PROVE  ~(dated[f[n]] >= job.since)
    <2>1. n \in 1 .. Len(f) /\ n \in Nat
      BY <1>2
    <2>2. CASE Len(p) < PageSize
      BY <1>1, <1>2, <1>9, <2>1, <2>2
    <2>3. CASE r # p
      <3>1. n >= lo + Len(r) + 1
        BY <1>1, <1>4, <1>9, <2>1
      <3> QED
        BY <1>7, <2>1, <2>3, <3>1
    <2>4. CASE job.page = MaxPages
      <3>1. job.page * PageSize = PageSize * MaxPages
        BY <1>1, <1>2, <2>4
      <3> QED
        BY <1>1, <1>9, <2>1, <3>1
    <2> QED
      BY <1>9, <2>2, <2>3, <2>4 DEF LastPage
  <1>10. ~LastPage(p, r) => job.page < MaxPages
    BY <1>2, Bounds DEF LastPage
  <1> QED
    BY <1>1, <1>4, <1>5, <1>6, <1>8, <1>9, <1>10

\* What ReadFeed takes from the feed of a publication.
Newer(f) == Only(f, {e \in ToSet(f) : dated[e] > job.since})
Taken(newer) == SubSeq(newer, 1, IF Len(newer) < Limit THEN Len(newer) ELSE Limit)

\* It takes nothing that is too old, and all the rest up to the limit.
LEMMA FeedRead ==
  ASSUME Typed, NEW s \in Sources, NEW f, f = feed[s],
         NEW newer, newer = Newer(f), NEW g, g = Taken(newer)
  PROVE  /\ g \in Seq(Events) /\ IsInjective(g)
         /\ \A e \in ToSet(g) : e \in ToSet(f) /\ dated[e] > job.since
         /\ \A n \in DOMAIN f : dated[f[n]] > job.since /\ n <= Limit => f[n] \in ToSet(g)
  <1> DEFINE S == {e \in ToSet(f) : dated[e] > job.since}
             k == Len(newer)
             m == IF k < Limit THEN k ELSE Limit
  <1>1. f \in Seq(Events) /\ Len(f) \in Nat /\ DOMAIN f = 1 .. Len(f) /\ IsInjective(f)
    BY Sequences DEF Typed, TypeOK
  <1>2. newer = Only(f, S)
    BY DEF Newer
  <1> HIDE DEF S
  <1>3. /\ newer \in Seq(Events) /\ ToSet(newer) = ToSet(f) \intersect S /\ IsInjective(newer)
        /\ \A n \in DOMAIN f : f[n] \in S => \E i \in DOMAIN newer : i <= n /\ newer[i] = f[n]
    <2>1. /\ Only(f, S) \in Seq(Events) /\ ToSet(Only(f, S)) = ToSet(f) \intersect S
          /\ IsInjective(f) => IsInjective(Only(f, S))
          /\ \A n \in DOMAIN f : f[n] \in S => \E i \in DOMAIN Only(f, S) : i <= n /\ Only(f, S)[i] = f[n]
      BY <1>1, OnlyKeeps
    <2> QED
      BY <1>1, <1>2, <2>1
  <1>4. k \in Nat /\ DOMAIN newer = 1 .. k /\ \A i \in 1 .. k : newer[i] \in Events
    BY <1>3, LenProperties, ElementOfSeq
  <1>5. Limit \in Nat
    BY Bounds
  <1> HIDE DEF k
  <1>6. m \in Nat /\ m <= k /\ m <= Limit /\ \A i \in 1 .. k : i <= Limit => i \in 1 .. m
    BY <1>4, <1>5
  <1>7. g = SubSeq(newer, 1, m)
    BY DEF k, Taken
  <1> HIDE DEF m
  <1>8. g \in Seq(Events) /\ DOMAIN g = 1 .. m /\ \A i \in 1 .. m : g[i] = newer[i] /\ i \in 1 .. k
    <2>1. \A i \in 1 .. m : newer[i] \in Events /\ i \in 1 .. k
      BY <1>4, <1>6
    <2>2. /\ SubSeq(newer, 1, m) \in Seq(Events) /\ Len(SubSeq(newer, 1, m)) = (IF 1 <= m THEN m - 1 + 1 ELSE 0)
          /\ \A i \in 1 .. m - 1 + 1 : SubSeq(newer, 1, m)[i] = newer[1 + i - 1]
      BY <1>6, <2>1, SubSeqProperties
    <2>3. \A i \in 1 .. m : i \in 1 .. m - 1 + 1 /\ 1 + i - 1 = i
      BY <1>6
    <2>4. \A i \in 1 .. m : g[i] = newer[i]
      BY <1>7, <2>2, <2>3
    <2>5. Len(g) = m
      <3>1. Len(g) = (IF 1 <= m THEN m - 1 + 1 ELSE 0)
        BY <1>7, <2>2
      <3>2. m \in Nat
        BY <1>6
      <3> QED
        BY <3>1, <3>2
    <2>6. g \in Seq(Events)
      BY <1>7, <2>2
    <2>7. DOMAIN g = 1 .. Len(g)
      BY <2>6, LenProperties
    <2> QED
      BY <2>1, <2>4, <2>5, <2>6, <2>7
  <1>9. IsInjective(g)
    <2>1. ASSUME NEW i \in 1 .. m, NEW j \in 1 .. m, g[i] = g[j] PROVE i = j
      <3>1. i \in DOMAIN newer /\ j \in DOMAIN newer /\ newer[i] = newer[j]
        BY <1>4, <1>8, <2>1
      <3> QED
        BY <1>3, <3>1 DEF IsInjective
    <2>2. DOMAIN g = 1 .. m
      BY <1>8
    <2> QED
      BY <2>1, <2>2 DEF IsInjective
  <1>10. ASSUME NEW e \in ToSet(g) PROVE e \in ToSet(f) /\ dated[e] > job.since
    <2>a. PICK i \in 1 .. m : e = g[i]
      BY <1>8 DEF ToSet
    <2>b. i \in DOMAIN newer /\ e = newer[i]
      BY <1>4, <1>8, <2>a
    <2>1. e \in ToSet(newer)
      BY <2>b DEF ToSet
    <2> QED
      BY <1>3, <2>1 DEF S
  <1>11. ASSUME NEW n \in DOMAIN f, dated[f[n]] > job.since, n <= Limit PROVE f[n] \in ToSet(g)
    <2>1. f[n] \in S
      BY <1>11 DEF S, ToSet
    <2>2. PICK i \in DOMAIN newer : i <= n /\ newer[i] = f[n]
      BY <1>3, <2>1
    <2>3. i \in 1 .. k /\ i \in Nat /\ n \in Nat
      BY <1>1, <1>4, <2>2
    <2>4. i \in 1 .. m
      BY <1>5, <1>6, <1>11, <2>2, <2>3
    <2> QED
      BY <1>8, <2>2, <2>4 DEF ToSet
  <1> QED
    BY <1>8, <1>9, <1>10, <1>11

-----------------------------------------------------------------------------
\* The type invariant, and what goes with it, is inductive.
LEMMA TypedInit == Init => Typed
  <1> SUFFICES ASSUME Init PROVE Typed
    OBVIOUS
  <1>1. job \in Job /\ job.page \in 0 .. MaxPages
    BY Bounds DEF Job, Init, NoJob
  <1>2. /\ History \in [Sources -> Seq(Events)]
        /\ \A s \in Sources : IsInjective(History[s]) /\ \A e \in ToSet(History[s]) : SourceOf[e] = s
    BY OnDemandAssumption
  <1>3. /\ now = 0 /\ now \in 0 .. MaxTime /\ edits \in 0 .. MaxEdits /\ feed = History
        /\ dated = [e \in Events |-> IF e \in ToSet(History[SourceOf[e]]) THEN 0 ELSE None]
        /\ known = {} /\ deleted \subseteq Users /\ enabled \subseteq Sources
    BY Bounds DEF Init
  <1>4. dated \in [Events -> 0 .. MaxTime \union {None}] /\ \A e \in Events : dated[e] # None => dated[e] <= now
    BY <1>3, Bounds
  <1>5. ASSUME NEW s \in Sources, NEW n \in DOMAIN feed[s]
        PROVE  SourceOf[feed[s][n]] = s /\ dated[feed[s][n]] = 0
    <2>1. feed[s] \in Seq(Events) /\ feed[s][n] \in ToSet(feed[s]) /\ ToSet(feed[s]) = ToSet(History[s])
      BY <1>2, <1>3, <1>5 DEF ToSet
    <2>2. feed[s][n] \in Events
      BY <1>5, <2>1, ElementOfSeq, LenProperties
    <2>3. SourceOf[feed[s][n]] = s
      BY <1>2, <2>1
    <2> QED
      BY <1>3, <2>1, <2>2, <2>3
  <1>6. \A s \in Sources : IsInjective(feed[s]) /\ DOMAIN feed[s] = 1 .. Len(feed[s]) /\ Len(feed[s]) \in Nat
    BY <1>2, <1>3, LenProperties
  <1>7. ASSUME NEW s \in Sources, NEW m \in 1 .. Len(feed[s])
        PROVE  /\ dated[feed[s][m]] # None
               /\ \A n \in m .. Len(feed[s]) : dated[feed[s][m]] >= dated[feed[s][n]]
    <2>1. \A n \in m .. Len(feed[s]) : n \in DOMAIN feed[s]
      BY <1>6
    <2>2. m \in DOMAIN feed[s]
      BY <1>6
    <2>3. dated[feed[s][m]] = 0 /\ \A n \in m .. Len(feed[s]) : dated[feed[s][n]] = 0
      BY <1>5, <2>1, <2>2
    <2> QED
      BY <2>3, Sets
  <1>8. TypeOK
    BY <1>1, <1>2, <1>3, <1>4, <1>6, <1>7 DEF TypeOK
  <1>9. FeedOK
    BY <1>3, <1>4, <1>5 DEF FeedOK
  <1>10. IsInjective(<<>>)
    BY DEF IsInjective
  <1>11. Phase
    BY <1>10 DEF Phase, Init, NoJob
  <1> QED
    BY <1>8, <1>9, <1>11 DEF Typed

\* Steps of the environment: feeds, the clock, the lists and accounts.
LEMMA TypedTick == Typed /\ Tick => Typed'
  <1> SUFFICES ASSUME Typed, Tick PROVE Typed'
    OBVIOUS
  <1>1. now \in 0 .. MaxTime /\ now < MaxTime /\ now' = now + 1
    BY DEF Typed, TypeOK, Tick
  <1>2. now' \in 0 .. MaxTime /\ now <= now'
    BY <1>1, Bounds
  <1>3. \A e \in Events : dated[e] # None => dated[e] <= now'
    <2>1. \A e \in Events : dated[e] # None => dated[e] \in Int /\ dated[e] <= now
      BY Bounds DEF Typed, TypeOK, FeedOK
    <2> QED
      BY <1>1, <1>2, <2>1
  <1>4. TypeOK'
    BY <1>2 DEF Typed, TypeOK, Tick
  <1>5. FeedOK'
    BY <1>3 DEF Typed, FeedOK, Tick
  <1>6. Phase'
    BY DEF Typed, Phase, Tick
  <1> QED
    BY <1>4, <1>5, <1>6 DEF Typed

LEMMA TypedEdits ==
  ASSUME Typed, UNCHANGED <<now, feed, dated, job, known>>, edits' \in 0 .. MaxEdits,
         enabled' \subseteq Sources, deleted' \subseteq Users
  PROVE  Typed'
  BY DEF Typed, TypeOK, FeedOK, Phase

LEMMA TypedToggle ==
  ASSUME Typed, NEW s \in Sources, Toggle(s)
  PROVE  Typed'
  <1>1. edits' \in 0 .. MaxEdits
    BY Bounds DEF Typed, TypeOK, Toggle, Edited
  <1>2. UNCHANGED <<now, feed, dated, job, known>> /\ enabled' \subseteq Sources /\ deleted' \subseteq Users
    BY DEF Typed, TypeOK, Toggle
  <1> QED
    BY <1>1, <1>2, TypedEdits

LEMMA TypedDelete ==
  ASSUME Typed, NEW u \in Users, DeleteAccount(u)
  PROVE  Typed'
  <1>1. edits' \in 0 .. MaxEdits
    BY Bounds DEF Typed, TypeOK, DeleteAccount, Edited
  <1>2. UNCHANGED <<now, feed, dated, job, known>> /\ enabled' \subseteq Sources /\ deleted' \subseteq Users
    BY DEF Typed, TypeOK, DeleteAccount
  <1> QED
    BY <1>1, <1>2, TypedEdits

\* A feed grows at the front, where the newest event belongs.
LEMMA TypedAppear ==
  ASSUME Typed, NEW e \in Events, Appear(e)
  PROVE  Typed'
  <1>0. UNCHANGED <<now, enabled, deleted, edits, job, known>>
    BY DEF Appear
  <1>1. now \in Int /\ now \in 0 .. MaxTime /\ None \notin Int
    BY Bounds, Sets DEF Typed, TypeOK
  <1>2. \A d \in Events : dated[d] # None => dated[d] \in Int /\ dated[d] <= now
    BY Bounds DEF Typed, TypeOK, FeedOK
  <1>3. ASSUME NEW x \in Sources
        PROVE  /\ feed'[x] \in Seq(Events) /\ DOMAIN feed'[x] = 1 .. Len(feed'[x]) /\ Len(feed'[x]) \in Nat
               /\ \A n \in DOMAIN feed'[x] : feed'[x][n] \in Events
    <2>1. feed'[x] \in Seq(Events)
      BY FeedGrows
    <2> QED
      BY <2>1, LenProperties, ElementOfSeq
  <1>4. ASSUME NEW x \in Sources, NEW m \in DOMAIN feed'[x], NEW n \in DOMAIN feed'[x]
        PROVE  /\ feed'[x][m] = feed'[x][n] => m = n
               /\ dated'[feed'[x][m]] # None
               /\ m <= n => dated'[feed'[x][m]] >= dated'[feed'[x][n]]
               /\ SourceOf[feed'[x][m]] = x
    <2> DEFINE a == Was(m, x, SourceOf[e])
               b == Was(n, x, SourceOf[e])
    <2>1. m \in Nat /\ n \in Nat /\ m >= 1 /\ n >= 1
      BY <1>3
    <2>2. /\ \/ m = 1 /\ x = SourceOf[e] /\ feed'[x][m] = e
             \/ a \in DOMAIN feed[x] /\ feed'[x][m] = feed[x][a] /\ feed'[x][m] # e
          /\ \/ n = 1 /\ x = SourceOf[e] /\ feed'[x][n] = e
             \/ b \in DOMAIN feed[x] /\ feed'[x][n] = feed[x][b] /\ feed'[x][n] # e
      <3>1. \A q \in DOMAIN feed'[x] :
              \/ q = 1 /\ x = SourceOf[e] /\ feed'[x][q] = e
              \/ /\ Was(q, x, SourceOf[e]) \in DOMAIN feed[x]
                 /\ feed'[x][q] = feed[x][Was(q, x, SourceOf[e])] /\ feed'[x][q] # e
        BY FeedGrows
      <3> QED
        BY <3>1
    <2>3. /\ a \in Int /\ b \in Int /\ (a = b => m = n) /\ (m <= n => a <= b)
          /\ DOMAIN feed[x] = 1 .. Len(feed[x])
      BY <2>1, Sequences DEF Typed, Was
    <2> HIDE DEF a, b
    <2>4. /\ dated'[e] = now /\ \A d \in Events : d # e => dated'[d] = dated[d]
      BY FeedGrows
    <2>5. /\ IsInjective(feed[x])
          /\ \A i \in 1 .. Len(feed[x]) :
               /\ feed[x][i] \in Events /\ dated[feed[x][i]] # None /\ SourceOf[feed[x][i]] = x
               /\ \A j \in i .. Len(feed[x]) : dated[feed[x][i]] >= dated[feed[x][j]]
      BY <2>3, Sequences DEF Typed, TypeOK, FeedOK
    <2>6. feed'[x][m] = feed'[x][n] => m = n
      BY <2>2, <2>3, <2>5 DEF IsInjective
    <2>7. dated'[feed'[x][m]] # None /\ SourceOf[feed'[x][m]] = x
      BY <1>1, <2>2, <2>3, <2>4, <2>5
    <2>8. ASSUME m <= n PROVE dated'[feed'[x][m]] >= dated'[feed'[x][n]]
      <3>1. CASE feed'[x][n] = e
        <4>1. m = 1 /\ n = 1
          BY <2>1, <2>2, <2>8, <3>1
        <4> QED
          BY <1>1, <2>4, <3>1, <4>1
      <3>2. CASE feed'[x][n] # e /\ feed'[x][m] = e
        <4>1. b \in 1 .. Len(feed[x]) /\ feed'[x][n] = feed[x][b] /\ feed[x][b] \in Events /\ dated[feed[x][b]] # None
          BY <2>2, <2>3, <2>5, <3>2
        <4>2. dated'[feed'[x][n]] \in Int /\ dated'[feed'[x][n]] <= now
          BY <1>2, <2>4, <3>2, <4>1
        <4> QED
          BY <1>1, <2>4, <3>2, <4>2
      <3>3. CASE feed'[x][n] # e /\ feed'[x][m] # e
        <4>1. /\ b \in 1 .. Len(feed[x]) /\ feed'[x][n] = feed[x][b] /\ feed[x][b] \in Events
              /\ a \in 1 .. Len(feed[x]) /\ feed'[x][m] = feed[x][a] /\ feed[x][a] \in Events
          BY <2>2, <2>3, <2>5, <3>3
        <4>2. b \in a .. Len(feed[x])
          BY <2>3, <2>8, <4>1
        <4> QED
          BY <2>4, <2>5, <3>3, <4>1, <4>2
      <3> QED
        BY <3>1, <3>2, <3>3
    <2> QED
      BY <2>6, <2>7, <2>8
  <1>5. \A x \in Sources : IsInjective(feed'[x])
    BY <1>4 DEF IsInjective
  <1>6. \A x \in Sources : \A m \in 1 .. Len(feed'[x]) :
          /\ dated'[feed'[x][m]] # None
          /\ \A n \in m .. Len(feed'[x]) : dated'[feed'[x][m]] >= dated'[feed'[x][n]]
    <2> SUFFICES ASSUME NEW x \in Sources, NEW m \in 1 .. Len(feed'[x])
                 PROVE  /\ dated'[feed'[x][m]] # None
                        /\ \A n \in m .. Len(feed'[x]) : dated'[feed'[x][m]] >= dated'[feed'[x][n]]
      OBVIOUS
    <2>1. m \in DOMAIN feed'[x] /\ \A n \in m .. Len(feed'[x]) : n \in DOMAIN feed'[x] /\ m <= n
      BY <1>3
    <2> QED
      BY <1>4, <2>1
  <1>7. TypeOK'
    BY <1>0, <1>5, <1>6, FeedGrows DEF Typed, TypeOK
  <1>8. FeedOK'
    <2>1. \A x \in Sources : \A n \in DOMAIN feed'[x] : SourceOf[feed'[x][n]] = x
      BY <1>4
    <2>2. \A d \in Events : dated'[d] # None => dated'[d] <= now
      BY <1>1, <1>2, FeedGrows
    <2>3. \A d \in known : d \in ToSet(feed'[SourceOf[d]])
      <3>1. \A d \in known : d \in Events /\ SourceOf[d] \in Sources /\ d \in ToSet(feed[SourceOf[d]])
        BY Sets DEF Typed, TypeOK, FeedOK
      <3>2. \A x \in Sources : ToSet(feed[x]) \subseteq ToSet(feed'[x])
        <4> SUFFICES ASSUME NEW x \in Sources PROVE ToSet(feed[x]) \subseteq ToSet(feed'[x])
          OBVIOUS
        <4>0. \A y \in Sources : y # SourceOf[e] => feed'[y] = feed[y]
          BY FeedGrows
        <4>1. ToSet(feed'[SourceOf[e]]) = ToSet(feed[SourceOf[e]]) \union {e}
          BY FeedGrows
        <4> QED
          BY <4>0, <4>1
      <3> QED
        BY <3>1, <3>2
    <2> QED
      BY <1>0, <2>1, <2>2, <2>3 DEF FeedOK
  <1>9. Phase'
    BY <1>0 DEF Typed, Phase
  <1> QED
    BY <1>7, <1>8, <1>9 DEF Typed

-----------------------------------------------------------------------------
(***************************************************************************)
(* The steps of the handler, field by field.                               *)
(***************************************************************************)
LEMMA JobFields ==
  Job = [ pc : {"idle", "list", "read", "compute", "edit"}, cmd : {"digest", "substack", None},
          since : Int, todo : Seq(Sources), page : Nat, got : Seq(Events), sections : Seq(Section) ]
  BY DEF Job, Section

LEMMA ReadPageStep ==
  ASSUME Typed, ReadPage, NEW s, s = Head(job.todo), NEW p, p = PageOf(feed[s]), NEW r, r = Recent(p)
  PROVE  /\ UNCHANGED <<world, known>> /\ s \in Sources
         /\ job.pc = "read" /\ job.cmd = "digest" /\ job.todo # <<>> /\ job.page > 0
         /\ job' \in Job /\ UNCHANGED <<job.cmd, job.since, job.todo, job.sections>>
         /\ job'.got = job.got \o r
         /\ LastPage(p, r) => job'.pc = "compute" /\ job'.page = job.page
         /\ ~LastPage(p, r) => job'.pc = "read" /\ job'.page = job.page + 1 /\ job.page < MaxPages
  <1>1. /\ UNCHANGED <<world, known>> /\ job.pc = "read" /\ job.cmd = "digest" /\ job.todo # <<>>
        /\ job' = [job EXCEPT !.got = @ \o r, !.pc = IF LastPage(p, r) THEN "compute" ELSE @,
                              !.page = IF LastPage(p, r) THEN @ ELSE @ + 1]
    BY DEF ReadPage
  <1>2. s \in Sources /\ job.page > 0 /\ job.page \in Nat
    BY <1>1, HeadOfTodo, Sequences DEF Typed, Phase
  <1>3. r \in Seq(Events) /\ (~LastPage(p, r) => job.page < MaxPages)
    <2> DEFINE f == feed[s]
    <2>1. p = PageOf(f)
      OBVIOUS
    <2> HIDE DEF f
    <2> QED
      BY <1>2, <2>1, PageRead DEF f
  <1>4. job \in Job /\ job.got \o r \in Seq(Events)
    BY <1>3, Sequences, ConcatProperties DEF Typed, TypeOK
  <1>5. /\ job' \in Job /\ UNCHANGED <<job.cmd, job.since, job.todo, job.sections>>
        /\ job'.got = job.got \o r
        /\ LastPage(p, r) => job'.pc = "compute" /\ job'.page = job.page
        /\ ~LastPage(p, r) => job'.pc = "read" /\ job'.page = job.page + 1
    <2>1. CASE LastPage(p, r)
      <3>1. job' = [job EXCEPT !.got = job.got \o r, !.pc = "compute"]
        BY <1>1, <1>4, <2>1 DEF Job
      <3> QED
        BY <1>4, <2>1, <3>1 DEF Job
    <2>2. CASE ~LastPage(p, r)
      <3>1. job' = [job EXCEPT !.got = job.got \o r, !.page = job.page + 1]
        BY <1>1, <1>4, <2>2 DEF Job
      <3>2. job.pc = "read" /\ job.page + 1 \in Nat
        BY <1>1, <1>2
      <3> QED
        BY <1>4, <2>2, <3>1, <3>2 DEF Job
    <2> QED
      BY <2>1, <2>2
  <1> QED
    BY <1>1, <1>2, <1>3, <1>5

LEMMA ReadFeedStep ==
  ASSUME Typed, ReadFeed, NEW s, s = Head(job.todo), NEW newer, newer = Newer(feed[s])
  PROVE  /\ UNCHANGED <<world, known>> /\ s \in Sources
         /\ job.pc = "read" /\ job.cmd = "substack" /\ job.todo # <<>> /\ job.page > 0
         /\ job' \in Job /\ UNCHANGED <<job.cmd, job.since, job.todo, job.sections, job.page>>
         /\ job'.got = Taken(newer) /\ job'.pc = "compute"
  <1>1. /\ UNCHANGED <<world, known>> /\ job.pc = "read" /\ job.cmd = "substack" /\ job.todo # <<>>
        /\ job' = [job EXCEPT !.got = Taken(newer), !.pc = "compute"]
    BY DEF ReadFeed, Newer, Taken
  <1>2. s \in Sources /\ job.page > 0
    BY <1>1, HeadOfTodo DEF Typed, Phase
  <1>3. Taken(newer) \in Seq(Events)
    BY <1>2, FeedRead
  <1>4. /\ job' \in Job /\ UNCHANGED <<job.cmd, job.since, job.todo, job.sections, job.page>>
        /\ job'.got = Taken(newer) /\ job'.pc = "compute"
    BY <1>1, <1>3 DEF Typed, TypeOK, Job
  <1> QED
    BY <1>1, <1>2, <1>4

LEMMA SkippedStep ==
  ASSUME Typed, FeedSkipped, NEW s, s = Head(job.todo)
  PROVE  /\ UNCHANGED world /\ s \in Sources
         /\ job.pc = "read" /\ job.cmd = "substack" /\ job.todo # <<>> /\ job.page > 0
         /\ job' \in Job /\ UNCHANGED <<job.cmd, job.since, job.todo, job.sections, job.page, job.got>>
         /\ job'.pc = "compute" /\ known' = {e \in known : SourceOf[e] # s}
  <1>1. /\ UNCHANGED world /\ job.pc = "read" /\ job.cmd = "substack" /\ job.todo # <<>>
        /\ job' = [job EXCEPT !.pc = "compute"] /\ known' = {e \in known : SourceOf[e] # s}
    BY DEF FeedSkipped
  <1>2. s \in Sources /\ job.page > 0
    BY <1>1, HeadOfTodo DEF Typed, Phase
  <1>3. /\ job' \in Job /\ UNCHANGED <<job.cmd, job.since, job.todo, job.sections, job.page, job.got>>
        /\ job'.pc = "compute"
    BY <1>1 DEF Typed, TypeOK, Job
  <1> QED
    BY <1>1, <1>2, <1>3

LEMMA ComputeStep ==
  ASSUME Typed, Compute, NEW s, s = Head(job.todo), NEW items, items = Only(job.got, Signal)
  PROVE  /\ UNCHANGED <<world, known>> /\ s \in Sources
         /\ job.pc = "compute" /\ job.todo # <<>>
         /\ job' \in Job /\ UNCHANGED <<job.cmd, job.since>> /\ job'.pc = "read" /\ job'.page = 1
         /\ job'.got = <<>> /\ job'.todo = Tail(job.todo)
         /\ items \in Seq(Events) /\ [source |-> s, items |-> items] \in Section
         /\ items = <<>> => job'.sections = job.sections
         /\ items # <<>> => job'.sections = Append(job.sections, [source |-> s, items |-> items])
  <1>1. /\ UNCHANGED <<world, known>> /\ job.pc = "compute"
        /\ job' = [job EXCEPT !.pc = "read", !.page = 1, !.got = <<>>, !.todo = Tail(@),
                              !.sections = IF items = <<>> THEN @
                                ELSE Append(@, [source |-> s, items |-> items])]
    BY DEF Compute
  <1>2. job.todo # <<>>
    BY <1>1 DEF Typed, Phase
  <1>3. s \in Sources /\ Tail(job.todo) \in Seq(Sources) /\ job.sections \in Seq(Section)
    BY <1>2, HeadOfTodo, Sequences DEF Typed
  <1>4. items \in Seq(Events) /\ [source |-> s, items |-> items] \in Section
    <2>1. Only(job.got, Signal) \in Seq(Events)
      BY OnlyKeeps, Sequences DEF Typed
    <2> QED
      BY <1>3, <2>1 DEF Section
  <1>5. Append(job.sections, [source |-> s, items |-> items]) \in Seq(Section)
    BY <1>3, <1>4, AppendProperties
  <1>6. /\ job' \in Job /\ UNCHANGED <<job.cmd, job.since>> /\ job'.pc = "read" /\ job'.page = 1
        /\ job'.got = <<>> /\ job'.todo = Tail(job.todo)
        /\ items = <<>> => job'.sections = job.sections
        /\ items # <<>> => job'.sections = Append(job.sections, [source |-> s, items |-> items])
    <2> DEFINE sections == IF items = <<>> THEN job.sections
                            ELSE Append(job.sections, [source |-> s, items |-> items])
    <2>1. sections \in Seq(Section)
      BY <1>3, <1>5
    <2>2. job' = [job EXCEPT !.pc = "read", !.page = 1, !.got = <<>>, !.todo = Tail(job.todo),
                             !.sections = sections]
      BY <1>1 DEF Typed, TypeOK, Job
    <2> HIDE DEF sections
    <2>3. /\ job' \in Job /\ UNCHANGED <<job.cmd, job.since>> /\ job'.pc = "read" /\ job'.page = 1
          /\ job'.got = <<>> /\ job'.todo = Tail(job.todo) /\ job'.sections = sections
      <3>1. job \in Job /\ Tail(job.todo) \in Seq(Sources) /\ <<>> \in Seq(Events)
        BY <1>3 DEF Typed, TypeOK
      <3>2. /\ UNCHANGED <<job.cmd, job.since>> /\ job'.pc = "read" /\ job'.page = 1
            /\ job'.got = <<>> /\ job'.todo = Tail(job.todo) /\ job'.sections = sections
        BY <2>2, <3>1, JobFields
      <3>3. job' \in Job
        BY <2>1, <2>2, <3>1, JobFields
      <3> QED
        BY <3>2, <3>3
    <2> QED
      BY <2>3 DEF sections
  <1> QED
    BY <1>1, <1>2, <1>3, <1>4, <1>6

LEMMA ListStep ==
  ASSUME Typed, List, NEW kind, kind = (IF job.cmd = "digest" THEN Users ELSE Publications),
         NEW listed, listed = Only(Listing, enabled \intersect kind)
  PROVE  /\ UNCHANGED world /\ job.pc = "list" /\ known' = UNION {ToSet(feed[s]) : s \in ToSet(listed)}
         /\ job' \in Job /\ UNCHANGED <<job.cmd, job.since, job.sections, job.got>>
         /\ job'.pc = "read" /\ job'.page = 1 /\ job'.todo = listed
         /\ listed \in Seq(Sources) /\ IsInjective(listed) /\ ToSet(listed) \subseteq Sources
  <1>1. /\ UNCHANGED world /\ job.pc = "list" /\ known' = UNION {ToSet(feed[s]) : s \in ToSet(listed)}
        /\ job' = [job EXCEPT !.pc = "read", !.todo = listed, !.page = 1]
    BY DEF List
  <1>2. listed \in Seq(Sources) /\ IsInjective(listed) /\ ToSet(listed) \subseteq Sources
    BY OnlyKeeps, Sets
  <1>3. /\ job' \in Job /\ UNCHANGED <<job.cmd, job.since, job.sections, job.got>>
        /\ job'.pc = "read" /\ job'.page = 1 /\ job'.todo = listed
    BY <1>1, <1>2 DEF Typed, TypeOK, Job
  <1> QED
    BY <1>1, <1>2, <1>3

LEMMA BeginStep ==
  ASSUME Typed, Begin
  PROVE  /\ UNCHANGED <<world, known>> /\ job.pc = "idle"
         /\ job' \in Job /\ job'.pc = "list" /\ job'.cmd \in {"digest", "substack"}
         /\ job'.sections = <<>> /\ job'.got = <<>> /\ job'.todo = <<>> /\ job'.page = 0
  <1>1. now \in Int /\ DayLength \in Nat \ {0} /\ now % DayLength \in Int
    BY Bounds DEF Typed, TypeOK
  <1>2. \A day : Midnight(day) \in Int
    BY <1>1 DEF Midnight
  <1>3. \A days \in Windows : now - days * DayLength \in Int
    BY <1>1, Bounds
  <1>4. NoJob \in Job
    BY DEF NoJob, Job
  <1>5. ASSUME NEW since \in Int, NEW cmd \in {"digest", "substack"},
               job' = [NoJob EXCEPT !.pc = "list", !.cmd = cmd, !.since = since]
        PROVE  /\ job' \in Job /\ job'.pc = "list" /\ job'.cmd \in {"digest", "substack"}
               /\ job'.sections = <<>> /\ job'.got = <<>> /\ job'.todo = <<>> /\ job'.page = 0
    <2>1. job' = [pc |-> "list", cmd |-> cmd, since |-> since, todo |-> <<>>, page |-> 0, got |-> <<>>,
                  sections |-> <<>>]
      BY <1>5 DEF NoJob
    <2> QED
      BY <2>1, JobFields
  <1>6. \E since \in Int, cmd \in {"digest", "substack"} :
          job' = [NoJob EXCEPT !.pc = "list", !.cmd = cmd, !.since = since]
    BY <1>2, <1>3 DEF Begin
  <1>7. UNCHANGED <<world, known>> /\ job.pc = "idle"
    BY DEF Begin
  <1> QED
    BY <1>5, <1>6, <1>7

LEMMA AllReadStep ==
  ASSUME Typed, AllRead
  PROVE  /\ UNCHANGED <<world, known>> /\ job.pc = "read" /\ job.todo = <<>>
         /\ job' \in Job /\ UNCHANGED <<job.cmd, job.since, job.todo, job.sections, job.got>>
         /\ job'.pc = "edit" /\ job'.page = 0
  BY DEF Typed, TypeOK, AllRead, Job

LEMMA EndsStep ==
  ASSUME Ends
  PROVE  /\ UNCHANGED world /\ known' = {} /\ job' \in Job /\ job'.pc = "idle"
         /\ job'.sections = <<>> /\ job'.got = <<>> /\ job'.todo = <<>> /\ job'.page = 0
  BY DEF Ends, NoJob, Job

-----------------------------------------------------------------------------
\* A step of the handler leaves the feeds alone: there is only its job to look at.
LEMMA HandlerTyped ==
  ASSUME Typed, UNCHANGED world, job' \in Job, job'.page \in 0 .. MaxPages,
         known' \subseteq known \/ \A e \in known' : e \in Events /\ e \in ToSet(feed[SourceOf[e]]),
         Phase'
  PROVE  Typed'
  <1>1. \A e \in known' : e \in Events /\ e \in ToSet(feed[SourceOf[e]])
    BY DEF Typed, TypeOK, FeedOK
  <1>2. TypeOK'
    BY <1>1 DEF Typed, TypeOK, world
  <1>3. FeedOK'
    BY <1>1 DEF Typed, FeedOK, world
  <1> QED
    BY <1>2, <1>3 DEF Typed

LEMMA TypedReadPage == Typed /\ ReadPage => Typed'
  <1> SUFFICES ASSUME Typed, ReadPage PROVE Typed'
    OBVIOUS
  <1> DEFINE s == Head(job.todo)
             p == PageOf(feed[s])
             r == Recent(p)
  <1>1. /\ UNCHANGED <<world, known>>
        /\ job.pc = "read" /\ job.cmd = "digest" /\ job.todo # <<>> /\ job.page > 0
        /\ job' \in Job /\ UNCHANGED <<job.cmd, job.since, job.todo, job.sections>>
        /\ LastPage(p, r) => job'.pc = "compute" /\ job'.page = job.page
        /\ ~LastPage(p, r) => job'.pc = "read" /\ job'.page = job.page + 1 /\ job.page < MaxPages
    BY ReadPageStep
  <1> HIDE DEF p, r, s
  <1>2. job.page \in Nat /\ job.page <= MaxPages /\ MaxPages \in Nat
    BY Sequences, Bounds DEF Typed
  <1>3. job'.page \in 0 .. MaxPages /\ job'.page > 0 /\ job'.pc \in {"read", "compute"}
    BY <1>1, <1>2
  <1>4. Phase'
    BY <1>1, <1>3 DEF Typed, Phase
  <1> QED
    BY <1>1, <1>3, <1>4, HandlerTyped

LEMMA TypedReadFeed == Typed /\ ReadFeed => Typed'
  <1> SUFFICES ASSUME Typed, ReadFeed PROVE Typed'
    OBVIOUS
  <1>1. /\ UNCHANGED <<world, known>> /\ job.cmd = "substack" /\ job.todo # <<>> /\ job.pc = "read"
        /\ job' \in Job /\ UNCHANGED <<job.cmd, job.todo, job.sections, job.page>> /\ job'.pc = "compute"
    BY ReadFeedStep
  <1>2. Phase'
    BY <1>1 DEF Typed, Phase
  <1>3. job'.page \in 0 .. MaxPages
    BY <1>1 DEF Typed, TypeOK
  <1> QED
    BY <1>1, <1>2, <1>3, HandlerTyped

LEMMA TypedSkipped == Typed /\ FeedSkipped => Typed'
  <1> SUFFICES ASSUME Typed, FeedSkipped PROVE Typed'
    OBVIOUS
  <1>1. /\ UNCHANGED world /\ job.cmd = "substack" /\ job.todo # <<>> /\ job.pc = "read"
        /\ job' \in Job /\ UNCHANGED <<job.cmd, job.todo, job.sections, job.page>> /\ job'.pc = "compute"
        /\ known' = {e \in known : SourceOf[e] # Head(job.todo)}
    BY SkippedStep
  <1>2. Phase'
    BY <1>1 DEF Typed, Phase
  <1>3. job'.page \in 0 .. MaxPages /\ known' \subseteq known
    BY <1>1 DEF Typed, TypeOK
  <1> QED
    BY <1>1, <1>2, <1>3, HandlerTyped

LEMMA TypedCompute == Typed /\ Compute => Typed'
  <1> SUFFICES ASSUME Typed, Compute PROVE Typed'
    OBVIOUS
  <1>1. /\ UNCHANGED <<world, known>> /\ job.pc = "compute" /\ job.todo # <<>>
        /\ job' \in Job /\ UNCHANGED job.cmd /\ job'.pc = "read" /\ job'.page = 1
        /\ job'.got = <<>> /\ job'.todo = Tail(job.todo)
    BY ComputeStep
  <1>2. IsInjective(job'.todo)
    BY <1>1, HeadOfTodo DEF Typed, Phase
  <1>3. Phase'
    BY <1>1, <1>2 DEF Typed, Phase
  <1>4. job'.page \in 0 .. MaxPages
    BY <1>1, Bounds
  <1> QED
    BY <1>1, <1>3, <1>4, HandlerTyped

LEMMA TypedList == Typed /\ List => Typed'
  <1> SUFFICES ASSUME Typed, List PROVE Typed'
    OBVIOUS
  <1> DEFINE kind   == IF job.cmd = "digest" THEN Users ELSE Publications
             listed == Only(Listing, enabled \intersect kind)
  <1>1. /\ UNCHANGED world /\ job.pc = "list" /\ known' = UNION {ToSet(feed[s]) : s \in ToSet(listed)}
        /\ job' \in Job /\ UNCHANGED <<job.cmd, job.since, job.sections, job.got>>
        /\ job'.pc = "read" /\ job'.page = 1 /\ job'.todo = listed
        /\ IsInjective(listed) /\ ToSet(listed) \subseteq Sources
    BY ListStep
  <1> HIDE DEF listed
  <1>2. Phase'
    BY <1>1 DEF Typed, Phase
  <1>3. job'.page \in 0 .. MaxPages
    BY <1>1, Bounds
  <1>4. ASSUME NEW s \in Sources, NEW e \in ToSet(feed[s]) PROVE e \in Events /\ e \in ToSet(feed[SourceOf[e]])
    <2>1. PICK n \in DOMAIN feed[s] : e = feed[s][n]
      BY <1>4 DEF ToSet
    <2> QED
      BY <2>1, Sequences DEF Typed, FeedOK
  <1>5. \A e \in known' : e \in Events /\ e \in ToSet(feed[SourceOf[e]])
    BY <1>1, <1>4
  <1> QED
    BY <1>1, <1>2, <1>3, <1>5, HandlerTyped

LEMMA TypedRest == Typed /\ (Begin \/ AllRead \/ Ends) => Typed'
  <1>1. ASSUME Typed, Begin PROVE Typed'
    <2>1. /\ UNCHANGED <<world, known>> /\ job' \in Job /\ job'.pc = "list" /\ job'.cmd \in {"digest", "substack"}
          /\ job'.sections = <<>> /\ job'.got = <<>> /\ job'.todo = <<>> /\ job'.page = 0
      BY <1>1, BeginStep
    <2>2. IsInjective(<<>>) /\ 0 \in 0 .. MaxPages
      BY Bounds DEF IsInjective
    <2>3. Phase'
      BY <2>1, <2>2 DEF Phase
    <2> QED
      BY <1>1, <2>1, <2>2, <2>3, HandlerTyped
  <1>2. ASSUME Typed, AllRead PROVE Typed'
    <2>1. /\ UNCHANGED <<world, known>> /\ job.pc = "read" /\ job.todo = <<>>
          /\ job' \in Job /\ UNCHANGED <<job.cmd, job.since, job.todo, job.sections, job.got>>
          /\ job'.pc = "edit" /\ job'.page = 0
      BY <1>2, AllReadStep
    <2>2. 0 \in 0 .. MaxPages
      BY Bounds
    <2>3. Phase'
      BY <1>2, <2>1 DEF Typed, Phase
    <2> QED
      BY <1>2, <2>1, <2>2, <2>3, HandlerTyped
  <1>3. ASSUME Typed, Ends PROVE Typed'
    <2>1. /\ UNCHANGED world /\ known' = {} /\ job' \in Job /\ job'.pc = "idle"
          /\ job'.sections = <<>> /\ job'.got = <<>> /\ job'.todo = <<>> /\ job'.page = 0
      BY <1>3, EndsStep
    <2>2. IsInjective(<<>>) /\ 0 \in 0 .. MaxPages
      BY Bounds DEF IsInjective
    <2>3. Phase'
      BY <2>1, <2>2 DEF Phase
    <2> QED
      BY <1>3, <2>1, <2>2, <2>3, HandlerTyped
  <1> QED
    BY <1>1, <1>2, <1>3

LEMMA TypedNext == Typed /\ [Next]_vars => Typed'
  <1> SUFFICES ASSUME Typed, [Next]_vars PROVE Typed'
    OBVIOUS
  <1>1. CASE UNCHANGED vars
    BY <1>1 DEF Typed, TypeOK, FeedOK, Phase, vars, world
  <1>2. CASE \E e \in Events : Appear(e)
    BY <1>2, TypedAppear
  <1>3. CASE \E s \in Sources : Toggle(s)
    BY <1>3, TypedToggle
  <1>4. CASE \E u \in Users : DeleteAccount(u)
    BY <1>4, TypedDelete
  <1>5. CASE Tick
    BY <1>5, TypedTick
  <1>6. CASE Handler
    BY <1>6, TypedRest, TypedList, TypedReadPage, TypedReadFeed, TypedSkipped, TypedCompute DEF Handler
  <1> QED
    BY <1>1, <1>2, <1>3, <1>4, <1>5, <1>6 DEF Next

\* Feeds, documents and the handler are what Typed says, in every state.
THEOREM TypesHold == Spec => []Typed
  <1>1. Init => Typed
    BY TypedInit
  <1>2. Typed /\ [Next]_vars => Typed'
    BY TypedNext
  <1> QED
    BY <1>1, <1>2, PTL DEF Spec

\* Feeds hold each event once, newest first, and the handler reads no page beyond
\* max_pages.
THEOREM TypeCorrect == Spec => []TypeOK
  <1>1. Typed => TypeOK
    BY DEF Typed
  <1> QED
    BY <1>1, TypesHold, PTL

-----------------------------------------------------------------------------
(***************************************************************************)
(* Nothing is made up.  A page that is read after the feed grew begins     *)
(* with events that were on the page before it; an event that was got and  *)
(* is still to come again is so far down the feed as events came late.     *)
(***************************************************************************)
Late(s) == ToSet(feed[s]) \ known

Honest(e, s) == e \in ToSet(feed[s]) /\ dated[e] >= job.since

Genuine(items, s) ==
  \A e \in ToSet(items) : Honest(e, s) /\ Copies(e, items) <= 1 + Cardinality(Late(s))

OneSection ==
  /\ \A n \in DOMAIN job.sections : job.sections[n].source \notin ToSet(job.todo)
  /\ \A m, n \in DOMAIN job.sections : job.sections[m].source = job.sections[n].source => m = n

Shifted(items, s) ==
  \A n \in DOMAIN feed[s] : feed[s][n] \in ToSet(items) =>
    n + Copies(feed[s][n], items) <= 1 + (job.page - 1) * PageSize + Cardinality(Late(s))

Reading ==
  job.todo # <<>> =>
    /\ Genuine(job.got, Head(job.todo))
    /\ job.pc = "read" => Shifted(job.got, Head(job.todo))

Sections ==
  \A n \in DOMAIN job.sections : Genuine(job.sections[n].items, job.sections[n].source)

Honesty == OneSection /\ Reading /\ Sections

-----------------------------------------------------------------------------
\* Feeds are finite, and so is what came late.
LEMMA LateFinite ==
  ASSUME TypeOK, NEW s \in Sources
  PROVE  IsFiniteSet(ToSet(feed[s])) /\ IsFiniteSet(Late(s)) /\ Cardinality(Late(s)) \in Nat
  <1> DEFINE f == feed[s]
             k == Len(f)
  <1>1. k \in Nat /\ DOMAIN f = 1 .. k /\ f \in Seq(Events)
    BY Sequences
  <1>2. f \in [1 .. k -> ToSet(f)] /\ \A t \in ToSet(f) : \E i \in 1 .. k : f[i] = t
    <2>1. f \in [1 .. k -> Events]
      BY <1>1, LenProperties
    <2> HIDE DEF f, k
    <2> QED
      BY <1>1, <2>1 DEF ToSet
  <1> HIDE DEF f, k
  <1>3. f \in Surjection(1 .. k, ToSet(f))
    BY <1>2 DEF Surjection
  <1>4. IsFiniteSet(1 .. k)
    BY <1>1, FS_Interval
  <1>5. IsFiniteSet(ToSet(f))
    BY <1>3, <1>4, FS_Surjection
  <1>6. Late(s) \in SUBSET ToSet(f)
    BY DEF Late, f
  <1>7. IsFiniteSet(Late(s)) /\ Cardinality(Late(s)) \in Nat
    BY <1>5, <1>6, Part
  <1> QED
    BY <1>5, <1>7 DEF f

\* The sections of a handler.
LEMMA SectionsTyped ==
  ASSUME TypeOK, NEW n \in DOMAIN job.sections
  PROVE  job.sections[n] \in Section /\ job.sections[n].source \in Sources /\ job.sections[n].items \in Seq(Events)
  <1>1. job.sections \in Seq(Section)
    BY Sequences
  <1>2. job.sections[n] \in Section
    BY <1>1, LenProperties, ElementOfSeq
  <1> QED
    BY <1>2 DEF Section

\* What comes late to a feed.
LEMMA LateGrows ==
  ASSUME Typed, NEW e \in Events, Appear(e), NEW s \in Sources
  PROVE  /\ Cardinality(Late(s)) \in Nat
         /\ Cardinality(Late(s)') = Cardinality(Late(s)) + (IF s = SourceOf[e] THEN 1 ELSE 0)
  <1>1. IsFiniteSet(Late(s)) /\ Cardinality(Late(s)) \in Nat
    BY LateFinite DEF Typed
  <1>2. known' = known
    BY DEF Appear
  <1>3. CASE s = SourceOf[e]
    <2>1. ToSet(feed'[SourceOf[e]]) = ToSet(feed[SourceOf[e]]) \union {e}
      BY FeedGrows
    <2>2. e \notin known /\ e \notin ToSet(feed[s])
      BY FeedGrows
    <2>3. Late(s)' = Late(s) \union {e} /\ e \notin Late(s)
      BY <1>2, <1>3, <2>1, <2>2 DEF Late
    <2>4. Cardinality(Late(s) \union {e}) = Cardinality(Late(s)) + 1
      BY <1>1, <2>3, FS_AddElement
    <2> QED
      BY <1>1, <1>3, <2>3, <2>4
  <1>4. CASE s # SourceOf[e]
    <2>1. \A x \in Sources : x # SourceOf[e] => feed'[x] = feed[x]
      BY FeedGrows
    <2>2. Late(s)' = Late(s)
      BY <1>2, <1>4, <2>1 DEF Late
    <2> QED
      BY <1>1, <1>4, <2>2
  <1> QED
    BY <1>3, <1>4

\* An event that appears takes nothing from what is genuine.
LEMMA GenuineAppear ==
  ASSUME Typed, NEW e \in Events, Appear(e), NEW s \in Sources, NEW items \in Seq(Events), Genuine(items, s)
  PROVE  /\ \A d \in ToSet(items) : Honest(d, s)' /\ Copies(d, items) <= 1 + Cardinality(Late(s)')
         /\ e \notin ToSet(items)
  <1>1. /\ Cardinality(Late(s)) \in Nat
        /\ Cardinality(Late(s)') = Cardinality(Late(s)) + (IF s = SourceOf[e] THEN 1 ELSE 0)
    BY LateGrows
  <1>2. Cardinality(Late(s)') \in Nat /\ Cardinality(Late(s)) <= Cardinality(Late(s)')
    BY <1>1
  <1>3. e \notin ToSet(feed[s]) /\ ToSet(feed[s]) \subseteq ToSet(feed'[s])
    <2>1. \A x \in Sources : x # SourceOf[e] => feed'[x] = feed[x]
      BY FeedGrows
    <2>2. ToSet(feed'[SourceOf[e]]) = ToSet(feed[SourceOf[e]]) \union {e}
      BY FeedGrows
    <2>3. \A x \in Sources : e \notin ToSet(feed[x])
      BY FeedGrows
    <2> QED
      BY <2>1, <2>2, <2>3
  <1>4. \A d \in Events : d # e => dated'[d] = dated[d]
    BY FeedGrows
  <1>5. ASSUME NEW d \in ToSet(items) PROVE Honest(d, s)' /\ d # e /\ Copies(d, items) <= 1 + Cardinality(Late(s)')
    <2>1. Honest(d, s) /\ Copies(d, items) <= 1 + Cardinality(Late(s))
      BY DEF Genuine
    <2>2. d \in Events /\ Copies(d, items) \in Nat
      <3>1. \A n \in DOMAIN items : items[n] \in Events
        BY LenProperties, ElementOfSeq
      <3> QED
        BY <3>1, Counted DEF ToSet
    <2>3. d # e /\ d \in ToSet(feed'[s])
      BY <1>3, <2>1 DEF Honest
    <2>4. dated'[d] = dated[d] /\ job'.since = job.since
      BY <1>4, <2>2, <2>3 DEF Appear
    <2>5. Honest(d, s)'
      BY <2>1, <2>3, <2>4 DEF Honest
    <2> QED
      BY <1>1, <1>2, <2>1, <2>2, <2>3, <2>5
  <1> QED
    BY <1>5

\* It moves the feed down by one, and is one more that came late.
LEMMA ShiftedAppear ==
  ASSUME Typed, NEW e \in Events, Appear(e), NEW s \in Sources, NEW items \in Seq(Events),
         e \notin ToSet(items), Shifted(items, s), job.page > 0
  PROVE  \A n \in DOMAIN feed'[s] : feed'[s][n] \in ToSet(items) =>
           n + Copies(feed'[s][n], items) <= 1 + (job.page - 1) * PageSize + Cardinality(Late(s)')
  <1> SUFFICES ASSUME NEW n \in DOMAIN feed'[s], feed'[s][n] \in ToSet(items)
               PROVE  n + Copies(feed'[s][n], items) <= 1 + (job.page - 1) * PageSize + Cardinality(Late(s)')
    OBVIOUS
  <1> DEFINE m == Was(n, s, SourceOf[e])
             lo == (job.page - 1) * PageSize
             x == feed'[s][n]
             c == Copies(x, items)
             l == Cardinality(Late(s))
             l2 == Cardinality(Late(s)')
  <1>1. \A q \in DOMAIN feed'[s] :
          \/ q = 1 /\ s = SourceOf[e] /\ feed'[s][q] = e
          \/ /\ Was(q, s, SourceOf[e]) \in DOMAIN feed[s]
             /\ feed'[s][q] = feed[s][Was(q, s, SourceOf[e])] /\ feed'[s][q] # e
    BY FeedGrows
  <1>2. m \in DOMAIN feed[s] /\ x = feed[s][m]
    BY <1>1
  <1>3. l \in Nat /\ l2 = l + (IF s = SourceOf[e] THEN 1 ELSE 0)
    BY LateGrows
  <1>4. c \in Nat
    BY Counted
  <1>5. lo \in Int
    BY Sequences, Bounds DEF Typed
  <1>6. m \in Nat /\ n = m + (IF s = SourceOf[e] THEN 1 ELSE 0)
    <2>1. feed' \in [Sources -> Seq(Events)]
      BY FeedGrows
    <2>2. n \in Nat
      BY <2>1, LenProperties
    <2>3. m \in Nat
      BY <1>2, Sequences DEF Typed
    <2> QED
      BY <2>2, <2>3 DEF Was
  <1>7. m + c <= 1 + lo + l
    BY <1>2 DEF Shifted
  <1> HIDE DEF m, lo, c, l, l2
  <1>8. n + c <= 1 + lo + l2
    BY <1>3, <1>4, <1>5, <1>6, <1>7
  <1> QED
    BY <1>8 DEF lo, c, l2

\* A feed that grows under the handler.
LEMMA HonestyAppear ==
  ASSUME Typed, Honesty, NEW e \in Events, Appear(e)
  PROVE  Honesty'
  <1>0. job' = job /\ known' = known
    BY DEF Appear
  <1>1. OneSection'
    BY <1>0 DEF Honesty, OneSection
  <1>a. ASSUME NEW s \in Sources, NEW items \in Seq(Events), Genuine(items, s)
        PROVE  /\ \A d \in ToSet(items) : /\ d \in ToSet(feed'[s]) /\ dated'[d] >= job.since
                                          /\ Copies(d, items) <= 1 + Cardinality(ToSet(feed'[s]) \ known)
               /\ e \notin ToSet(items)
    <2>1. /\ \A d \in ToSet(items) : Honest(d, s)' /\ Copies(d, items) <= 1 + Cardinality(Late(s)')
          /\ e \notin ToSet(items)
      BY <1>a, GenuineAppear
    <2> QED
      BY <1>0, <2>1 DEF Honest, Late
  <1>b. ASSUME NEW s \in Sources, NEW items \in Seq(Events), Genuine(items, s), Shifted(items, s), job.page > 0
        PROVE  \A n \in DOMAIN feed'[s] : feed'[s][n] \in ToSet(items) =>
                 n + Copies(feed'[s][n], items) <= 1 + (job.page - 1) * PageSize + Cardinality(ToSet(feed'[s]) \ known)
    <2>1. e \notin ToSet(items)
      BY <1>a, <1>b
    <2>2. \A n \in DOMAIN feed'[s] : feed'[s][n] \in ToSet(items) =>
            n + Copies(feed'[s][n], items) <= 1 + (job.page - 1) * PageSize + Cardinality(Late(s)')
      BY <1>b, <2>1, ShiftedAppear
    <2> QED
      BY <1>0, <2>2 DEF Late
  <1>2. ASSUME job.todo # <<>>
        PROVE  Genuine(job.got, Head(job.todo))' /\ (job.pc = "read" => Shifted(job.got, Head(job.todo))')
    <2> DEFINE s == Head(job.todo)
    <2>1. s \in Sources /\ job.got \in Seq(Events)
      BY <1>2, HeadOfTodo, Sequences DEF Typed
    <2>2. Genuine(job.got, s) /\ (job.pc = "read" => Shifted(job.got, s) /\ job.page > 0)
      BY <1>2 DEF Honesty, Reading, Typed, Phase
    <2>3. \A d \in ToSet(job.got) : /\ d \in ToSet(feed'[s]) /\ dated'[d] >= job.since
                                    /\ Copies(d, job.got) <= 1 + Cardinality(ToSet(feed'[s]) \ known)
      BY <1>a, <2>1, <2>2
    <2>4. job.pc = "read" =>
            \A n \in DOMAIN feed'[s] : feed'[s][n] \in ToSet(job.got) =>
              n + Copies(feed'[s][n], job.got) <=
                1 + (job.page - 1) * PageSize + Cardinality(ToSet(feed'[s]) \ known)
      BY <1>b, <2>1, <2>2
    <2>5. Genuine(job.got, Head(job.todo))'
      BY <1>0, <2>3 DEF Genuine, Honest, Late
    <2>6. job.pc = "read" => Shifted(job.got, Head(job.todo))'
      BY <1>0, <2>4 DEF Shifted, Late
    <2> QED
      BY <2>5, <2>6
  <1>3. ASSUME NEW n \in DOMAIN job.sections
        PROVE  Genuine(job.sections[n].items, job.sections[n].source)'
    <2> DEFINE s == job.sections[n].source
               items == job.sections[n].items
    <2>1. s \in Sources /\ items \in Seq(Events)
      BY SectionsTyped DEF Typed
    <2>2. Genuine(items, s)
      BY DEF Honesty, Sections
    <2>3. \A d \in ToSet(items) : /\ d \in ToSet(feed'[s]) /\ dated'[d] >= job.since
                                  /\ Copies(d, items) <= 1 + Cardinality(ToSet(feed'[s]) \ known)
      BY <1>a, <2>1, <2>2
    <2> QED
      BY <1>0, <2>3 DEF Genuine, Honest, Late
  <1>4. Reading' /\ Sections'
    BY <1>0, <1>2, <1>3 DEF Reading, Sections
  <1> QED
    BY <1>1, <1>4 DEF Honesty

\* What was got stays genuine, and shifted no further, when a page is added.
LEMMA GenuineRead ==
  ASSUME Typed, NEW s \in Sources, job.page > 0, NEW f, f = feed[s], NEW p, p = PageOf(f),
         NEW r, r = Recent(p), NEW got \in Seq(Events), Genuine(got, s), Shifted(got, s)
  PROVE  /\ Genuine(got \o r, s)
         /\ \A n \in DOMAIN f : f[n] \in ToSet(got \o r) =>
              n + Copies(f[n], got \o r) <= 1 + job.page * PageSize + Cardinality(Late(s))
  <1> DEFINE lo == (job.page - 1) * PageSize
             hi == job.page * PageSize
             l == Cardinality(Late(s))
             all == got \o r
  <1>1. /\ lo \in Nat /\ hi = lo + PageSize /\ r \in Seq(Events) /\ IsInjective(r)
        /\ \A i \in DOMAIN r : lo + i \in DOMAIN f /\ r[i] = f[lo + i] /\ i <= PageSize
                              /\ dated[r[i]] >= job.since
    BY PageRead
  <1>2. l \in Nat /\ PageSize \in Nat \ {0}
    BY LateFinite, Bounds DEF Typed
  <1>3. ToSet(all) = ToSet(got) \union ToSet(r)
    BY <1>1, InConcat
  <1>4. ASSUME NEW d
        PROVE  /\ Copies(d, all) \in Nat /\ Copies(d, got) \in Nat
               /\ d \in ToSet(r) => Copies(d, all) <= Copies(d, got) + 1
               /\ d \notin ToSet(r) => Copies(d, all) <= Copies(d, got)
               /\ d \notin ToSet(got) => Copies(d, got) = 0
    BY <1>1, CopiesJoin, Counted
  <1>5. /\ \A d \in ToSet(got) : Honest(d, s) /\ Copies(d, got) <= 1 + l
        /\ \A n \in DOMAIN f : f[n] \in ToSet(got) => n + Copies(f[n], got) <= 1 + lo + l
    BY DEF Genuine, Shifted
  <1>6. \A i \in DOMAIN r : i \in Nat /\ i >= 1
    <2>1. DOMAIN r = 1 .. Len(r) /\ Len(r) \in Nat
      BY <1>1, LenProperties
    <2> QED
      BY <2>1
  <1>7. IsInjective(f) /\ \A n \in DOMAIN f : n \in Nat
    BY Sequences DEF Typed, TypeOK
  <1> HIDE DEF lo, hi, l, all
  <1>8. ASSUME NEW d \in ToSet(r)
        PROVE  \E i \in DOMAIN r : d = r[i] /\ lo + i \in DOMAIN f /\ d = f[lo + i] /\ i <= PageSize
    BY <1>1 DEF ToSet
  <1>9. ASSUME NEW d \in ToSet(all) PROVE Honest(d, s) /\ Copies(d, all) <= 1 + l
    <2>1. CASE d \notin ToSet(r)
      BY <1>2, <1>3, <1>4, <1>5, <2>1
    <2>2. CASE d \in ToSet(r)
      <3>1. PICK i \in DOMAIN r : d = r[i] /\ lo + i \in DOMAIN f /\ d = f[lo + i] /\ i <= PageSize
        BY <1>8, <2>2
      <3>2. Honest(d, s)
        BY <1>1, <3>1 DEF Honest, ToSet
      <3>3. CASE d \notin ToSet(got)
        BY <1>2, <1>4, <2>2, <3>2, <3>3
      <3>4. CASE d \in ToSet(got)
        <4>1. (lo + i) + Copies(d, got) <= 1 + lo + l /\ i \in Nat /\ i >= 1
          BY <1>5, <1>6, <3>1, <3>4
        <4>2. Copies(d, all) <= Copies(d, got) + 1 /\ Copies(d, got) \in Nat /\ Copies(d, all) \in Nat
          BY <1>4, <2>2
        <4>3. lo \in Nat
          BY <1>1
        <4>4. Copies(d, all) <= 1 + l
          BY <1>2, <4>1, <4>2, <4>3
        <4> QED
          BY <3>2, <4>4
      <3> QED
        BY <3>3, <3>4
    <2> QED
      BY <2>1, <2>2
  <1>10. ASSUME NEW n \in DOMAIN f, f[n] \in ToSet(all) PROVE n + Copies(f[n], all) <= 1 + hi + l
    <2> DEFINE d == f[n]
    <2>0. lo \in Nat /\ hi = lo + PageSize /\ n \in Nat
      BY <1>1, <1>7
    <2> HIDE DEF d
    <2>1. CASE d \in ToSet(got)
      <3>1. n + Copies(d, got) <= 1 + lo + l
        BY <1>5, <2>1 DEF d
      <3>2. Copies(d, all) <= Copies(d, got) + 1 /\ Copies(d, got) \in Nat /\ Copies(d, all) \in Nat
        <4>1. Copies(d, all) \in Nat /\ Copies(d, got) \in Nat
          BY <1>4
        <4>2. Copies(d, all) <= Copies(d, got) + 1 \/ Copies(d, all) <= Copies(d, got)
          BY <1>4
        <4> QED
          BY <4>1, <4>2
      <3>3. n + Copies(d, all) <= 1 + hi + l
        BY SMTT(30), <1>2, <2>0, <3>1, <3>2
      <3> QED
        BY <3>3 DEF d
    <2>2. CASE d \notin ToSet(got)
      <3>1. d \in ToSet(r)
        BY <1>3, <1>10, <2>2 DEF d
      <3>2. PICK i \in DOMAIN r : lo + i \in DOMAIN f /\ d = f[lo + i] /\ i <= PageSize
        BY <1>8, <3>1
      <3>3. n = lo + i /\ i \in Nat
        BY <1>6, <1>7, <3>2 DEF IsInjective, d
      <3>4. Copies(d, all) <= 1 /\ Copies(d, all) \in Nat
        BY <1>4, <2>2, <3>1
      <3>5. n + Copies(d, all) <= 1 + hi + l
        BY <1>2, <2>0, <3>2, <3>3, <3>4
      <3> QED
        BY <3>5 DEF d
    <2> QED
      BY <2>1, <2>2
  <1>11. Genuine(all, s)
    BY <1>9 DEF Genuine, l
  <1> QED
    BY <1>10, <1>11 DEF all, hi, l

LEMMA SectionsStay ==
  ASSUME Honesty, UNCHANGED <<feed, dated, known, job.since, job.sections>>
  PROVE  Sections'
  BY DEF Honesty, Sections, Genuine, Honest, Late

\* A page of a user's events is read.
LEMMA HonestyReadPage == Typed /\ Honesty /\ ReadPage => Honesty'
  <1> SUFFICES ASSUME Typed, Honesty, ReadPage PROVE Honesty'
    OBVIOUS
  <1> DEFINE s == Head(job.todo)
             p == PageOf(feed[s])
             r == Recent(p)
  <1>1. /\ UNCHANGED <<world, known>> /\ s \in Sources
        /\ job.pc = "read" /\ job.todo # <<>> /\ job.page > 0
        /\ UNCHANGED <<job.since, job.todo, job.sections>>
        /\ job'.got = job.got \o r
        /\ LastPage(p, r) => job'.pc = "compute" /\ job'.page = job.page
        /\ ~LastPage(p, r) => job'.pc = "read" /\ job'.page = job.page + 1
    BY ReadPageStep
  <1>2. job.got \in Seq(Events) /\ Genuine(job.got, s) /\ Shifted(job.got, s) /\ job.page \in Nat
    BY <1>1, Sequences DEF Honesty, Reading, Typed
  <1>3. /\ Genuine(job.got \o r, s)
        /\ \A n \in DOMAIN feed[s] : feed[s][n] \in ToSet(job.got \o r) =>
             n + Copies(feed[s][n], job.got \o r) <= 1 + job.page * PageSize + Cardinality(Late(s))
    <2>1. \A q, x : q = PageOf(feed[s]) /\ x = Recent(q) =>
            /\ Genuine(job.got \o x, s)
            /\ \A n \in DOMAIN feed[s] : feed[s][n] \in ToSet(job.got \o x) =>
                 n + Copies(feed[s][n], job.got \o x) <= 1 + job.page * PageSize + Cardinality(Late(s))
      BY <1>1, <1>2, GenuineRead
    <2> QED
      BY <2>1
  <1> HIDE DEF p, r
  <1>4. UNCHANGED <<feed, dated, known, job.since, job.sections, job.todo>>
    BY <1>1 DEF world
  <1>5. Genuine(job.got, Head(job.todo))'
    BY <1>1, <1>3, <1>4 DEF Genuine, Honest, Late
  <1>6. ASSUME job'.pc = "read" PROVE Shifted(job.got, Head(job.todo))'
    <2>1. job'.page = job.page + 1 /\ (job.page + 1) - 1 = job.page
      BY <1>1, <1>2, <1>6
    <2>2. job'.page - 1 = job.page
      BY <2>1
    <2> QED
      BY <1>1, <1>3, <1>4, <2>2 DEF Shifted, Late
  <1>7. OneSection'
    BY <1>4 DEF Honesty, OneSection
  <1>8. Sections'
    BY <1>4, SectionsStay
  <1> QED
    BY <1>5, <1>6, <1>7, <1>8 DEF Honesty, Reading

\* The posts of a publication are read, each once.
LEMMA HonestyReadFeed == Typed /\ Honesty /\ ReadFeed => Honesty'
  <1> SUFFICES ASSUME Typed, Honesty, ReadFeed PROVE Honesty'
    OBVIOUS
  <1> DEFINE s == Head(job.todo)
             newer == Newer(feed[s])
             g == Taken(newer)
  <1>1. /\ UNCHANGED <<world, known>> /\ s \in Sources /\ job.todo # <<>>
        /\ UNCHANGED <<job.since, job.todo, job.sections>> /\ job'.got = g /\ job'.pc = "compute"
    BY ReadFeedStep
  <1>2. /\ g \in Seq(Events) /\ IsInjective(g)
        /\ \A e \in ToSet(g) : e \in ToSet(feed[s]) /\ dated[e] > job.since
    BY <1>1, FeedRead
  <1> HIDE DEF g, newer
  <1>3. Cardinality(Late(s)) \in Nat /\ job.since \in Int
    BY <1>1, LateFinite, Sequences DEF Typed
  <1>4. ASSUME NEW e \in ToSet(g) PROVE Honest(e, s) /\ Copies(e, g) <= 1 + Cardinality(Late(s))
    <2>1. Copies(e, g) \in Nat /\ Copies(e, g) <= 1
      BY <1>2, Counted
    <2>2. dated[e] \in Int
      <3>1. \A n \in DOMAIN g : g[n] \in Events
        BY <1>2, LenProperties, ElementOfSeq
      <3>2. e \in Events
        BY <3>1 DEF ToSet
      <3>3. PICK n \in 1 .. Len(feed[s]) : e = feed[s][n]
        BY <1>1, <1>2, Sequences DEF Typed, ToSet
      <3>4. dated[e] # None
        BY <1>1, <3>3 DEF Typed, TypeOK
      <3> QED
        BY <3>2, <3>4, Bounds DEF Typed, TypeOK
    <2>3. dated[e] >= job.since
      BY <1>2, <1>3, <2>2
    <2>4. e \in ToSet(feed[s])
      BY <1>2
    <2> QED
      BY <1>3, <2>1, <2>3, <2>4 DEF Honest
  <1>5. UNCHANGED <<feed, dated, known, job.since, job.sections, job.todo>>
    BY <1>1 DEF world
  <1>6. Genuine(job.got, Head(job.todo))'
    BY <1>1, <1>4, <1>5 DEF Genuine, Honest, Late
  <1>7. OneSection'
    BY <1>5 DEF Honesty, OneSection
  <1>8. Sections'
    BY <1>5, SectionsStay
  <1> QED
    BY <1>1, <1>6, <1>7, <1>8 DEF Honesty, Reading

\* A feed that cannot be read leaves more that may have come late.
LEMMA HonestySkipped == Typed /\ Honesty /\ FeedSkipped => Honesty'
  <1> SUFFICES ASSUME Typed, Honesty, FeedSkipped PROVE Honesty'
    OBVIOUS
  <1>1. /\ UNCHANGED world /\ Head(job.todo) \in Sources /\ job.todo # <<>>
        /\ UNCHANGED <<job.since, job.todo, job.sections, job.got>>
        /\ job'.pc = "compute" /\ known' = {e \in known : SourceOf[e] # Head(job.todo)}
    BY SkippedStep
  <1>2. UNCHANGED <<feed, dated>> /\ known' \subseteq known
    BY <1>1 DEF world
  <1>3. ASSUME NEW s \in Sources, NEW items \in Seq(Events), Genuine(items, s)
        PROVE  \A d \in ToSet(items) : /\ d \in ToSet(feed[s]) /\ dated[d] >= job.since
                                       /\ Copies(d, items) <= 1 + Cardinality(ToSet(feed[s]) \ known')
    <2>1. IsFiniteSet(ToSet(feed[s]) \ known') /\ Cardinality(Late(s)) <= Cardinality(ToSet(feed[s]) \ known')
          /\ Cardinality(ToSet(feed[s]) \ known') \in Nat /\ Cardinality(Late(s)) \in Nat
      <3>1. IsFiniteSet(ToSet(feed[s])) /\ ToSet(feed[s]) \ known' \in SUBSET ToSet(feed[s])
        BY LateFinite DEF Typed
      <3>2. IsFiniteSet(ToSet(feed[s]) \ known')
        BY <3>1, Part
      <3>3. Late(s) \in SUBSET (ToSet(feed[s]) \ known')
        BY <1>2 DEF Late
      <3> QED
        BY <3>2, <3>3, Part
    <2>2. \A d : Copies(d, items) \in Nat
      BY Counted
    <2> QED
      BY <1>3, <2>1, <2>2 DEF Genuine, Honest
  <1>4. Genuine(job.got, Head(job.todo))'
    <2>1. job.got \in Seq(Events) /\ Genuine(job.got, Head(job.todo))
      BY <1>1, Sequences DEF Typed, Honesty, Reading
    <2>2. \A d \in ToSet(job.got) : /\ d \in ToSet(feed[Head(job.todo)]) /\ dated[d] >= job.since
            /\ Copies(d, job.got) <= 1 + Cardinality(ToSet(feed[Head(job.todo)]) \ known')
      BY <1>1, <1>3, <2>1
    <2> QED
      BY <1>1, <1>2, <2>2 DEF Genuine, Honest, Late
  <1>5. ASSUME NEW n \in DOMAIN job.sections
        PROVE  Genuine(job.sections[n].items, job.sections[n].source)'
    <2> DEFINE s == job.sections[n].source
               items == job.sections[n].items
    <2>1. s \in Sources /\ items \in Seq(Events) /\ Genuine(items, s)
      BY SectionsTyped DEF Typed, Honesty, Sections
    <2>2. \A d \in ToSet(items) : /\ d \in ToSet(feed[s]) /\ dated[d] >= job.since
            /\ Copies(d, items) <= 1 + Cardinality(ToSet(feed[s]) \ known')
      BY <1>3, <2>1
    <2> QED
      BY <1>1, <1>2, <2>2 DEF Genuine, Honest, Late
  <1>6. OneSection'
    BY <1>1 DEF Honesty, OneSection
  <1> QED
    BY <1>1, <1>4, <1>5, <1>6 DEF Honesty, Reading, Sections

\* The sections after a source was read.
LEMMA OneMoreSection ==
  ASSUME Typed, Compute, NEW s, s = Head(job.todo), NEW items, items = Only(job.got, Signal)
  PROVE  \A n \in DOMAIN job'.sections :
           \/ n \in DOMAIN job.sections /\ job'.sections[n] = job.sections[n]
           \/ /\ n = Len(job.sections) + 1 /\ items # <<>>
              /\ job'.sections[n] = [source |-> s, items |-> items]
  <1>1. /\ [source |-> s, items |-> items] \in Section
        /\ items = <<>> => job'.sections = job.sections
        /\ items # <<>> => job'.sections = Append(job.sections, [source |-> s, items |-> items])
    BY ComputeStep
  <1> DEFINE q == job.sections
             x == [source |-> s, items |-> items]
  <1>2. q \in Seq(Section) /\ Len(q) \in Nat /\ DOMAIN q = 1 .. Len(q) /\ x \in Section
    BY <1>1, Sequences, LenProperties DEF Typed
  <1> HIDE DEF q, x
  <1>3. /\ Append(q, x) \in Seq(Section) /\ Len(Append(q, x)) = Len(q) + 1
        /\ \A i \in 1 .. Len(q) : Append(q, x)[i] = q[i]
        /\ Append(q, x)[Len(q) + 1] = x
    BY <1>2, AppendProperties
  <1>4. DOMAIN Append(q, x) = 1 .. Len(q) + 1
    BY <1>3, LenProperties
  <1>5. \A n \in 1 .. Len(q) + 1 : n \in 1 .. Len(q) \/ n = Len(q) + 1
    BY <1>2
  <1>6. ASSUME NEW n \in DOMAIN Append(q, x)
        PROVE  \/ n \in DOMAIN q /\ Append(q, x)[n] = q[n]
               \/ n = Len(q) + 1 /\ Append(q, x)[n] = x
    <2>1. n \in 1 .. Len(q) + 1
      BY <1>4
    <2>2. CASE n \in 1 .. Len(q)
      BY <1>2, <1>3, <2>2
    <2>3. CASE n = Len(q) + 1
      BY <1>3, <2>3
    <2> QED
      BY <1>5, <2>1, <2>2, <2>3
  <1> QED
    BY <1>1, <1>6 DEF q, x

\* The section of a source holds what was got of it.
LEMMA HonestyCompute == Typed /\ Honesty /\ Compute => Honesty'
  <1> SUFFICES ASSUME Typed, Honesty, Compute PROVE Honesty'
    OBVIOUS
  <1> DEFINE s == Head(job.todo)
             items == Only(job.got, Signal)
  <1>1. /\ UNCHANGED <<world, known>> /\ job.todo # <<>> /\ s \in Sources
        /\ UNCHANGED job.since /\ job'.got = <<>> /\ job'.todo = Tail(job.todo)
    BY ComputeStep
  <1>2. \A n \in DOMAIN job'.sections :
          \/ n \in DOMAIN job.sections /\ job'.sections[n] = job.sections[n]
          \/ n = Len(job.sections) + 1 /\ job'.sections[n] = [source |-> s, items |-> items]
    BY OneMoreSection
  <1>3. UNCHANGED <<feed, dated, known, job.since>>
    BY <1>1 DEF world
  <1>4. /\ ToSet(job.todo) = {s} \union ToSet(job'.todo) /\ s \notin ToSet(job'.todo)
    BY <1>1, HeadOfTodo DEF Typed, Phase
  <1>5. Genuine(items, s)
    <2>1. Genuine(job.got, s) /\ job.got \in Seq(Events)
      BY <1>1, Sequences DEF Honesty, Reading, Typed
    <2>2. /\ ToSet(items) = ToSet(job.got) \intersect Signal /\ items \in Seq(Events)
          /\ \A e : Copies(e, items) <= Copies(e, job.got)
      BY <2>1, OnlyKeeps
    <2>3. \A e : Copies(e, items) \in Nat /\ Copies(e, job.got) \in Nat
      BY <2>1, <2>2, Counted
    <2>4. Cardinality(Late(s)) \in Nat
      BY <1>1, LateFinite DEF Typed
    <2> HIDE DEF items
    <2> QED
      BY <2>1, <2>2, <2>3, <2>4 DEF Genuine
  <1> HIDE DEF items, s
  <1>6. Sections'
    <2>1. \A n \in DOMAIN job.sections : Genuine(job.sections[n].items, job.sections[n].source)
      BY DEF Honesty, Sections
    <2>2. ASSUME NEW n \in DOMAIN job'.sections
          PROVE  Genuine(job'.sections[n].items, job'.sections[n].source)
      <3>1. CASE n \in DOMAIN job.sections /\ job'.sections[n] = job.sections[n]
        BY <2>1, <3>1
      <3>2. CASE job'.sections[n] = [source |-> s, items |-> items]
        <4>1. job'.sections[n].source = s /\ job'.sections[n].items = items
          BY <3>2
        <4> QED
          BY <1>5, <4>1
      <3> QED
        BY <1>2, <2>2, <3>1, <3>2
    <2> QED
      BY <1>3, <2>2 DEF Sections, Genuine, Honest, Late
  <1>7. OneSection'
    <2>1. \A n \in DOMAIN job.sections : job.sections[n].source \notin ToSet(job.todo)
      BY DEF Honesty, OneSection
    <2>2. \A m, n \in DOMAIN job.sections : job.sections[m].source = job.sections[n].source => m = n
      BY DEF Honesty, OneSection
    <2>3. \A n \in DOMAIN job'.sections : job'.sections[n].source \notin ToSet(job'.todo)
      BY <1>2, <1>4, <2>1
    <2>4. \A m, n \in DOMAIN job'.sections : job'.sections[m].source = job'.sections[n].source => m = n
      BY <1>2, <1>4, <2>1, <2>2
    <2> QED
      BY <2>3, <2>4 DEF OneSection
  <1>8. Reading'
    <2>1. ToSet(<<>>) = {}
      BY DEF ToSet
    <2> QED
      BY <1>1, <2>1 DEF Reading, Genuine, Shifted
  <1> QED
    BY <1>6, <1>7, <1>8 DEF Honesty

\* A handler that lists its sources has nothing yet.
LEMMA HonestyList == Typed /\ Honesty /\ List => Honesty'
  <1> SUFFICES ASSUME Typed, Honesty, List PROVE Honesty'
    OBVIOUS
  <1>1. UNCHANGED <<job.sections, job.got>> /\ job.pc = "list"
    BY ListStep
  <1>2. job'.sections = <<>> /\ job'.got = <<>>
    BY <1>1 DEF Typed, Phase
  <1>3. ToSet(<<>>) = {} /\ DOMAIN <<>> = {}
    BY DEF ToSet
  <1> QED
    BY <1>2, <1>3 DEF Honesty, OneSection, Reading, Sections, Genuine, Shifted

\* Without sections and sources there is nothing to check.
LEMMA HonestyEmpty == job.sections = <<>> /\ job.todo = <<>> => Honesty
  BY DEF Honesty, OneSection, Reading, Sections

LEMMA HonestyNext == Typed /\ Honesty /\ [Next]_vars => Honesty'
  <1> SUFFICES ASSUME Typed, Honesty, [Next]_vars PROVE Honesty'
    OBVIOUS
  <1>1. ASSUME UNCHANGED <<feed, dated, job, known>> PROVE Honesty'
    BY <1>1 DEF Honesty, OneSection, Reading, Sections, Genuine, Shifted, Honest, Late
  <1>2. CASE UNCHANGED vars
    BY <1>1, <1>2 DEF vars, world
  <1>3. CASE \E e \in Events : Appear(e)
    BY <1>3, HonestyAppear
  <1>4. CASE Tick \/ (\E s \in Sources : Toggle(s)) \/ (\E u \in Users : DeleteAccount(u))
    BY <1>1, <1>4 DEF Tick, Toggle, DeleteAccount
  <1>5. CASE Begin
    <2>1. job'.sections = <<>> /\ job'.todo = <<>>
      BY <1>5, BeginStep
    <2> QED
      BY <2>1 DEF Honesty, OneSection, Reading, Sections
  <1>6. CASE Ends
    <2>1. job'.sections = <<>> /\ job'.todo = <<>>
      BY <1>6, EndsStep
    <2> QED
      BY <2>1 DEF Honesty, OneSection, Reading, Sections
  <1>7. CASE AllRead
    <2>1. UNCHANGED <<world, known>> /\ job.todo = <<>> /\ UNCHANGED <<job.since, job.todo, job.sections>>
      BY <1>7, AllReadStep
    <2>2. UNCHANGED <<feed, dated, known, job.since, job.sections>>
      BY <2>1 DEF world
    <2>3. Sections'
      BY <2>2, SectionsStay
    <2> QED
      BY <2>1, <2>3 DEF Honesty, OneSection, Reading
  <1>8. CASE Handler
    BY <1>5, <1>6, <1>7, <1>8, HonestyList, HonestyReadPage, HonestyReadFeed, HonestySkipped, HonestyCompute
    DEF Handler
  <1> QED
    BY <1>2, <1>3, <1>4, <1>8 DEF Next

\* What the handler has got, and what its sections hold, is honest in every state.
THEOREM HonestyHolds == Spec => []Honesty
  <1>1. Init => Honesty
    BY HonestyEmpty DEF Init, NoJob
  <1>2. Typed /\ Honesty /\ [Next]_vars => Honesty'
    BY HonestyNext
  <1> QED
    BY <1>1, <1>2, TypesHold, PTL DEF Spec

LEMMA HonestyIsSound == Typed /\ Honesty => DigestSound
  <1> SUFFICES ASSUME Typed, Honesty PROVE DigestSound
    OBVIOUS
  <1>1. \A m, n \in DOMAIN job.sections : job.sections[m].source = job.sections[n].source => m = n
    BY DEF Honesty, OneSection
  <1>2. ASSUME NEW n \in DOMAIN job.sections, NEW e \in ToSet(job.sections[n].items)
        PROVE  /\ SourceOf[e] = job.sections[n].source /\ dated[e] >= job.since
               /\ Cardinality({i \in DOMAIN job.sections[n].items : job.sections[n].items[i] = e})
                    <= 1 + Cardinality(ToSet(feed[job.sections[n].source]) \ known)
    <2>1. /\ Honest(e, job.sections[n].source) /\ job.sections[n].source \in Sources
          /\ Copies(e, job.sections[n].items) <= 1 + Cardinality(Late(job.sections[n].source))
      BY SectionsTyped DEF Typed, Honesty, Sections, Genuine
    <2>2. SourceOf[e] = job.sections[n].source
      BY <2>1 DEF Typed, FeedOK, Honest, ToSet
    <2> QED
      BY <2>1, <2>2 DEF Honest, Copies, Late
  <1>3. ASSUME NEW section \in ToSet(job.sections), NEW e \in ToSet(section.items)
        PROVE  /\ SourceOf[e] = section.source /\ dated[e] >= job.since
               /\ Cardinality({i \in DOMAIN section.items : section.items[i] = e})
                    <= 1 + Cardinality(ToSet(feed[section.source]) \ known)
    <2>1. PICK n \in DOMAIN job.sections : section = job.sections[n]
      BY DEF ToSet
    <2> QED
      BY <1>2, <2>1
  <1> QED
    BY <1>1, <1>3 DEF DigestSound

\* An answer makes nothing up: a source has one section, of its own events in the
\* window, and counts one twice only if the feed grew under the handler, however
\* often it grows, whatever the page size, and at whatever page it does.
THEOREM AnswersSound == Spec => []DigestSound
  BY TypesHold, HonestyHolds, HonestyIsSound, PTL

-----------------------------------------------------------------------------
(***************************************************************************)
(* Nothing is left out.  What was known when the sources were listed only  *)
(* moves down its feed, so that no page skips it; it is got before the     *)
(* section of its source is computed, and stays in that section.           *)
(***************************************************************************)
InWindow(e, n) ==
  \/ job.cmd = "digest" /\ dated[e] >= job.since /\ n <= PageSize * MaxPages
  \/ job.cmd = "substack" /\ dated[e] > job.since /\ n <= Limit

SoFar(s, items) ==
  \A n \in DOMAIN feed[s] :
    feed[s][n] \in known /\ dated[feed[s][n]] >= job.since /\ n <= (job.page - 1) * PageSize =>
      feed[s][n] \in ToSet(items)

Whole(s, items) ==
  \A n \in DOMAIN feed[s] :
    feed[s][n] \in known /\ InWindow(feed[s][n], n) => feed[s][n] \in ToSet(items)

InProgress ==
  job.todo # <<>> =>
    /\ job.pc = "read" /\ job.cmd = "digest" => SoFar(Head(job.todo), job.got)
    /\ job.pc = "compute" => Whole(Head(job.todo), job.got)

Told(e, s) == \E section \in ToSet(job.sections) : section.source = s /\ e \in ToSet(section.items)

Covered ==
  job.pc \in {"read", "compute", "edit"} =>
    \A s \in Sources \ ToSet(job.todo) : \A n \in DOMAIN feed[s] :
      feed[s][n] \in known /\ feed[s][n] \in Signal /\ InWindow(feed[s][n], n) => Told(feed[s][n], s)

Coverage == InProgress /\ Covered

-----------------------------------------------------------------------------
\* What is known was no further down before.
LEMMA KnownBefore ==
  ASSUME Typed, NEW e \in Events, Appear(e), NEW s \in Sources, NEW n \in DOMAIN feed'[s],
         feed'[s][n] \in known
  PROVE  \E m \in DOMAIN feed[s] :
           /\ m \in Nat /\ n \in Nat /\ m <= n /\ feed'[s][n] = feed[s][m]
           /\ dated'[feed'[s][n]] = dated[feed[s][m]]
  <1> DEFINE m == Was(n, s, SourceOf[e])
  <1>1. n \in Nat
    <2>1. feed'[s] \in Seq(Events)
      BY FeedGrows
    <2>2. DOMAIN feed'[s] = 1 .. Len(feed'[s]) /\ Len(feed'[s]) \in Nat
      BY <2>1, LenProperties
    <2> QED
      BY <2>2
  <1>2. feed'[s][n] # e
    BY FeedGrows
  <1>3. m \in DOMAIN feed[s] /\ feed'[s][n] = feed[s][m]
    <2>1. \A q \in DOMAIN feed'[s] :
            \/ q = 1 /\ s = SourceOf[e] /\ feed'[s][q] = e
            \/ /\ Was(q, s, SourceOf[e]) \in DOMAIN feed[s]
               /\ feed'[s][q] = feed[s][Was(q, s, SourceOf[e])] /\ feed'[s][q] # e
      BY FeedGrows
    <2> QED
      BY <1>2, <2>1
  <1>4. DOMAIN feed[s] = 1 .. Len(feed[s]) /\ Len(feed[s]) \in Nat
    BY Sequences DEF Typed
  <1>5. m \in Nat /\ m <= n
    BY <1>1, <1>3, <1>4 DEF Was
  <1>6. dated'[feed'[s][n]] = dated[feed[s][m]]
    <2>1. feed[s][m] \in Events /\ \A d \in Events : d # e => dated'[d] = dated[d]
      BY <1>3, <1>4, Sequences, FeedGrows DEF Typed
    <2> QED
      BY <1>2, <1>3, <2>1
  <1> HIDE DEF m
  <1> QED
    BY <1>1, <1>3, <1>5, <1>6

\* A feed that grows under the handler pushes nothing that is known beyond what
\* was read, and may push some of it out of the window.
LEMMA CoverageAppear ==
  ASSUME Typed, Coverage, NEW e \in Events, Appear(e)
  PROVE  Coverage'
  <1>1. UNCHANGED <<job, known>>
    BY DEF Appear
  <1>2. ASSUME NEW s \in Sources, NEW items, SoFar(s, items), job.page \in Nat
        PROVE  \A n \in DOMAIN feed'[s] :
                 feed'[s][n] \in known /\ dated'[feed'[s][n]] >= job.since /\ n <= (job.page - 1) * PageSize =>
                   feed'[s][n] \in ToSet(items)
    <2> SUFFICES ASSUME NEW n \in DOMAIN feed'[s], feed'[s][n] \in known,
                        dated'[feed'[s][n]] >= job.since, n <= (job.page - 1) * PageSize
                 PROVE  feed'[s][n] \in ToSet(items)
      OBVIOUS
    <2>1. PICK m \in DOMAIN feed[s] :
            /\ m \in Nat /\ n \in Nat /\ m <= n /\ feed'[s][n] = feed[s][m]
            /\ dated'[feed'[s][n]] = dated[feed[s][m]]
      BY KnownBefore
    <2>2. (job.page - 1) * PageSize \in Int
      BY <1>2, Bounds
    <2>3. m <= (job.page - 1) * PageSize
      BY <2>1, <2>2
    <2> QED
      BY <1>2, <2>1, <2>3 DEF SoFar
  <1>3. ASSUME NEW s \in Sources, NEW n \in DOMAIN feed'[s], feed'[s][n] \in known, InWindow(feed[s][n], n)'
        PROVE  \E m \in DOMAIN feed[s] : feed'[s][n] = feed[s][m] /\ InWindow(feed[s][m], m)
    <2>1. PICK m \in DOMAIN feed[s] :
            /\ m \in Nat /\ n \in Nat /\ m <= n /\ feed'[s][n] = feed[s][m]
            /\ dated'[feed'[s][n]] = dated[feed[s][m]]
      BY <1>3, KnownBefore
    <2>2. PageSize * MaxPages \in Nat /\ Limit \in Nat
      BY Bounds
    <2>3. CASE job.cmd = "digest" /\ dated[feed[s][m]] >= job.since /\ n <= PageSize * MaxPages
      <3>1. m <= PageSize * MaxPages
        BY <2>1, <2>2, <2>3
      <3> QED
        BY <2>1, <2>3, <3>1 DEF InWindow
    <2>4. CASE job.cmd = "substack" /\ dated[feed[s][m]] > job.since /\ n <= Limit
      <3>1. m <= Limit
        BY <2>1, <2>2, <2>4
      <3> QED
        BY <2>1, <2>4, <3>1 DEF InWindow
    <2> QED
      BY <1>1, <1>3, <2>1, <2>3, <2>4 DEF InWindow
  <1>4. InProgress'
    <2> SUFFICES ASSUME job.todo # <<>>
                 PROVE  /\ job.pc = "read" /\ job.cmd = "digest" => SoFar(Head(job.todo), job.got)'
                        /\ job.pc = "compute" => Whole(Head(job.todo), job.got)'
      BY <1>1 DEF InProgress
    <2> DEFINE s == Head(job.todo)
    <2>1. s \in Sources /\ job.page \in Nat
      BY HeadOfTodo, Sequences DEF Typed
    <2>2. /\ job.pc = "read" /\ job.cmd = "digest" => SoFar(s, job.got)
          /\ job.pc = "compute" => Whole(s, job.got)
      BY DEF Coverage, InProgress
    <2>3. ASSUME job.pc = "read" /\ job.cmd = "digest" PROVE SoFar(Head(job.todo), job.got)'
      <3>1. \A n \in DOMAIN feed'[s] :
                 feed'[s][n] \in known /\ dated'[feed'[s][n]] >= job.since /\ n <= (job.page - 1) * PageSize =>
                   feed'[s][n] \in ToSet(job.got)
        BY <1>2, <2>1, <2>2, <2>3
      <3> QED
        BY <1>1, <3>1 DEF SoFar
    <2>4. ASSUME job.pc = "compute" PROVE Whole(Head(job.todo), job.got)'
      <3>1. ASSUME NEW h \in Sources, h = s, NEW n \in DOMAIN feed'[h], feed'[h][n] \in known,
                   InWindow(feed[h][n], n)'
            PROVE  feed'[h][n] \in ToSet(job.got)
        <4>1. PICK m \in DOMAIN feed[h] : feed'[h][n] = feed[h][m] /\ InWindow(feed[h][m], m)
          BY <1>3, <3>1
        <4> QED
          BY <2>2, <2>4, <3>1, <4>1 DEF Whole
      <3> QED
        BY <1>1, <2>1, <3>1 DEF Whole, InWindow
    <2> QED
      BY <2>3, <2>4
  <1>5. Covered'
    <2>1. ASSUME job.pc \in {"read", "compute", "edit"}, NEW s \in Sources \ ToSet(job.todo),
                 NEW n \in DOMAIN feed'[s], feed'[s][n] \in known, feed'[s][n] \in Signal,
                 InWindow(feed[s][n], n)'
          PROVE  Told(feed'[s][n], s)
      <3>1. PICK m \in DOMAIN feed[s] : feed'[s][n] = feed[s][m] /\ InWindow(feed[s][m], m)
        BY <1>3, <2>1
      <3> QED
        BY <2>1, <3>1 DEF Coverage, Covered
    <2> QED
      BY <1>1, <2>1 DEF Covered, Told
  <1> QED
    BY <1>4, <1>5 DEF Coverage

\* A page, and the last one: beyond it there is nothing of the window.
LEMMA CoverageReadPage == Typed /\ Coverage /\ ReadPage => Coverage'
  <1> SUFFICES ASSUME Typed, Coverage, ReadPage PROVE Coverage'
    OBVIOUS
  <1> DEFINE s == Head(job.todo)
             p == PageOf(feed[s])
             r == Recent(p)
             lo == (job.page - 1) * PageSize
  <1>1. /\ UNCHANGED <<world, known>> /\ s \in Sources
        /\ job.pc = "read" /\ job.cmd = "digest" /\ job.todo # <<>> /\ job.page > 0
        /\ UNCHANGED <<job.cmd, job.since, job.todo, job.sections>>
        /\ job'.got = job.got \o r
        /\ LastPage(p, r) => job'.pc = "compute" /\ job'.page = job.page
        /\ ~LastPage(p, r) => job'.pc = "read" /\ job'.page = job.page + 1
    BY ReadPageStep
  <1>2. /\ lo \in Nat /\ job.page * PageSize = lo + PageSize /\ r \in Seq(Events)
        /\ \A n \in DOMAIN feed[s] :
             lo < n /\ n <= lo + PageSize /\ dated[feed[s][n]] >= job.since => feed[s][n] \in ToSet(r)
        /\ LastPage(p, r) =>
             \A n \in DOMAIN feed[s] :
               n > lo + PageSize /\ n <= PageSize * MaxPages => ~(dated[feed[s][n]] >= job.since)
    <2>1. \A f, q, x, l : f = feed[s] /\ q = PageOf(f) /\ x = Recent(q) /\ l = (job.page - 1) * PageSize =>
            /\ l \in Nat /\ job.page * PageSize = l + PageSize /\ x \in Seq(Events)
            /\ \A n \in DOMAIN f :
                 l < n /\ n <= l + PageSize /\ dated[f[n]] >= job.since => f[n] \in ToSet(x)
            /\ LastPage(q, x) =>
                 \A n \in DOMAIN f : n > l + PageSize /\ n <= PageSize * MaxPages => ~(dated[f[n]] >= job.since)
      BY <1>1, PageRead
    <2> QED
      BY <2>1
  <1>3. SoFar(s, job.got) /\ job.got \in Seq(Events)
    BY <1>1, Sequences DEF Coverage, InProgress, Typed
  <1>4. ToSet(job.got \o r) = ToSet(job.got) \union ToSet(r)
    BY <1>2, <1>3, InConcat
  <1>5. \A n \in DOMAIN feed[s] : n \in Nat
    <2>1. DOMAIN feed[s] = 1 .. Len(feed[s]) /\ Len(feed[s]) \in Nat
      BY <1>1, Sequences DEF Typed
    <2> QED
      BY <2>1
  <1>6. UNCHANGED <<feed, dated, known, job.cmd, job.since, job.todo, job.sections>>
    BY <1>1 DEF world
  <1>7. PageSize \in Nat /\ job.page \in Nat
    BY Sequences, Bounds DEF Typed
  <1> HIDE DEF p, r
  <1>8. ASSUME NEW n \in DOMAIN feed[s], feed[s][n] \in known, dated[feed[s][n]] >= job.since,
               n <= job.page * PageSize
        PROVE  feed[s][n] \in ToSet(job.got \o r)
    <2>1. CASE n <= lo
      BY <1>3, <1>4, <1>8, <2>1 DEF SoFar
    <2>2. CASE ~(n <= lo)
      <3> HIDE DEF lo
      <3>1. lo < n /\ n <= lo + PageSize
        BY <1>2, <1>5, <1>8, <2>2
      <3> QED
        BY <1>2, <1>4, <1>8, <3>1
    <2> QED
      BY <2>1, <2>2
  <1> HIDE DEF lo
  <1>9. CASE LastPage(p, r)
    <2>1. ASSUME NEW n \in DOMAIN feed[s], feed[s][n] \in known, InWindow(feed[s][n], n)
          PROVE  feed[s][n] \in ToSet(job.got \o r)
      <3>1. dated[feed[s][n]] >= job.since /\ n <= PageSize * MaxPages
        BY <1>1, <2>1 DEF InWindow
      <3>2. ~(n > lo + PageSize)
        BY <1>2, <1>9, <3>1
      <3>3. n <= job.page * PageSize
        <4>1. n <= lo + PageSize
          BY <1>2, <1>5, <1>7, <3>2
        <4> QED
          BY <1>2, <4>1
      <3> QED
        BY <1>8, <2>1, <3>1, <3>3
    <2>2. Whole(Head(job.todo), job.got)'
      BY <1>1, <1>6, <2>1 DEF Whole, InWindow
    <2>3. InProgress'
      BY <1>1, <1>9, <2>2 DEF InProgress
    <2>4. Covered'
      BY <1>1, <1>6, <1>9 DEF Coverage, Covered, InWindow, Told
    <2> QED
      BY <2>3, <2>4 DEF Coverage
  <1>10. CASE ~LastPage(p, r)
    <2>1. job'.page - 1 = job.page
      BY <1>1, <1>7, <1>10
    <2>2. SoFar(Head(job.todo), job.got)'
      BY <1>1, <1>6, <1>8, <2>1 DEF SoFar
    <2>3. InProgress'
      BY <1>1, <1>10, <2>2 DEF InProgress
    <2>4. Covered'
      BY <1>1, <1>6, <1>10 DEF Coverage, Covered, InWindow, Told
    <2> QED
      BY <2>3, <2>4 DEF Coverage
  <1> QED
    BY <1>9, <1>10

\* The posts of a publication, up to the limit.
LEMMA CoverageReadFeed == Typed /\ Coverage /\ ReadFeed => Coverage'
  <1> SUFFICES ASSUME Typed, Coverage, ReadFeed PROVE Coverage'
    OBVIOUS
  <1> DEFINE s == Head(job.todo)
             newer == Newer(feed[s])
             g == Taken(newer)
  <1>1. /\ UNCHANGED <<world, known>> /\ s \in Sources /\ job.todo # <<>>
        /\ job.pc = "read" /\ job.cmd = "substack"
        /\ UNCHANGED <<job.cmd, job.since, job.todo, job.sections>> /\ job'.got = g /\ job'.pc = "compute"
    BY ReadFeedStep
  <1>2. \A n \in DOMAIN feed[s] : dated[feed[s][n]] > job.since /\ n <= Limit => feed[s][n] \in ToSet(g)
    BY <1>1, FeedRead
  <1> HIDE DEF g, newer
  <1>3. UNCHANGED <<feed, dated, known, job.cmd, job.since, job.todo, job.sections>>
    BY <1>1 DEF world
  <1>4. Whole(Head(job.todo), job.got)'
    BY <1>1, <1>2, <1>3 DEF Whole, InWindow
  <1>5. InProgress'
    BY <1>1, <1>4 DEF InProgress
  <1>6. Covered'
    BY <1>1, <1>3 DEF Coverage, Covered, InWindow, Told
  <1> QED
    BY <1>5, <1>6 DEF Coverage

\* Of a feed that cannot be read nothing is known.
LEMMA CoverageSkipped == Typed /\ Coverage /\ FeedSkipped => Coverage'
  <1> SUFFICES ASSUME Typed, Coverage, FeedSkipped PROVE Coverage'
    OBVIOUS
  <1>1. /\ UNCHANGED world /\ Head(job.todo) \in Sources /\ job.todo # <<>> /\ job.pc = "read"
        /\ UNCHANGED <<job.cmd, job.since, job.todo, job.sections>>
        /\ job'.pc = "compute" /\ known' = {e \in known : SourceOf[e] # Head(job.todo)}
    BY SkippedStep
  <1>2. UNCHANGED <<feed, dated, job.cmd, job.since, job.todo, job.sections>> /\ known' \subseteq known
    BY <1>1 DEF world
  <1>3. \A n \in DOMAIN feed[Head(job.todo)] : feed[Head(job.todo)][n] \notin known'
    BY <1>1 DEF Typed, FeedOK
  <1>4. Whole(Head(job.todo), job.got)'
    BY <1>2, <1>3 DEF Whole
  <1>5. InProgress'
    BY <1>1, <1>4 DEF InProgress
  <1>6. Covered'
    BY <1>1, <1>2 DEF Coverage, Covered, InWindow, Told
  <1> QED
    BY <1>5, <1>6 DEF Coverage

\* Compute keeps the sections and adds that of the source that was read.
LEMMA SectionsKept ==
  ASSUME Typed, Compute, NEW s, s = Head(job.todo), NEW items, items = Only(job.got, Signal)
  PROVE  /\ ToSet(job.sections) \subseteq ToSet(job'.sections)
         /\ items # <<>> => [source |-> s, items |-> items] \in ToSet(job'.sections)
  <1> DEFINE x == [source |-> s, items |-> items]
  <1>1. /\ x \in Section /\ job.sections \in Seq(Section)
        /\ items = <<>> => job'.sections = job.sections
        /\ items # <<>> => job'.sections = Append(job.sections, x)
    BY ComputeStep, Sequences DEF Typed
  <1> HIDE DEF x
  <1>2. ToSet(Append(job.sections, x)) = ToSet(job.sections) \union {x}
    BY <1>1, InAppend
  <1> QED
    BY <1>1, <1>2 DEF x

\* The section of a source holds what of it is signal.
LEMMA CoverageCompute == Typed /\ Coverage /\ Compute => Coverage'
  <1> SUFFICES ASSUME Typed, Coverage, Compute PROVE Coverage'
    OBVIOUS
  <1> DEFINE s == Head(job.todo)
             items == Only(job.got, Signal)
             x == [source |-> s, items |-> items]
  <1>1. /\ UNCHANGED <<world, known>> /\ s \in Sources /\ job.pc = "compute" /\ job.todo # <<>>
        /\ UNCHANGED <<job.cmd, job.since>> /\ job'.pc = "read" /\ job'.page = 1
        /\ job'.todo = Tail(job.todo)
    BY ComputeStep
  <1>2. ToSet(job.sections) \subseteq ToSet(job'.sections) /\ (items # <<>> => x \in ToSet(job'.sections))
    BY SectionsKept
  <1>3. ToSet(items) = ToSet(job.got) \intersect Signal
    BY OnlyKeeps, Sequences DEF Typed
  <1>4. Whole(s, job.got)
    BY <1>1 DEF Coverage, InProgress
  <1>5. /\ ToSet(job.todo) = {s} \union ToSet(job'.todo) /\ job'.todo \in Seq(Sources)
    BY <1>1, HeadOfTodo DEF Typed
  <1>6. UNCHANGED <<feed, dated, known, job.cmd, job.since>>
    BY <1>1 DEF world
  <1>7. x.source = s /\ x.items = items
    OBVIOUS
  <1>8. ToSet(<<>>) = {}
    BY DEF ToSet
  <1> HIDE DEF s, items, x
  <1>9. ASSUME NEW t \in Sources \ ToSet(job'.todo), NEW n \in DOMAIN feed[t],
               feed[t][n] \in known, feed[t][n] \in Signal, InWindow(feed[t][n], n)
        PROVE  \E section \in ToSet(job'.sections) : section.source = t /\ feed[t][n] \in ToSet(section.items)
    <2>1. CASE t = s
      <3>1. feed[t][n] \in ToSet(items)
        BY <1>3, <1>4, <1>9, <2>1 DEF Whole
      <3>2. x \in ToSet(job'.sections)
        BY <1>2, <1>8, <3>1
      <3> QED
        BY <1>7, <2>1, <3>1, <3>2
    <2>2. CASE t # s
      <3>1. Told(feed[t][n], t)
        BY <1>1, <1>5, <1>9, <2>2 DEF Coverage, Covered
      <3> QED
        BY <1>2, <3>1 DEF Told
    <2> QED
      BY <2>1, <2>2
  <1>10. Covered'
    BY <1>1, <1>6, <1>9 DEF Covered, InWindow, Told
  \* No page of the next source was read.
  <1>11. ASSUME job'.todo # <<>>, NEW n \in DOMAIN feed[Head(job'.todo)] PROVE ~(n <= (1 - 1) * PageSize)
    <2>1. Head(job'.todo) \in Sources
      BY <1>5, <1>11, HeadTailProperties
    <2>2. DOMAIN feed[Head(job'.todo)] = 1 .. Len(feed[Head(job'.todo)]) /\ Len(feed[Head(job'.todo)]) \in Nat
      BY <2>1, Sequences DEF Typed
    <2>3. n \in Nat /\ n >= 1
      BY <2>2
    <2>4. (1 - 1) * PageSize = 0
      BY Bounds
    <2> QED
      BY <2>3, <2>4
  <1>12. job'.todo # <<>> => SoFar(Head(job.todo), job.got)'
    BY <1>1, <1>6, <1>11 DEF SoFar
  <1>13. InProgress'
    BY <1>1, <1>12 DEF InProgress
  <1> QED
    BY <1>10, <1>13 DEF Coverage

\* What is known belongs to a source that was listed.
LEMMA CoverageList == Typed /\ Coverage /\ List => Coverage'
  <1> SUFFICES ASSUME Typed, Coverage, List PROVE Coverage'
    OBVIOUS
  <1> DEFINE kind == IF job.cmd = "digest" THEN Users ELSE Publications
             listed == Only(Listing, enabled \intersect kind)
  <1>1. /\ UNCHANGED world /\ known' = UNION {ToSet(feed[s]) : s \in ToSet(listed)}
        /\ job'.pc = "read" /\ job'.page = 1 /\ job'.todo = listed
        /\ listed \in Seq(Sources) /\ ToSet(listed) \subseteq Sources
    BY ListStep
  <1> HIDE DEF kind, listed
  <1>2. UNCHANGED <<feed, dated>>
    BY <1>1 DEF world
  <1>3. ASSUME NEW s \in Sources \ ToSet(listed), NEW n \in DOMAIN feed[s] PROVE feed[s][n] \notin known'
    <2> SUFFICES ASSUME feed[s][n] \in known' PROVE FALSE
      OBVIOUS
    <2>1. PICK t \in ToSet(listed) : feed[s][n] \in ToSet(feed[t])
      BY <1>1
    <2>2. PICK m \in DOMAIN feed[t] : feed[s][n] = feed[t][m]
      BY <2>1 DEF ToSet
    <2>3. SourceOf[feed[s][n]] = s /\ SourceOf[feed[t][m]] = t
      BY <1>1 DEF Typed, FeedOK
    <2> QED
      BY <2>2, <2>3
  <1>4. Covered'
    BY <1>1, <1>2, <1>3 DEF Covered
  <1>5. ASSUME listed # <<>>, NEW n \in DOMAIN feed[Head(listed)] PROVE ~(n <= (1 - 1) * PageSize)
    <2>1. Head(listed) \in Sources
      BY <1>1, <1>5, HeadTailProperties
    <2>2. DOMAIN feed[Head(listed)] = 1 .. Len(feed[Head(listed)]) /\ Len(feed[Head(listed)]) \in Nat
      BY <2>1, Sequences DEF Typed
    <2>3. n \in Nat /\ n >= 1
      BY <2>2
    <2>4. (1 - 1) * PageSize = 0
      BY Bounds
    <2> QED
      BY <2>3, <2>4
  <1>6. job'.todo # <<>> => SoFar(Head(job.todo), job.got)'
    BY <1>1, <1>2, <1>5 DEF SoFar
  <1>7. InProgress'
    BY <1>1, <1>6 DEF InProgress
  <1> QED
    BY <1>4, <1>7 DEF Coverage

LEMMA CoverageAllRead == Typed /\ Coverage /\ AllRead => Coverage'
  <1> SUFFICES ASSUME Typed, Coverage, AllRead PROVE Coverage'
    OBVIOUS
  <1>1. /\ UNCHANGED <<world, known>> /\ job.pc = "read" /\ job.todo = <<>>
        /\ UNCHANGED <<job.cmd, job.since, job.todo, job.sections>> /\ job'.pc = "edit"
    BY AllReadStep
  <1>2. UNCHANGED <<feed, dated, known>>
    BY <1>1 DEF world
  <1> QED
    BY <1>1, <1>2 DEF Coverage, InProgress, Covered, InWindow, Told

LEMMA CoverageNext == Typed /\ Coverage /\ [Next]_vars => Coverage'
  <1> SUFFICES ASSUME Typed, Coverage, [Next]_vars PROVE Coverage'
    OBVIOUS
  <1>1. ASSUME UNCHANGED <<feed, dated, job, known>> PROVE Coverage'
    BY <1>1 DEF Coverage, InProgress, Covered, SoFar, Whole, InWindow, Told
  <1>2. CASE UNCHANGED vars
    BY <1>1, <1>2 DEF vars, world
  <1>3. CASE \E e \in Events : Appear(e)
    BY <1>3, CoverageAppear
  <1>4. CASE Tick \/ (\E s \in Sources : Toggle(s)) \/ (\E u \in Users : DeleteAccount(u))
    BY <1>1, <1>4 DEF Tick, Toggle, DeleteAccount
  <1>5. CASE Begin
    <2>1. job'.pc = "list" /\ job'.todo = <<>>
      BY <1>5, BeginStep
    <2> QED
      BY <2>1 DEF Coverage, InProgress, Covered
  <1>6. CASE Ends
    <2>1. job'.pc = "idle" /\ job'.todo = <<>>
      BY <1>6, EndsStep
    <2> QED
      BY <2>1 DEF Coverage, InProgress, Covered
  <1>7. CASE Handler
    BY <1>5, <1>6, <1>7, CoverageList, CoverageReadPage, CoverageReadFeed, CoverageSkipped, CoverageCompute,
       CoverageAllRead
    DEF Handler
  <1> QED
    BY <1>2, <1>3, <1>4, <1>7 DEF Next

\* What was known when the sources were listed is accounted for in every state.
THEOREM CoverageHolds == Spec => []Coverage
  <1>1. Init => Coverage
    BY DEF Init, NoJob, Coverage, InProgress, Covered
  <1>2. Typed /\ Coverage /\ [Next]_vars => Coverage'
    BY CoverageNext
  <1> QED
    BY <1>1, <1>2, TypesHold, PTL DEF Spec

-----------------------------------------------------------------------------
\* The place of an event that a feed holds.
LEMMA PlaceFound ==
  ASSUME NEW e, e \in ToSet(feed[SourceOf[e]])
  PROVE  Place(e) \in DOMAIN feed[SourceOf[e]] /\ feed[SourceOf[e]][Place(e)] = e
  BY DEF Place, ToSet

\* What is known of a window is in the section of its source.
LEMMA AnswerHolds ==
  ASSUME Typed, Coverage, job.pc = "edit", NEW e \in known, e \in Signal, InWindow(e, Place(e))
  PROVE  \E n \in DOMAIN job.sections : /\ job.sections[n] \in Section
                                        /\ job.sections[n].source = SourceOf[e]
                                        /\ e \in ToSet(job.sections[n].items)
  <1>1. e \in Events /\ SourceOf[e] \in Sources /\ e \in ToSet(feed[SourceOf[e]])
    BY Sets DEF Typed, TypeOK, FeedOK
  <1>2. Place(e) \in DOMAIN feed[SourceOf[e]] /\ feed[SourceOf[e]][Place(e)] = e
    BY <1>1, PlaceFound
  <1>3. ToSet(job.todo) = {}
    BY DEF Typed, Phase, ToSet
  <1>4. Told(e, SourceOf[e])
    BY <1>1, <1>2, <1>3 DEF Coverage, Covered
  <1>5. PICK section \in ToSet(job.sections) : section.source = SourceOf[e] /\ e \in ToSet(section.items)
    BY <1>4 DEF Told
  <1>6. PICK n \in DOMAIN job.sections : section = job.sections[n]
    BY DEF ToSet
  <1>7. job.sections[n] \in Section
    BY SectionsTyped DEF Typed
  <1> QED
    BY <1>5, <1>6, <1>7

\* The answer shows the sections: all of them on the pages of a digest, as many as
\* a message takes of the embeds of the publications.
LEMMA CoverageIsComplete == Typed /\ Coverage => DigestComplete
  <1> SUFFICES ASSUME Typed, Coverage, NEW e \in known, e \in Signal
               PROVE  /\ Answering("digest") /\ dated[e] >= job.since /\ Place(e) <= PageSize * MaxPages =>
                           \E page \in ToSet(Pages(job.sections)) : \E field \in ToSet(page) :
                             /\ field.user = SourceOf[e]
                             /\ RepoOf[e] \in ToSet(field.repos) \/ Len(field.repos) = MaxRepos
                      /\ Answering("substack") /\ dated[e] > job.since /\ Place(e) <= Limit =>
                           \/ \E section \in ToSet(Embeds(job.sections)) : e \in ToSet(section.items)
                           \/ Len(Embeds(job.sections)) = MaxEmbeds
    BY DEF DigestComplete
  <1>0. job.sections \in Seq(Section)
    BY Sequences DEF Typed
  <1>1. ASSUME Answering("digest"), dated[e] >= job.since, Place(e) <= PageSize * MaxPages
        PROVE  \E page \in ToSet(Pages(job.sections)) : \E field \in ToSet(page) :
                 /\ field.user = SourceOf[e]
                 /\ RepoOf[e] \in ToSet(field.repos) \/ Len(field.repos) = MaxRepos
    <2>1. PICK n \in DOMAIN job.sections : /\ job.sections[n] \in Section
                                           /\ job.sections[n].source = SourceOf[e]
                                           /\ e \in ToSet(job.sections[n].items)
      BY <1>1, AnswerHolds DEF Answering, InWindow
    <2> DEFINE section == job.sections[n]
               field == UserField(section)
    <2>2. PICK page \in ToSet(Pages(job.sections)) : field \in ToSet(page)
      BY <1>0, OnAPage
    <2>3. RepoOf[e] \in ToSet(ReposOf(section))
      BY <2>1, ReposMet DEF ToSet
    <2>4. /\ field.user = section.source
          /\ RepoOf[e] \in ToSet(field.repos) \/ Len(field.repos) = MaxRepos
      BY <2>1, <2>3, FieldTyped
    <2> HIDE DEF field, section
    <2>5. section.source = SourceOf[e]
      BY <2>1 DEF section
    <2> QED
      BY <2>2, <2>4, <2>5
  <1>2. ASSUME Answering("substack"), dated[e] > job.since, Place(e) <= Limit
        PROVE  \/ \E section \in ToSet(Embeds(job.sections)) : e \in ToSet(section.items)
               \/ Len(Embeds(job.sections)) = MaxEmbeds
    <2>1. PICK n \in DOMAIN job.sections : /\ job.sections[n] \in Section
                                           /\ job.sections[n].source = SourceOf[e]
                                           /\ e \in ToSet(job.sections[n].items)
      BY <1>2, AnswerHolds DEF Answering, InWindow
    <2> DEFINE q == job.sections
               k == Len(q)
               m == IF k < MaxEmbeds THEN k ELSE MaxEmbeds
    <2>2. k \in Nat /\ DOMAIN q = 1 .. k /\ MaxEmbeds \in Nat /\ \A i \in 1 .. k : q[i] \in Section
      BY <1>0, LenProperties, ElementOfSeq, Bounds
    <2>3. Embeds(q) = SubSeq(q, 1, m)
      BY DEF Embeds
    <2> HIDE DEF q, k
    <2>4. m \in Nat /\ m <= k /\ (m = k \/ m = MaxEmbeds)
      BY <2>2
    <2> HIDE DEF m
    <2>5. \A i \in 1 .. m : i \in 1 .. k /\ i \in 1 .. m - 1 + 1 /\ 1 + i - 1 = i
      BY <2>2, <2>4
    <2>6. /\ SubSeq(q, 1, m) \in Seq(Section) /\ Len(SubSeq(q, 1, m)) = (IF 1 <= m THEN m - 1 + 1 ELSE 0)
          /\ \A i \in 1 .. m - 1 + 1 : SubSeq(q, 1, m)[i] = q[1 + i - 1]
      BY <2>2, <2>4, <2>5, SubSeqProperties
    <2>7. Len(Embeds(q)) = m
      BY <2>3, <2>4, <2>6
    <2>8. CASE m = k
      <3>1. n \in 1 .. m
        BY <2>2, <2>8 DEF q
      <3>2. Embeds(q)[n] = q[n]
        BY <2>3, <2>5, <2>6, <3>1
      <3>3. DOMAIN Embeds(q) = 1 .. m
        BY <2>3, <2>6, <2>7, LenProperties
      <3>4. q[n] \in ToSet(Embeds(q))
        BY <3>1, <3>2, <3>3 DEF ToSet
      <3> QED
        BY <2>1, <3>4 DEF q
    <2>9. CASE m = MaxEmbeds
      BY <2>7, <2>9 DEF q
    <2> QED
      BY <2>4, <2>8, <2>9
  <1> QED
    BY <1>1, <1>2

\* An answer leaves nothing out that was there when its sources were listed, however
\* the feeds grow while they are paged through, except beyond the last page or the
\* limit, in a field that is full, and after the last embed.
THEOREM AnswersComplete == Spec => []DigestComplete
  BY TypesHold, CoverageHolds, CoverageIsComplete, PTL

\* Pagination keeps every section, once and in order; no page has more fields than
\* Discord takes, nor more characters unless it is a single field, and the first
\* field of the next page would not have fitted.
THEOREM PagesKeepSections == Spec => []PagesFaithful
  <1>1. TypeOK => PagesFaithful
    <2> SUFFICES ASSUME TypeOK PROVE PagesFaithful
      OBVIOUS
    <2>1. job.sections \in Seq(Section)
      BY Sequences
    <2> QED
      BY <2>1, LaidOut DEF PagesFaithful, Neat
  <1> QED
    BY <1>1, TypeCorrect, PTL
=============================================================================
