----------------------------- MODULE Reporting -----------------------------
(***************************************************************************)
(* What the digest promises about each commit, without handlers, queues,   *)
(* cursors or clocks.  A commit is shown by GitHub, reported in a message, *)
(* then recorded; a fetch may drop it.  A source settles a commit when it  *)
(* will not look at it again, and it settles only commits that are         *)
(* recorded or dropped.  A commit may be reported again at any time: the   *)
(* promise is at least once, never "not at all".                           *)
(***************************************************************************)
CONSTANTS Commits, Sources, Signal

VARIABLES shown, reported, recorded, dropped, settled

promise == <<shown, reported, recorded, dropped, settled>>

Init ==
  /\ shown = {} /\ reported = {} /\ recorded = {} /\ dropped = {}
  /\ settled = [s \in Sources |-> {}]

Show(c) ==
  /\ shown' = shown \union {c}
  /\ UNCHANGED <<reported, recorded, dropped, settled>>

\* Only signal commits that GitHub shows are reported.
Report(batch) ==
  /\ batch \subseteq shown \intersect Signal
  /\ reported' = reported \union batch
  /\ UNCHANGED <<shown, recorded, dropped, settled>>

\* Only what was reported is recorded.
Record(batch) ==
  /\ batch \subseteq reported
  /\ recorded' = recorded \union batch
  /\ UNCHANGED <<shown, reported, dropped, settled>>

Drop(batch) ==
  /\ batch \subseteq shown
  /\ dropped' = dropped \union batch
  /\ UNCHANGED <<shown, reported, recorded, settled>>

\* Only what is recorded or dropped is settled.  A source may also unsettle:
\* a slow handler can move a cursor back.
Settle(s, batch) ==
  /\ batch \subseteq recorded \union dropped
  /\ settled' = [settled EXCEPT ![s] = batch]
  /\ UNCHANGED <<shown, reported, recorded, dropped>>

Next ==
  \/ \E c \in Commits : Show(c)
  \/ \E batch \in SUBSET Commits : Report(batch) \/ Record(batch) \/ Drop(batch)
  \/ \E s \in Sources, batch \in SUBSET Commits : Settle(s, batch)

Spec == Init /\ [][Next]_promise
=============================================================================
