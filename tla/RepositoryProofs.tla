-------------------------- MODULE RepositoryProofs --------------------------
(***************************************************************************)
(* Proofs about the repository scan and the observation beside it, for any *)
(* tree, any budgets and adapters, any facts and any number of changes,    *)
(* cancellations and crashes.                                              *)
(***************************************************************************)
EXTENDS RepositoryIntelligence, FiniteSetTheorems, TLAPS

Scanning == {"identity", "tools", "list", "bound", "read", "adapters", "adapter", "conclude"}
Drafting == {"finalize", "sanitize", "claim"}

-----------------------------------------------------------------------------
(* What the scan's steps may rely on. *)

ScanTypeOK ==
  pc \in Scanning =>
    /\ budget \in Budgets
    /\ next \in Nat \ {0}
    /\ pc = "adapter" =>
         /\ next <= Len(Adapters)
         /\ child = Running \/ child \in Sent(Adapters[next])

\* No adapter raises the finding that says a scan was cancelled.
LEMMA AdapterCodes ==
  ASSUME NEW b \in Budgets, NEW i \in Nat \ {0}, i <= Len(b.adapters),
         NEW m \in Sent(b.adapters[i]), m.kind = "result"
  PROVE  "SCAN.CANCELLED" \notin m.codes
<1> DEFINE all == {Topology, Python, Node, IntegrationDeclarations, Containers, CiWorkflows,
                   Interfaces, Pmpe}
<1>1. b.adapters \in Seq(all)
  BY BudgetsAssumption DEF Configs
<1> HIDE DEF all
<1>2. PICK a \in all : a = b.adapters[i]
  BY <1>1
<1>3. "SCAN.CANCELLED" \notin a.codes
  BY DEF all, Topology, Python, Node, IntegrationDeclarations, Containers, CiWorkflows,
         Interfaces, Pmpe
<1>4. m \in Results(a)
  BY <1>2 DEF Sent
<1> QED BY <1>3, <1>4 DEF Results

LEMMA ScanTypeStep == ScanTypeOK /\ [Next]_allVars => ScanTypeOK'
<1> SUFFICES ASSUME ScanTypeOK, [Next]_allVars PROVE ScanTypeOK'
  OBVIOUS
<1> USE DEF ScanTypeOK, Scanning
<1>1. CASE UNCHANGED allVars
  BY <1>1 DEF allVars, vars, scanVars, Adapters, Sent
<1>2. CASE StartScan
  BY <1>2 DEF StartScan, Scan
<1>3. CASE RunWorker
  BY <1>3 DEF RunWorker, AdapterWorker, scanVars, Adapters
<1>4. CASE RunScan
  <2>1. CASE \/ ResolveIdentity \/ IdentityCancelled \/ CollectToolVersions
             \/ ListTree \/ BoundPath \/ PathsBounded \/ ReadEntry \/ ReadCancelled \/ EntriesRead
    BY <2>1 DEF ResolveIdentity, IdentityCancelled, CollectToolVersions, ListTree, BoundPath,
         PathsBounded, ReadEntry, ReadCancelled, EntriesRead, Finalize, scanVars
  <2>2. CASE AdaptersCancelled
    BY <2>2 DEF AdaptersCancelled
  <2>3. CASE StartAdapter
    BY <2>3 DEF StartAdapter, Adapters
  <2>4. CASE AdapterFails \/ RefuseResult \/ ApplyResult
    BY <2>4 DEF AdapterFails, RefuseResult, ApplyResult, NextAdapter
  <2>5. CASE AdaptersDone
    BY <2>5 DEF AdaptersDone, scanVars
  <2>6. CASE Conclude \/ FinalizeStart \/ Sanitized \/ Claim \/ ScanFails
    BY <2>6 DEF Conclude, Finalize, FinalizeStart, Sanitized, Claim, ScanFails
  <2> QED BY <1>4, <2>1, <2>2, <2>3, <2>4, <2>5, <2>6 DEF RunScan, ScanStep
<1>5. ASSUME pc' = pc \/ pc' \notin Scanning, pc \notin Scanning PROVE ScanTypeOK'
  BY <1>5
<1>6. CASE Cancel
  BY <1>6 DEF Cancel, scanVars, Adapters, Sent
<1>7. ASSUME NEW f \in Facts, Change(f) PROVE ScanTypeOK'
  BY <1>7 DEF Change, vars, scanVars, Adapters, Sent
<1>8. CASE Crash \/ Return
  BY <1>8 DEF Crash, Return, Cleared
<1>9. CASE \/ Observe \/ ObserveFails \/ Probe \/ ReadFact \/ Stamp
           \/ RemoteAnswers \/ RemoteStopped \/ RereadFact \/ RereadFails \/ Compare
           \/ CheckCancellation \/ Redacted \/ AdmitObservation
           \/ WriteSnapshot \/ WriteGovernance \/ WriteFails \/ RemoteWorker
  BY <1>5, <1>9 DEF Observe, ObserveFails, Probe, ReadFact, Stamp, RemoteAnswers, RemoteStopped,
       RereadFact, RereadFails, Compare, CheckCancellation, Redacted, SeeCancellation,
       AdmitObservation, WriteSnapshot, WriteGovernance, WriteFails, RemoteWorker, Raise, Goto, End
<1> QED BY <1>1, <1>2, <1>3, <1>4, <1>6, <1>7, <1>8, <1>9 DEF Next, CallStep

-----------------------------------------------------------------------------
(* Cancellation *)

\* A mark is never ahead of the signal, and the signal is no longer open when
\* an artifact is handed out.
SignalInv ==
  /\ sig \in {"NONE", "ACTIVE", "CANCELLED", "COMPLETED"}
  /\ pc \in Scanning \cup Drafting \cup {"scanned"} => unknown = {}
  /\ pc \in Scanning => (Has(found, "SCAN.CANCELLED") => Cancelled)
  /\ pc \in Drafting => (Marked(draft) => Cancelled)
  /\ pc = "scanned" => (Marked(snapshot) <=> Cancelled) /\ sig # "ACTIVE"
  /\ pc \in Observing => ("observation_cancellation" \in unknown => Cancelled)
  /\ pc = "observed" => /\ "observation_cancellation" \in observation.unknown <=> Cancelled
                        /\ sig # "ACTIVE"

LEMMA Findings ==
  /\ Marked(CancelledSnapshot)
  /\ ~Marked(CommandBudgetSnapshot)
  /\ \A d : Marked(MarkCancelled(d))
  /\ \A stop : ~Has(ListingFindings(stop), "SCAN.CANCELLED")
<1>0. \A fs : BlockedDraft(fs).found = fs
  BY DEF BlockedDraft
<1>1. Marked(CancelledSnapshot) /\ ~Marked(CommandBudgetSnapshot)
  <2>1. CancelledSnapshot.found = {CancelledFinding}
    BY <1>0 DEF CancelledSnapshot
  <2>2. CommandBudgetSnapshot.found = {Topic("BUDGET.COMMAND_COUNT")}
    BY <1>0 DEF CommandBudgetSnapshot
  <2>3. CancelledFinding.code = "SCAN.CANCELLED" /\ Topic("BUDGET.COMMAND_COUNT").code # "SCAN.CANCELLED"
    BY DEF CancelledFinding, Topic, Finding
  <2> QED BY <2>1, <2>2, <2>3 DEF Marked, Has
<1>2. ASSUME NEW d PROVE Marked(MarkCancelled(d))
  <2>1. MarkCancelled(d).found = d.found \cup {CancelledFinding}
    BY <1>0 DEF MarkCancelled
  <2>2. CancelledFinding.code = "SCAN.CANCELLED"
    BY DEF CancelledFinding, Topic, Finding
  <2> QED BY <2>1, <2>2 DEF Marked, Has
<1>3. \A stop : ~Has(ListingFindings(stop), "SCAN.CANCELLED")
  BY DEF ListingFindings, Topic, Finding, Has
<1> QED BY <1>1, <1>2, <1>3

LEMMA SignalScan == ScanTypeOK /\ SignalInv /\ RunScan => SignalInv'
<1> SUFFICES ASSUME ScanTypeOK, SignalInv, RunScan PROVE SignalInv'
  OBVIOUS
<1>0. unknown' = unknown
  BY DEF RunScan
<1> USE <1>0 DEF SignalInv, Scanning, Drafting, Observing, Cancelled
<1>1. CASE ResolveIdentity \/ IdentityCancelled \/ PathsBounded \/ EntriesRead \/ AdaptersDone
  BY <1>1 DEF ResolveIdentity, IdentityCancelled, PathsBounded, EntriesRead, AdaptersDone, scanVars, Has
<1>2. CASE CollectToolVersions
  BY <1>2, Findings DEF CollectToolVersions, Finalize, Has
<1>3. CASE ListTree
  <2>1. pc = "list" /\ sig' = sig /\ pc' \in {"adapters", "bound"}
    BY <1>3 DEF ListTree
  <2>2. ~Cancelled => \E new : found' = found \cup new /\ ~Has(new, "SCAN.CANCELLED")
    <3>1. ~Has({Topic("BUDGET.COMMAND_COUNT")}, "SCAN.CANCELLED")
      BY DEF Has, Topic, Finding
    <3> QED BY <1>3, <3>1, Findings DEF ListTree
  <2>3. Has(found', "SCAN.CANCELLED") => Cancelled
    BY <2>1, <2>2 DEF Has
  <2> QED BY <2>1, <2>3 DEF Has
<1>4. CASE BoundPath \/ ReadEntry
  <2>1. pc \in {"bound", "read"} /\ sig' = sig /\ pc' \in {"adapters", "bound", "read"}
    BY <1>4 DEF BoundPath, ReadEntry
  <2>2. ~Cancelled => \A f \in found' : f \in found \/ f.code # "SCAN.CANCELLED"
    BY <1>4 DEF BoundPath, ReadEntry, Topic, Finding
  <2>3. Has(found', "SCAN.CANCELLED") => Cancelled
    BY <2>1, <2>2 DEF Has
  <2> QED BY <2>1, <2>3 DEF Has
<1>5. CASE ReadCancelled
  BY <1>5, Findings DEF ReadCancelled, Finalize
<1>6. CASE AdaptersCancelled
  BY <1>6 DEF AdaptersCancelled
<1>7. CASE StartAdapter
  BY <1>7 DEF StartAdapter
<1>8. CASE AdapterFails \/ RefuseResult \/ ApplyResult
  <2>1. pc = "adapter" /\ sig' = sig /\ pc' = "adapters" /\ ~Cancelled
    BY <1>8 DEF AdapterFails, RefuseResult, ApplyResult, NextAdapter
  <2>2. child.kind = "result" => "SCAN.CANCELLED" \notin child.codes
    BY <2>1, AdapterCodes DEF ScanTypeOK, Running, Adapters
  <2>3. \A f \in found' : f \in found \/ f.code # "SCAN.CANCELLED"
    BY <1>8, <2>2 DEF AdapterFails, RefuseResult, ApplyResult, AdapterFinding, Finding
  <2> QED BY <2>1, <2>3 DEF Has
<1>9. CASE Conclude
  <2>1. PICK fs : draft'.found = fs /\ (Has(fs, "SCAN.CANCELLED") => Has(found, "SCAN.CANCELLED"))
    <3> DEFINE scoped == found \cup (IF budget.scope THEN {Topic("SCAN.SCOPED_PARTIAL")} ELSE {})
               all(signs) == IF Has(scoped, "SCAN.CANCELLED") THEN scoped
                             ELSE scoped \cup CrossCuttingFindings(signs)
    <3>0. PICK signs \in Signs :
            draft' = [id |-> call, found |-> all(signs),
                      status |-> [c \in AuditCategories |-> Status(c, all(signs))],
                      disposition |-> Disposition(all(signs))]
      BY <1>9 DEF Conclude, Finalize
    <3>1. draft'.found = all(signs)
      BY <3>0
    <3>2. ~Has(CrossCuttingFindings(signs), "SCAN.CANCELLED")
      BY DEF CrossCuttingFindings, Signs, StackCodes, RiskSigns, Has, Finding, Topic
    <3>3. ~Has({Topic("SCAN.SCOPED_PARTIAL")}, "SCAN.CANCELLED")
      BY DEF Has, Finding, Topic
    <3> QED BY <3>1, <3>2, <3>3 DEF Has
  <2>2. pc = "conclude" /\ pc' = "finalize" /\ sig' = sig
    BY <1>9 DEF Conclude, Finalize
  <2> QED BY <2>1, <2>2 DEF Marked
<1>10. CASE FinalizeStart \/ Sanitized
  BY <1>10, Findings DEF FinalizeStart, Sanitized
<1>11. CASE Claim
  <2>1. /\ pc = "claim" /\ pc' = "scanned" /\ sig' = IF Marked(snapshot') THEN sig ELSE Claimed(sig)
        /\ snapshot' = IF Cancelled /\ ~Marked(draft) THEN MarkCancelled(draft) ELSE draft
    BY <1>11 DEF Claim
  <2>2. Marked(snapshot') <=> Cancelled
    BY <2>1, Findings
  <2> QED BY <2>1, <2>2 DEF Claimed
<1>12. CASE ScanFails
  BY <1>12 DEF ScanFails
<1> QED BY <1>1, <1>2, <1>3, <1>4, <1>5, <1>6, <1>7, <1>8, <1>9, <1>10, <1>11, <1>12 DEF RunScan, ScanStep

LEMMA SignalStep == ScanTypeOK /\ SignalInv /\ [Next]_allVars => SignalInv'
<1> SUFFICES ASSUME ScanTypeOK, SignalInv, [Next]_allVars PROVE SignalInv'
  OBVIOUS
<1> USE DEF SignalInv, Scanning, Drafting, Observing, Cancelled
<1>1. CASE UNCHANGED allVars
  BY <1>1 DEF allVars, vars, scanVars, govVars, Has, Marked
<1>2. CASE StartScan
  BY <1>2 DEF StartScan, Scan, NewSignal, Has
<1>3. CASE RunWorker
  BY <1>3 DEF RunWorker, AdapterWorker, scanVars, govVars, Has, Marked
<1>4. CASE RunScan
  BY <1>4, SignalScan
<1>5. CASE Cancel
  BY <1>5 DEF Cancel, scanVars, govVars, Has, Marked
<1>6. ASSUME NEW f \in Facts, Change(f) PROVE SignalInv'
  BY <1>6 DEF Change, vars, scanVars, govVars, Has, Marked
<1>7. CASE Crash \/ Return
  BY <1>7 DEF Crash, Return, Cleared
<1>8. CASE Observe
  BY <1>8 DEF Observe, NewSignal
<1>9. CASE ReadFact
  <2>1. /\ pc = "first" /\ sig' = sig /\ pc' \in {"first", "stamp", "raised"}
        /\ unknown' \subseteq unknown \cup Facts
    BY <1>9 DEF ReadFact, Goto, Raise, govVars
  <2> QED BY <2>1, FactsAssumption DEF AllFacts
<1>10. CASE RereadFact
  <2>1. /\ pc = "second" /\ sig' = sig /\ pc' \in {"second", "compare"}
        /\ unknown' \subseteq unknown \cup Facts
    BY <1>10 DEF RereadFact, Goto
  <2> QED BY <2>1, FactsAssumption DEF AllFacts
<1>11. CASE \/ ObserveFails \/ Probe \/ Stamp \/ RemoteAnswers \/ RemoteStopped \/ RereadFails
            \/ Compare \/ CheckCancellation \/ Redacted \/ RemoteWorker
  BY <1>11 DEF ObserveFails, Probe, Stamp, RemoteAnswers, RemoteStopped, RereadFails, Compare,
       CheckCancellation, Redacted, SeeCancellation, RemoteWorker, Raise, Goto, govVars
<1>12. CASE AdmitObservation
  BY <1>12 DEF AdmitObservation, Goto, Claimed
<1>13. CASE WriteSnapshot \/ WriteGovernance \/ WriteFails
  BY <1>13 DEF WriteSnapshot, WriteGovernance, WriteFails, End, Goto
<1> QED BY <1>1, <1>2, <1>3, <1>4, <1>5, <1>6, <1>7, <1>8, <1>9, <1>10, <1>11, <1>12, <1>13
        DEF Next, CallStep

-----------------------------------------------------------------------------
(* One instant *)

Versions == [n : Nat, bad : BOOLEAN]

\* What a reading of f finds at this moment.
Now(f) == IF f = "ref" /\ byCommand THEN Version(commit, FALSE) ELSE facts[f]

\* u was read before v: a fact of the same number has not changed in between.
Before(u, v) == u.n <= v.n /\ (u.n = v.n => u = v)

Stamped == {"remote", "second", "compare", "check", "redact", "admit"}

SeenInv ==
  /\ seen = [f \in DOMAIN seen |-> seen[f]] /\ DOMAIN seen \subseteq Facts
  /\ \A f \in DOMAIN seen : f \in unknown \/ (seen[f] \in Versions /\ Before(seen[f], Now(f)))
  /\ "ref" \in DOMAIN seen => seen["ref"].n = commit
  /\ pc \in {"probe", "first", "stamp"} => DOMAIN again = {}
  /\ pc \in Stamped \cup {"stamp"} => Facts \subseteq DOMAIN seen

HeldInv ==
  /\ held \in [Facts -> Versions]
  /\ \A f \in Facts : Before(held[f], Now(f)) /\ (f \in unknown \/ Before(seen[f], held[f]))
  /\ DOMAIN again \subseteq Facts
  /\ \A f \in DOMAIN again : f \in unknown \/ Before(held[f], again[f])
  /\ pc = "compare" => Facts \subseteq DOMAIN again
  /\ pc \in {"check", "redact", "admit"} /\ unknown = {} => seen = held

InstantInv ==
  /\ facts \in [Facts -> Versions] /\ commit \in Nat
  /\ pc \in Scanning \cup Drafting \cup {"scanned"} => DOMAIN seen = {} /\ DOMAIN again = {}
                                                       /\ seen = Unread /\ unknown = {}
  /\ pc \in Observing => SeenInv
  /\ pc \in Stamped => HeldInv
  /\ pc = "observed" =>
       /\ observation.snap = snapshot.id
       /\ observation.disposition # "BLOCKED" =>
            observation.read = held /\ observation.read["ref"].n = commit
  /\ pc = "written" => observation.snap \in published
  /\ disk = [snapshot |-> disk.snapshot, governance |-> disk.governance]
  /\ disk.governance.snap \in published

\* Steps that read nothing: they move on, or note that something is unknown.
LEMMA InstantFrame ==
  ASSUME InstantInv, unknown \subseteq unknown',
         UNCHANGED <<facts, commit, byCommand, seen, again, held, disk, published, observation, snapshot>>,
         \/ pc' = pc /\ unknown' = unknown
         \/ pc' = "raised"
         \/ pc = "probe" /\ pc' = "first"
         \/ pc = "remote" /\ pc' = "second"
         \/ pc = "second" /\ pc' = "check" /\ unknown' # {}
         \/ pc = "check" /\ pc' = "redact"
         \/ pc = "redact" /\ pc' = "admit"
  PROVE  InstantInv'
<1>1. \A f : Now(f)' = Now(f)
  BY DEF Now
<1>2. pc' \in Observing => SeenInv'
  <2> SUFFICES ASSUME pc' \in Observing PROVE SeenInv'
    OBVIOUS
  <2>1. pc \in Observing /\ SeenInv
    BY DEF InstantInv, Observing
  <2> QED BY <1>1, <2>1 DEF SeenInv, Stamped
<1>3. pc' \in Stamped => HeldInv'
  <2> SUFFICES ASSUME pc' \in Stamped PROVE HeldInv'
    OBVIOUS
  <2>1. pc \in Stamped /\ HeldInv
    BY DEF InstantInv, Stamped
  <2> QED BY <1>1, <2>1 DEF HeldInv
<1> QED BY <1>2, <1>3 DEF InstantInv, Scanning, Drafting

LEMMA ReadingFinds ==
  ASSUME NEW f \in Facts, NEW v \in Reading(f)
  PROVE  v = Now(f) \/ v = Unknown
BY DEF Reading, ReadRef, CurrentBranch, ConfiguredRemotes, Branches, Worktrees, Now

LEMMA NowIsVersion ==
  ASSUME InstantInv, NEW f \in Facts
  PROVE  Now(f) \in Versions /\ Before(Now(f), Now(f))
BY DEF InstantInv, Now, Versions, Version, Before

LEMMA InstantReads == InstantInv /\ ReadFact => InstantInv'
<1> SUFFICES ASSUME InstantInv, ReadFact PROVE InstantInv'
  OBVIOUS
<1>1. CASE pc' = "raised"
  BY <1>1 DEF ReadFact, Raise, Goto, InstantInv, govVars, diskVars, Scanning, Drafting, Observing, Stamped
<1>2. CASE pc' # "raised"
  <2>1. PICK f \in Facts : \E v \in Reading(f) :
          /\ f \notin DOMAIN seen /\ (f = "ref" => v.n = commit)
          /\ seen' = Read(seen, f, v)
          /\ unknown' = IF v.bad THEN unknown \cup {f} ELSE unknown
          /\ pc' = IF Facts \subseteq DOMAIN seen' THEN "stamp" ELSE "first"
    BY <1>2 DEF ReadFact, ReadsNext, Raise, Goto
  <2>2. PICK v \in Reading(f) :
          /\ f \notin DOMAIN seen /\ (f = "ref" => v.n = commit)
          /\ seen' = Read(seen, f, v)
          /\ unknown' = IF v.bad THEN unknown \cup {f} ELSE unknown
          /\ pc' = IF Facts \subseteq DOMAIN seen' THEN "stamp" ELSE "first"
    BY <2>1
  <2>3. /\ pc = "first"
        /\ UNCHANGED <<facts, commit, byCommand, again, held, disk, published, observation, snapshot>>
    BY <1>2 DEF ReadFact, Raise, Goto, diskVars, govVars
  <2>4. SeenInv
    BY <2>3 DEF InstantInv, Observing
  <2>5. \A g : Now(g)' = Now(g)
    BY <2>3 DEF Now
  <2>6. /\ DOMAIN seen' = DOMAIN seen \cup {f} /\ seen'[f] = v
        /\ \A g \in DOMAIN seen : seen'[g] = seen[g]
        /\ seen' = [g \in DOMAIN seen' |-> seen'[g]]
    BY <2>2 DEF Read
  <2>7. f \in unknown' \/ (v \in Versions /\ Before(v, Now(f)))
    BY <2>2, ReadingFinds, NowIsVersion DEF Unknown, Version
  <2>8. SeenInv'
    BY <2>2, <2>3, <2>4, <2>5, <2>6, <2>7 DEF SeenInv, Stamped
  <2> QED BY <2>2, <2>3, <2>8 DEF InstantInv, Scanning, Drafting, Stamped
<1> QED BY <1>1, <1>2

LEMMA InstantStamps == InstantInv /\ Stamp => InstantInv'
<1> SUFFICES ASSUME InstantInv, Stamp PROVE InstantInv'
  OBVIOUS
<1>1. /\ pc = "stamp" /\ pc' \in {"remote", "second"}
      /\ UNCHANGED <<facts, commit, byCommand, seen, again, unknown, disk, published, observation, snapshot>>
      /\ held' = [facts EXCEPT !["ref"] = IF byCommand THEN Version(commit, FALSE) ELSE @]
  BY DEF Stamp, Goto, diskVars
<1>2. SeenInv /\ facts \in [Facts -> Versions] /\ commit \in Nat
  BY <1>1 DEF InstantInv, Observing
<1>3. \A f : Now(f)' = Now(f)
  BY <1>1 DEF Now
<1>4. held' \in [Facts -> Versions] /\ \A f \in Facts : held'[f] = Now(f)
  BY <1>1, <1>2, FactsAssumption DEF Now, Versions, Version
<1>5. \A f \in Facts : Before(Now(f), Now(f))
  BY NowIsVersion
<1>6. DOMAIN again' = {} /\ Facts \subseteq DOMAIN seen
  BY <1>1, <1>2 DEF SeenInv
<1>7. \A f \in Facts : f \in unknown \/ Before(seen[f], Now(f))
  BY <1>2, <1>6 DEF SeenInv
<1>8. HeldInv'
  BY <1>1, <1>3, <1>4, <1>5, <1>6, <1>7 DEF HeldInv
<1>9. SeenInv'
  BY <1>1, <1>2, <1>3, <1>6 DEF SeenInv
<1> QED BY <1>1, <1>8, <1>9 DEF InstantInv, Scanning, Drafting

LEMMA InstantRereads == InstantInv /\ RereadFact => InstantInv'
<1> SUFFICES ASSUME InstantInv, RereadFact PROVE InstantInv'
  OBVIOUS
<1>1. PICK f \in Facts : \E v \in Reading(f) :
        /\ again' = Read(again, f, v)
        /\ unknown' = IF v.bad THEN unknown \cup {f} ELSE unknown
  BY DEF RereadFact
<1>2. PICK v \in Reading(f) :
        /\ again' = Read(again, f, v)
        /\ unknown' = IF v.bad THEN unknown \cup {f} ELSE unknown
  BY <1>1
<1>3. /\ pc = "second" /\ pc' = (IF Facts \subseteq DOMAIN again' THEN "compare" ELSE "second")
      /\ UNCHANGED <<facts, commit, byCommand, seen, held, disk, published, observation, snapshot>>
  BY DEF RereadFact, Goto, diskVars
<1>4. SeenInv /\ HeldInv
  BY <1>3 DEF InstantInv, Observing, Stamped
<1>5. \A g : Now(g)' = Now(g)
  BY <1>3 DEF Now
<1>6. /\ DOMAIN again' = DOMAIN again \cup {f} /\ again'[f] = v
      /\ \A g \in DOMAIN again : g # f => again'[g] = again[g]
  BY <1>2 DEF Read
<1>7. f \in unknown' \/ Before(held[f], v)
  BY <1>2, <1>4, ReadingFinds DEF Unknown, Version, HeldInv
<1>8. HeldInv'
  BY <1>2, <1>3, <1>4, <1>5, <1>6, <1>7 DEF HeldInv
<1>9. SeenInv'
  BY <1>2, <1>3, <1>4, <1>5 DEF SeenInv, Stamped
<1> QED BY <1>3, <1>8, <1>9 DEF InstantInv, Scanning, Drafting

\* Two readings with the same number enclose a fact that did not change, so the
\* facts read twice alike are those that held when the clock was read.
LEMMA InstantCompares == InstantInv /\ Compare => InstantInv'
<1> SUFFICES ASSUME InstantInv, Compare PROVE InstantInv'
  OBVIOUS
<1>1. /\ pc = "compare" /\ pc' = "check"
      /\ unknown' = IF Agree THEN unknown ELSE unknown \cup {"concurrent_local_mutation"}
      /\ UNCHANGED <<facts, commit, byCommand, seen, again, held, disk, published, observation, snapshot>>
  BY DEF Compare, Goto, diskVars
<1>2. SeenInv /\ HeldInv
  BY <1>1 DEF InstantInv, Observing, Stamped
<1>3. \A f : Now(f)' = Now(f)
  BY <1>1 DEF Now
<1>4. unknown' = {} => seen = held
  <2> SUFFICES ASSUME unknown' = {} PROVE seen = held
    OBVIOUS
  <2>1. Agree /\ unknown = {}
    BY <1>1
  <2>2. DOMAIN seen = Facts /\ DOMAIN again = Facts
    BY <1>1, <1>2 DEF SeenInv, HeldInv, Stamped
  <2>3. ASSUME NEW f \in Facts PROVE seen[f] = held[f]
    <3>1. again[f] = seen[f]
      BY <2>1 DEF Agree
    <3>2. Before(seen[f], held[f]) /\ Before(held[f], again[f])
      BY <1>2, <2>1, <2>2 DEF HeldInv
    <3>3. seen[f].n \in Nat /\ held[f].n \in Nat
      BY <1>2, <2>1, <2>2 DEF SeenInv, HeldInv, Versions
    <3> QED BY <3>1, <3>2, <3>3 DEF Before
  <2> QED BY <1>2, <2>2, <2>3 DEF SeenInv, HeldInv
<1>5. HeldInv'
  BY <1>1, <1>2, <1>3, <1>4 DEF HeldInv
<1>6. SeenInv'
  BY <1>1, <1>2, <1>3 DEF SeenInv, Stamped
<1> QED BY <1>1, <1>5, <1>6 DEF InstantInv, Scanning, Drafting

LEMMA InstantChanges == ASSUME InstantInv, NEW f \in Facts, Change(f) PROVE InstantInv'
<1>1. PICK bad \in BOOLEAN : facts' = [facts EXCEPT ![f] = Version(facts[f].n + 1, bad)]
  BY DEF Change
<1>2. UNCHANGED <<pc, commit, byCommand, seen, again, held, unknown, disk, published, observation, snapshot>>
  BY DEF Change, vars, govVars, diskVars
<1>3. facts \in [Facts -> Versions] /\ commit \in Nat
  BY DEF InstantInv
<1>4. facts' \in [Facts -> Versions]
  BY <1>1, <1>3 DEF Versions, Version
<1>5. ASSUME NEW g \in Facts, NEW u, u.n \in Nat, Before(u, Now(g)) PROVE Before(u, Now(g)')
  <2>1. CASE g = f /\ ~(f = "ref" /\ byCommand)
    <3>1. Now(g) = facts[f] /\ Now(g)' = Version(facts[f].n + 1, bad)
      BY <1>1, <1>2, <1>3, <2>1 DEF Now
    <3>2. facts[f].n \in Nat /\ Version(facts[f].n + 1, bad).n = facts[f].n + 1
      BY <1>3 DEF Versions, Version
    <3> QED BY <1>5, <3>1, <3>2 DEF Before
  <2>2. CASE ~(g = f /\ ~(f = "ref" /\ byCommand))
    <3>1. Now(g)' = Now(g)
      BY <1>1, <1>2, <1>3, <2>2 DEF Now
    <3> QED BY <1>5, <3>1
  <2> QED BY <2>1, <2>2
<1>6. SeenInv => SeenInv'
  BY <1>2, <1>5 DEF SeenInv, Versions
<1>7. HeldInv => HeldInv'
  BY <1>2, <1>5 DEF HeldInv, Versions
<1> QED BY <1>2, <1>4, <1>6, <1>7 DEF InstantInv

LEMMA ScanPlaces == RunScan => /\ pc \in Scanning \cup Drafting
                               /\ pc' \in Scanning \cup Drafting \cup {"scanned", "raised"}
BY DEF RunScan, ScanStep, ResolveIdentity, IdentityCancelled, CollectToolVersions, ListTree,
   BoundPath, PathsBounded, ReadEntry, ReadCancelled, EntriesRead, AdaptersCancelled, StartAdapter,
   AdapterFails, RefuseResult, ApplyResult, NextAdapter, AdaptersDone, Conclude, FinalizeStart,
   Sanitized, Claim, ScanFails, Finalize, Scanning, Drafting

LEMMA InstantStep == InstantInv /\ [Next]_allVars => InstantInv'
<1> SUFFICES ASSUME InstantInv, [Next]_allVars PROVE InstantInv'
  OBVIOUS
<1>1. CASE UNCHANGED allVars
  BY <1>1, InstantFrame DEF allVars, vars, govVars, diskVars
<1>2. CASE RunWorker
  BY <1>2, InstantFrame DEF RunWorker, AdapterWorker, govVars, diskVars
<1>3. CASE RemoteWorker
  BY <1>3, InstantFrame DEF RemoteWorker, govVars, diskVars
<1>4. CASE Cancel
  BY <1>4, InstantFrame DEF Cancel, govVars, diskVars
<1>5. CASE ObserveFails \/ Probe \/ WriteFails
  BY <1>5, InstantFrame DEF ObserveFails, Probe, WriteFails, Raise, End, Goto, govVars, diskVars
<1>6. CASE RemoteAnswers \/ RemoteStopped \/ RereadFails \/ CheckCancellation \/ Redacted
  BY <1>6, InstantFrame DEF RemoteAnswers, RemoteStopped, RereadFails, CheckCancellation, Redacted,
       SeeCancellation, Goto, diskVars
<1>7. CASE RunScan
  <2>1. /\ UNCHANGED <<facts, seen, again, unknown, held, observation, disk, published>>
        /\ commit' \in {commit, facts["ref"].n}
    BY <1>7 DEF RunScan, diskVars
  <2>2. commit' \in Nat
    BY <2>1, FactsAssumption DEF InstantInv, Versions
  <2>3. pc' \notin Observing \cup {"observed", "written"}
    BY <1>7, ScanPlaces DEF Observing, Scanning, Drafting
  <2> QED BY <1>7, <2>1, <2>2, <2>3, ScanPlaces DEF InstantInv, Observing, Stamped
<1>8. CASE StartScan
  BY <1>8 DEF StartScan, Scan, diskVars, InstantInv, Unread, Observing, Stamped
<1>9. CASE Observe
  <2>1. /\ pc = "scanned" /\ pc' = "probe"
        /\ UNCHANGED <<facts, commit, byCommand, seen, again, held, unknown, disk, published, observation>>
    BY <1>9 DEF Observe, diskVars
  <2>2. DOMAIN seen = {} /\ DOMAIN again = {} /\ seen = Unread
    BY <2>1 DEF InstantInv
  <2>3. SeenInv'
    BY <2>1, <2>2 DEF SeenInv, Stamped, Unread
  <2> QED BY <2>1, <2>3 DEF InstantInv, Scanning, Drafting, Stamped
<1>10. CASE AdmitObservation
  <2>1. /\ pc = "admit" /\ pc' = "observed" /\ unknown \subseteq unknown'
        /\ observation' = [id |-> call, snap |-> snapshot.id, read |-> seen, unknown |-> unknown',
                           disposition |-> IF unknown' # {} THEN "BLOCKED" ELSE "PARTIAL"]
        /\ UNCHANGED <<facts, commit, byCommand, seen, again, held, disk, published, snapshot>>
    BY <1>10 DEF AdmitObservation, Goto, diskVars
  <2>2. SeenInv /\ HeldInv
    BY <2>1 DEF InstantInv, Observing, Stamped
  <2>3. unknown' = {} => seen = held /\ seen["ref"].n = commit
    BY <2>1, <2>2, FactsAssumption DEF SeenInv, HeldInv, Stamped
  <2>4. /\ observation'.snap = snapshot.id /\ observation'.read = seen
        /\ observation'.disposition # "BLOCKED" => unknown' = {}
    BY <2>1
  <2> QED BY <2>1, <2>3, <2>4 DEF InstantInv, Scanning, Drafting, Observing, Stamped
<1>11. CASE WriteSnapshot
  <2>1. /\ pc \in {"observed", "scanned"} /\ pc' = (IF pc = "observed" THEN "written" ELSE "done")
        /\ disk' = [disk EXCEPT !.snapshot = snapshot.id] /\ published' = published \cup {snapshot.id}
        /\ UNCHANGED <<facts, commit, observation>>
    BY <1>11 DEF WriteSnapshot, govVars
  <2>2. pc = "observed" => observation.snap = snapshot.id
    BY DEF InstantInv
  <2> QED BY <2>1, <2>2 DEF InstantInv, Scanning, Drafting, Observing, Stamped
<1>12. CASE WriteGovernance
  <2>1. /\ pc = "written" /\ pc' = "done" /\ UNCHANGED <<facts, commit, published>>
        /\ disk' = [disk EXCEPT !.governance = [id |-> observation.id, snap |-> observation.snap]]
    BY <1>12 DEF WriteGovernance, End, Goto, govVars
  <2>2. observation.snap \in published
    BY <2>1 DEF InstantInv
  <2> QED BY <2>1, <2>2 DEF InstantInv, Scanning, Drafting, Observing, Stamped
<1>13. CASE Return \/ Crash
  BY <1>13 DEF Return, Crash, Cleared, diskVars, InstantInv, Scanning, Drafting, Observing, Stamped
<1> QED BY <1>1, <1>2, <1>3, <1>4, <1>5, <1>6, <1>7, <1>8, <1>9, <1>10, <1>11, <1>12, <1>13,
           InstantReads, InstantStamps, InstantRereads, InstantCompares, InstantChanges
        DEF Next, CallStep

-----------------------------------------------------------------------------
(* Nothing partial passes for the whole *)

Clean(fs) == \A f \in fs : f.code \notin PartialCodes

Whole == \A e \in Entries : e \in files /\ ~Large(e)

Judged(n) ==
  \A i \in 1 .. Len(Adapters) : i < n => i \in applied \/ Has(found, "ADAPTER.INVALID_EVIDENCE")

Visible(d) ==
  \A c \in AuditCategories :
    d.status[c] \in {"OBSERVED", "NOT_OBSERVED"} =>
      /\ Whole
      /\ \A i \in 1 .. Len(Adapters) :
           c \in Adapters[i].cats =>
             i \in applied \/ (/\ Has(d.found, "ADAPTER.INVALID_EVIDENCE")
                               /\ d.disposition = "BLOCKED")

PartialInv ==
  /\ pc \in {"identity", "tools", "list", "bound"} => files = {}
  /\ pc \in {"identity", "tools", "list", "bound", "read"} => next = 1
  /\ pc = "bound" /\ Clean(found) /\ ~budget.scope => Entries \subseteq todo \cup kept
  /\ pc = "read" /\ Clean(found) =>
       /\ ~budget.scope => Entries \subseteq todo \cup files
       /\ \A e \in files : ~Large(e)
  /\ pc \in {"adapters", "adapter", "conclude"} /\ Clean(found) /\ ~budget.scope => Whole
  /\ pc \in {"adapters", "adapter"} /\ Clean(found) => Judged(next)
  /\ pc = "conclude" /\ Clean(found) => Judged(Len(Adapters) + 1)
  /\ pc \in Drafting => Visible(draft)
  /\ pc = "scanned" => Visible(snapshot)

\* A listing that ended within the file budget, of a scan without a scope, is
\* the whole tree.
LEMMA ListedWhole ==
  ASSUME NEW stop \in ListingStops, Clean(ListingFindings(stop)), budget \in Budgets, ~budget.scope
  PROVE  Entries \subseteq WithinCount(stop)
<1>1. Len(Tree) \in Nat /\ budget.files \in Nat
  BY TreeAssumption, BudgetsAssumption DEF Configs
<1>2. stop # "bytes" /\ stop # "records"
  <2>1. stop = "bytes" => Topic("BUDGET.TREE_OUTPUT_BYTES") \in ListingFindings(stop)
    BY DEF ListingFindings
  <2>2. stop = "records" => Topic("BUDGET.FILE_COUNT") \in ListingFindings(stop)
    BY DEF ListingFindings
  <2>3. Topic("BUDGET.TREE_OUTPUT_BYTES").code \in PartialCodes /\ Topic("BUDGET.FILE_COUNT").code \in PartialCodes
    BY DEF Topic, Finding, PartialCodes
  <2> QED BY <2>1, <2>2, <2>3 DEF Clean
<1>3. Len(Tree) <= budget.files
  BY <1>2 DEF ListingStops
<1>4. Listed(stop) = Entries
  BY <1>1, <1>2, <1>3 DEF Listed, InScope, Entries
<1>5. ASSUME NEW e \in Entries PROVE Cardinality({d \in Listed(stop) : d <= e}) <= budget.files
  <2>1. IsFiniteSet(Entries) /\ Cardinality(Entries) = Len(Tree)
    <3>1. PICK n \in Nat : n = Len(Tree)
      BY <1>1
    <3>2. IsFiniteSet(1 .. n) /\ Cardinality(1 .. n) = IF 1 > n THEN 0 ELSE n - 1 + 1
      BY FS_Interval
    <3>3. Cardinality(1 .. n) = n
      BY <3>2
    <3> QED BY <3>1, <3>2, <3>3 DEF Entries
  <2> DEFINE S == {d \in Listed(stop) : d <= e}
  <2>2. S \subseteq Entries
    BY <1>4
  <2> HIDE DEF S
  <2>3. Cardinality(S) <= Cardinality(Entries) /\ IsFiniteSet(S)
    BY <2>1, <2>2, FS_Subset
  <2>4. Cardinality(S) \in Nat
    BY <2>3, FS_CardinalityType
  <2> QED BY <1>1, <1>3, <2>1, <2>3, <2>4 DEF S
<1> QED BY <1>4, <1>5 DEF WithinCount

LEMMA CleanParts ==
  /\ \A a, b : Clean(a \cup b) => Clean(a) /\ Clean(b)
  /\ \A a : ~Clean(a \cup {CancelledFinding})
  /\ \A a : \A code \in PartialCodes : ~Clean(a \cup {Topic(code)})
<1>1. \A code : Topic(code).code = code
  BY DEF Topic, Finding
<1>2. CancelledFinding.code \in PartialCodes
  BY <1>1 DEF CancelledFinding, PartialCodes
<1> QED BY <1>1, <1>2 DEF Clean

LEMMA BudgetCodes ==
  {"BUDGET.COMMAND_COUNT", "BUDGET.PATH_DEPTH", "BUDGET.DIRECTORY_COUNT", "BUDGET.TOTAL_BYTES",
   "BUDGET.FILE_BYTES"} \subseteq PartialCodes
BY DEF PartialCodes

\* A snapshot of which every category is blocked claims nothing.
LEMMA BlockedIsVisible == ASSUME NEW fs PROVE Visible(BlockedDraft(fs))
<1>1. \A c \in AuditCategories : BlockedDraft(fs).status[c] = "BLOCKED"
  BY DEF BlockedDraft
<1> QED BY <1>1 DEF Visible

\* What the listing, bounding and reading of the tree leave out, they say.
LEMMA PartialLists ==
  ASSUME ScanTypeOK, PartialInv,
         \/ ResolveIdentity \/ IdentityCancelled \/ CollectToolVersions
         \/ ListTree \/ BoundPath \/ PathsBounded \/ ReadEntry \/ ReadCancelled \/ EntriesRead
  PROVE  PartialInv'
<1>1. CASE ResolveIdentity \/ IdentityCancelled
  BY <1>1 DEF ResolveIdentity, IdentityCancelled, scanVars, PartialInv, Drafting
<1>2. CASE CollectToolVersions
  <2>1. CASE pc' = "list"
    BY <1>2, <2>1 DEF CollectToolVersions, Finalize, PartialInv, Drafting
  <2>2. CASE pc' = "finalize"
    <3>1. PICK fs : draft' = BlockedDraft(fs) /\ BlockedDraft(fs)' = BlockedDraft(fs)
      BY <1>2, <2>2 DEF CollectToolVersions, Finalize, CancelledSnapshot, CommandBudgetSnapshot,
           BlockedDraft
    <3>2. Visible(draft)'
      BY <3>1 DEF Visible, BlockedDraft
    <3> QED BY <2>2, <3>2 DEF PartialInv, Drafting
  <2> QED BY <1>2, <2>1, <2>2 DEF CollectToolVersions, Finalize
<1>3. CASE ListTree
  <2>1. pc = "list" /\ UNCHANGED <<budget, next, applied, files>> /\ budget \in Budgets
    BY <1>3 DEF ListTree, ScanTypeOK, Scanning
  <2>2. CASE pc' = "adapters"
    <3>1. ~Clean(found')
      BY <1>3, <2>2, CleanParts, BudgetCodes DEF ListTree
    <3> QED BY <2>2, <3>1 DEF PartialInv, Drafting
  <2>3. CASE pc' = "bound"
    <3>1. PICK stop \in ListingStops : found' = found \cup ListingFindings(stop) /\ todo' = WithinCount(stop)
      BY <1>3, <2>3 DEF ListTree
    <3>2. Clean(found') /\ ~budget.scope => Entries \subseteq todo'
      BY <2>1, <3>1, CleanParts, ListedWhole
    <3> QED BY <2>1, <2>3, <3>2 DEF PartialInv, Drafting
  <2> QED BY <1>3, <2>2, <2>3 DEF ListTree
<1>4. CASE BoundPath
  <2>1. pc = "bound" /\ UNCHANGED <<budget, next, applied, files>>
    BY <1>4 DEF BoundPath
  <2>2. CASE pc' = "adapters"
    <3>1. ~Clean(found')
      BY <1>4, <2>2, CleanParts DEF BoundPath
    <3> QED BY <2>2, <3>1 DEF PartialInv, Drafting
  <2>3. CASE pc' = "bound"
    <3>1. Clean(found') => found' = found /\ todo' \cup kept' = todo \cup kept \cup {Min(todo)}
      BY <1>4, <2>3, CleanParts, BudgetCodes DEF BoundPath
    <3> QED BY <2>1, <2>3, <3>1 DEF PartialInv, Drafting
  <2> QED BY <1>4, <2>2, <2>3 DEF BoundPath
<1>5. CASE PathsBounded
  BY <1>5 DEF PathsBounded, PartialInv, Drafting
<1>6. CASE ReadEntry
  <2>1. pc = "read" /\ UNCHANGED <<budget, next, applied>>
    BY <1>6 DEF ReadEntry
  <2>2. CASE pc' = "adapters"
    <3>1. ~Clean(found')
      BY <1>6, <2>2, CleanParts, BudgetCodes DEF ReadEntry
    <3> QED BY <2>2, <3>1 DEF PartialInv, Drafting
  <2>3. CASE pc' = "read"
    <3>1. Clean(found') => /\ Clean(found)
                           /\ files' = files \cup {Min(todo)} /\ todo' = todo \ {Min(todo)}
                           /\ ~Large(Min(todo))
      BY <1>6, <2>3, CleanParts, BudgetCodes DEF ReadEntry, Blob
    <3>2. \A e : Large(e)' = Large(e)
      BY <2>1 DEF Large
    <3> QED BY <2>1, <2>3, <3>1, <3>2 DEF PartialInv, Drafting
  <2> QED BY <1>6, <2>2, <2>3 DEF ReadEntry
<1>7. CASE ReadCancelled
  <2>1. CASE pc' = "adapters"
    <3>1. ~Clean(found')
      BY <1>7, <2>1, CleanParts DEF ReadCancelled, Finalize
    <3> QED BY <2>1, <3>1 DEF PartialInv, Drafting
  <2>2. CASE pc' = "finalize"
    <3>1. PICK fs : draft' = BlockedDraft(fs) /\ BlockedDraft(fs)' = BlockedDraft(fs)
      BY <1>7, <2>2 DEF ReadCancelled, Finalize, CancelledSnapshot, BlockedDraft
    <3>2. Visible(draft)'
      BY <3>1 DEF Visible, BlockedDraft
    <3> QED BY <2>2, <3>2 DEF PartialInv, Drafting
  <2> QED BY <1>7, <2>1, <2>2 DEF ReadCancelled, Finalize
<1>8. CASE EntriesRead
  <2>1. pc = "read" /\ todo = {} /\ pc' = "adapters" /\ UNCHANGED <<budget, next, applied, files, found>>
    BY <1>8 DEF EntriesRead, scanVars
  <2>2. Clean(found') /\ ~budget'.scope => Whole'
    BY <2>1 DEF PartialInv, Whole, Large
  <2>3. Judged(next)'
    BY <2>1 DEF PartialInv, Judged
  <2> QED BY <2>1, <2>2, <2>3 DEF PartialInv, Drafting
<1> QED BY <1>1, <1>2, <1>3, <1>4, <1>5, <1>6, <1>7, <1>8

\* An adapter whose result is not taken over leaves a finding.
LEMMA PartialJudges ==
  ASSUME ScanTypeOK, PartialInv,
         \/ AdaptersCancelled \/ StartAdapter \/ AdapterFails \/ RefuseResult \/ ApplyResult
         \/ AdaptersDone
  PROVE  PartialInv'
<1>0. UNCHANGED <<budget, files>> /\ (Whole' <=> Whole)
  BY DEF AdaptersCancelled, StartAdapter, AdapterFails, RefuseResult, ApplyResult, AdaptersDone,
     scanVars, Whole, Large
<1>1. CASE AdaptersCancelled
  <2>1. ~Clean(found') /\ pc' = "conclude"
    BY <1>1, CleanParts DEF AdaptersCancelled
  <2> QED BY <2>1 DEF PartialInv, Drafting
<1>2. CASE StartAdapter
  <2>1. pc = "adapters" /\ pc' = "adapter" /\ UNCHANGED <<budget, next, applied, files, found>>
    BY <1>2 DEF StartAdapter
  <2>2. Judged(next)' <=> Judged(next)
    BY <2>1 DEF Judged, Adapters, Has
  <2> QED BY <1>0, <2>1, <2>2 DEF PartialInv, Drafting
<1>3. CASE AdapterFails \/ RefuseResult \/ ApplyResult
  <2>1. /\ pc = "adapter" /\ pc' = "adapters" /\ next' = next + 1 /\ next \in Nat
        /\ applied \subseteq applied' /\ found \subseteq found'
    BY <1>3 DEF AdapterFails, RefuseResult, ApplyResult, NextAdapter, ScanTypeOK, Scanning
  <2>2. Clean(found') => Clean(found)
    BY <2>1 DEF Clean
  <2>3. Clean(found') => next \in applied' \/ Has(found', "ADAPTER.INVALID_EVIDENCE")
    <3>1. AdapterFinding("ADAPTER.FAILURE").code \in PartialCodes
      BY DEF AdapterFinding, Finding, PartialCodes
    <3>2. AdapterFinding("ADAPTER.INVALID_EVIDENCE").code = "ADAPTER.INVALID_EVIDENCE"
      BY DEF AdapterFinding, Finding
    <3> QED BY <1>3, <3>1, <3>2 DEF AdapterFails, RefuseResult, ApplyResult, Clean, Has
  <2>4. Clean(found') => Judged(next)'
    <3> SUFFICES ASSUME Clean(found'), NEW i \in 1 .. Len(Adapters), i < next + 1
                 PROVE  i \in applied' \/ Has(found', "ADAPTER.INVALID_EVIDENCE")
      BY <1>0, <2>1 DEF Judged, Adapters
    <3>1. CASE i = next
      BY <2>3, <3>1
    <3>2. CASE i < next
      BY <2>1, <2>2, <3>2 DEF PartialInv, Judged, Has
    <3> QED BY <2>1, <3>1, <3>2
  <2> QED BY <1>0, <2>1, <2>2, <2>4 DEF PartialInv, Drafting
<1>4. CASE AdaptersDone
  <2>1. /\ pc = "adapters" /\ pc' = "conclude" /\ next > Len(Adapters)
        /\ UNCHANGED <<budget, next, applied, files, found>>
    BY <1>4 DEF AdaptersDone, scanVars
  <2>2. next \in Nat /\ Len(Adapters) \in Nat
    <3>1. budget \in Configs
      BY <2>1, BudgetsAssumption DEF ScanTypeOK, Scanning
    <3> QED BY <2>1, <3>1 DEF ScanTypeOK, Scanning, Configs, Adapters
  <2>3. Judged(next) => Judged(Len(Adapters) + 1)'
    BY <2>1, <2>2 DEF Judged, Adapters, Has
  <2> QED BY <1>0, <2>1, <2>3 DEF PartialInv, Drafting
<1> QED BY <1>1, <1>2, <1>3, <1>4

\* A category is claimed only for a scan without a partial finding.
LEMMA StatusClaims ==
  ASSUME NEW c \in AuditCategories, NEW fs, Status(c, fs) \in {"OBSERVED", "NOT_OBSERVED"}
  PROVE  Clean(fs)
<1>1. c # "active_divergent_work"
  BY DEF Status, FirstStatus, Unsupported
<1>2. FirstStatus(c, fs) \notin Unsupported
  BY DEF Status, Unsupported
<1> QED BY <1>1, <1>2 DEF Status, Clean

LEMMA PartialConcludes == ASSUME ScanTypeOK, PartialInv, Conclude PROVE PartialInv'
<1> DEFINE scoped == found \cup (IF budget.scope THEN {Topic("SCAN.SCOPED_PARTIAL")} ELSE {})
           all(signs) == IF Has(scoped, "SCAN.CANCELLED") THEN scoped
                         ELSE scoped \cup CrossCuttingFindings(signs)
<1>1. PICK signs \in Signs :
        draft' = [id |-> call, found |-> all(signs),
                  status |-> [c \in AuditCategories |-> Status(c, all(signs))],
                  disposition |-> Disposition(all(signs))]
  BY DEF Conclude, Finalize
<1>2. /\ pc = "conclude" /\ pc' = "finalize"
      /\ UNCHANGED <<budget, files, applied>>
  BY DEF Conclude, Finalize
<1>3. PICK fs : fs = all(signs)
  OBVIOUS
<1>4. found \subseteq fs /\ (budget.scope => Topic("SCAN.SCOPED_PARTIAL") \in fs)
  BY <1>3
<1> HIDE DEF all, scoped
<1>5. /\ draft'.found = fs /\ draft'.disposition = Disposition(fs)
      /\ \A c \in AuditCategories : draft'.status[c] = Status(c, fs)
  BY <1>1, <1>3
<1>6. Whole' <=> Whole
  BY <1>2 DEF Whole, Large
<1>7. ASSUME NEW c \in AuditCategories, draft'.status[c] \in {"OBSERVED", "NOT_OBSERVED"}
      PROVE  /\ Whole'
             /\ \A i \in 1 .. Len(Adapters) :
                  i \in applied \/ (/\ Has(draft'.found, "ADAPTER.INVALID_EVIDENCE")
                                    /\ draft'.disposition = "BLOCKED")
  <2>1. Clean(fs)
    BY <1>5, <1>7, StatusClaims
  <2>2. Topic("SCAN.SCOPED_PARTIAL").code \in PartialCodes
    BY DEF Topic, Finding, PartialCodes
  <2>3. Clean(found) /\ ~budget.scope
    BY <1>4, <2>1, <2>2 DEF Clean
  <2>4. Whole /\ Judged(Len(Adapters) + 1)
    BY <1>2, <2>3 DEF PartialInv
  <2>5. Has(found, "ADAPTER.INVALID_EVIDENCE") =>
          Has(fs, "ADAPTER.INVALID_EVIDENCE") /\ Disposition(fs) = "BLOCKED"
    <3>1. "ADAPTER.INVALID_EVIDENCE" \in BlockingCodes
      BY DEF BlockingCodes
    <3> QED BY <1>4, <3>1 DEF Has, Disposition
  <2>6. Len(Adapters) \in Nat
    <3>1. budget \in Configs
      BY <1>2, BudgetsAssumption DEF ScanTypeOK, Scanning
    <3> QED BY <3>1 DEF Configs, Adapters
  <2> QED BY <1>5, <1>6, <2>4, <2>5, <2>6 DEF Judged
<1>8. Visible(draft)'
  BY <1>2, <1>7 DEF Visible, Adapters
<1> QED BY <1>2, <1>8 DEF PartialInv, Drafting

\* Marking a draft as cancelled takes every claim back.
LEMMA PartialFinalizes ==
  ASSUME PartialInv, FinalizeStart \/ Sanitized \/ Claim PROVE PartialInv'
<1>1. /\ pc \in Drafting /\ pc' \in {"sanitize", "claim", "scanned"}
      /\ UNCHANGED <<budget, files, applied, call>>
  BY DEF FinalizeStart, Sanitized, Claim, Drafting, scanVars
<1>2. PICK d : /\ d = IF pc' = "scanned" THEN snapshot' ELSE draft'
               /\ d = draft \/ \E fs : d = BlockedDraft(fs)
  BY DEF FinalizeStart, Sanitized, Claim, MarkCancelled
<1>3. Visible(d)
  BY <1>1, <1>2, BlockedIsVisible DEF PartialInv
<1>4. pc' \in Drafting => Visible(draft)'
  BY <1>1, <1>2, <1>3 DEF Visible, Whole, Large, Adapters, Drafting
<1>5. pc' = "scanned" => Visible(snapshot)'
  BY <1>1, <1>2, <1>3 DEF Visible, Whole, Large, Adapters
<1> QED BY <1>1, <1>4, <1>5 DEF PartialInv

LEMMA PartialFrame ==
  ASSUME PartialInv, UNCHANGED <<pc, budget, todo, kept, files, next, applied, found, draft, snapshot>>
  PROVE  PartialInv'
<1>1. \A e : Large(e)' = Large(e)
  BY DEF Large
<1>2. Whole' = Whole
  BY <1>1 DEF Whole
<1>3. Clean(found)' = Clean(found)
  BY DEF Clean
<1>4. (Judged(next)' = Judged(next)) /\ (Judged(Len(Adapters) + 1)' = Judged(Len(Adapters) + 1))
  BY DEF Judged, Adapters, Has
<1>5. (Visible(draft)' = Visible(draft)) /\ (Visible(snapshot)' = Visible(snapshot))
  BY <1>2 DEF Visible, Adapters, Has
<1> QED BY <1>1, <1>2, <1>3, <1>4, <1>5 DEF PartialInv

LEMMA PartialStep == ScanTypeOK /\ PartialInv /\ [Next]_allVars => PartialInv'
<1> SUFFICES ASSUME ScanTypeOK, PartialInv, [Next]_allVars PROVE PartialInv'
  OBVIOUS
<1>1. ASSUME pc' \notin Scanning \cup Drafting \cup {"scanned"} PROVE PartialInv'
  BY <1>1 DEF PartialInv, Scanning, Drafting
<1>2. CASE UNCHANGED allVars \/ RunWorker \/ RemoteWorker \/ Cancel
  BY <1>2, PartialFrame DEF allVars, vars, scanVars, RunWorker, AdapterWorker, RemoteWorker, Cancel
<1>3. ASSUME NEW f \in Facts, Change(f) PROVE PartialInv'
  BY <1>3, PartialFrame DEF Change, vars, scanVars
<1>4. CASE RunScan
  <2>1. CASE ScanFails
    BY <1>1, <2>1 DEF ScanFails, Scanning, Drafting
  <2> QED BY <1>4, <2>1, PartialLists, PartialJudges, PartialConcludes, PartialFinalizes
          DEF RunScan, ScanStep
<1>5. CASE StartScan
  BY <1>5 DEF StartScan, Scan, PartialInv, Drafting
<1>6. CASE \/ Observe \/ ObserveFails \/ Probe \/ ReadFact \/ Stamp \/ RemoteAnswers \/ RemoteStopped
           \/ RereadFact \/ RereadFails \/ Compare \/ CheckCancellation \/ Redacted
           \/ AdmitObservation \/ WriteSnapshot \/ WriteGovernance \/ WriteFails \/ Return \/ Crash
  <2>1. pc' \notin Scanning \cup Drafting \cup {"scanned"}
    BY <1>6 DEF Observe, ObserveFails, Probe, ReadFact, Stamp, RemoteAnswers, RemoteStopped,
         RereadFact, RereadFails, Compare, CheckCancellation, Redacted, SeeCancellation,
         AdmitObservation, WriteSnapshot, WriteGovernance, WriteFails, Return, Crash, Cleared,
         Raise, Goto, End, Scanning, Drafting
  <2> QED BY <1>1, <2>1
<1> QED BY <1>2, <1>3, <1>4, <1>5, <1>6 DEF Next, CallStep

-----------------------------------------------------------------------------
(* The theorems *)

LEMMA RepositoryInit == Init => ScanTypeOK /\ SignalInv /\ InstantInv /\ PartialInv
<1> SUFFICES ASSUME Init PROVE ScanTypeOK /\ SignalInv /\ InstantInv /\ PartialInv
  OBVIOUS
<1>1. pc = "idle" /\ sig = "NONE"
  BY DEF Init, ScanInit
<1>2. ScanTypeOK /\ SignalInv /\ PartialInv
  BY <1>1 DEF ScanTypeOK, SignalInv, PartialInv, Scanning, Drafting, Observing
<1>3. /\ facts \in [Facts -> Versions] /\ commit \in Nat
      /\ disk = [snapshot |-> disk.snapshot, governance |-> disk.governance]
      /\ disk.governance.snap \in published
  BY DEF Init, Versions, Version
<1>4. InstantInv
  BY <1>1, <1>3 DEF InstantInv, Scanning, Drafting, Observing, Stamped
<1> QED BY <1>2, <1>4

\* The invariant of the scan and of the observation: what a worker may have
\* sent, what is marked as cancelled, what was read and when, and what the
\* findings admit about the files and adapters that were left out.
THEOREM RepositoryInvariant == Spec => [](ScanTypeOK /\ SignalInv /\ InstantInv /\ PartialInv)
BY RepositoryInit, ScanTypeStep, SignalStep, InstantStep, PartialStep, PTL DEF Spec

\* claim_completion settles the race between a cancelling thread and the scan,
\* or the observation, for good: a caller gets an artifact marked as cancelled
\* exactly when the signal stays cancelled.
THEOREM CancellationWins == Spec => []CancelWins
<1>1. SignalInv => CancelWins
  BY DEF SignalInv, CancelWins, Cancelled
<1> QED BY <1>1, RepositoryInvariant, PTL

\* Whatever a budget, a scope, a failed or refused adapter or a cancellation
\* left out of a scan, no category of its snapshot claims to be observed, or
\* not observed, in spite of it.
THEOREM PartialVisible == Spec => []PartialIsVisible
<1>1. PartialInv => PartialIsVisible
  BY DEF PartialInv, PartialIsVisible, Visible, Whole
<1> QED BY <1>1, RepositoryInvariant, PTL

\* An observation that observe() does not block reports facts that all held
\* when its clock was read, though each was read at another time and anyone
\* could change any of them in between; and the command publishes it only
\* after the snapshot it is about.
THEOREM OneInstant == Spec => []ObservationIsOneInstant
<1>1. InstantInv => ObservationIsOneInstant
  BY DEF InstantInv, ObservationIsOneInstant
<1> QED BY <1>1, RepositoryInvariant, PTL

=============================================================================
