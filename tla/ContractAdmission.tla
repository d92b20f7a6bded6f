------------------------- MODULE ContractAdmission -------------------------
(***************************************************************************)
(* The way of a contract from its bytes to an engineering-admissible        *)
(* decision: the intake coordinator and its reconciler (contracts/intake.py)*)
(* over an intake ledger and a quarantine, the compilation service with its *)
(* evidence store (contracts/pipeline.py, contracts/compiler.py), and the   *)
(* semantic admission with its validation evidence store                    *)
(* (validation/contracts.py).                                               *)
(*                                                                          *)
(* Everything is files.  The intake ledger and the validation store each    *)
(* have a lock that covers one ledger call; between two calls other callers *)
(* and the reconciler run, and a process may die between any two writes.    *)
(*                                                                          *)
(* A retry key determines its attempt, so both are written k.  The retry    *)
(* index is a cache over the reservations and is rebuilt from them, so it   *)
(* has no state here.  Records that carry a time are identified by the call *)
(* that made them: two calls never write the same record.  Fingerprints     *)
(* stand for what they are taken of.                                        *)
(***************************************************************************)
EXTENDS Integers, Sequences, FiniteSets, SequencesExt

CONSTANTS
  RetryKeys,       \* retry keys
  Services,        \* processes that call PmosCompilationService.process
  Submissions,     \* what they are called with: [key, payload, pred]
  MaxSubmissions,  \* bound: calls
  MaxFaults,       \* bound: deaths and stalls of a process, failures of a store
  Nothing          \* no record, no payload, no predecessor

\* What a payload turns into: "full" compiles and satisfies every rule, "gap"
\* compiles and lacks product truth, "odd" does not compile, "bad" does not
\* pass the intake checks, "huge" exceeds the intake bound.
Payloads == {"full", "gap", "odd", "bad", "huge"}

ASSUME AdmissionAssumption ==
  /\ Submissions \subseteq [key : RetryKeys, payload : Payloads, pred : RetryKeys \cup {Nothing}]
  /\ {MaxSubmissions, MaxFaults} \subseteq Nat
  /\ IsFiniteSet(RetryKeys)
  /\ Nothing \notin RetryKeys \cup Payloads \cup Nat

\* The records: a disposition and a decision name the call that made them.
DispositionRecords == [status : {"ADMITTED", "REJECTED", "SECURITY_BLOCKED"}, by : Nat]
DecisionRecords == [verdict : {"ERROR", "PRODUCT_INPUT_REQUIRED", "ADMITTED"}, by : Nat]
Evidence == [kind : {"blocked", "compiled"}, files : Nat]
Reservations ==
  [bound : Payloads \cup {Nothing}, pred : RetryKeys \cup {Nothing}, lineage : RetryKeys,
   corr : {"NONE", "INVALID", "VALID", "BLOCKED"}, recon : BOOLEAN,
   pendR : Nat \cup {Nothing}, pendD : DispositionRecords \cup {Nothing}]

ASSUME RecordAssumption ==
  /\ Nothing \notin DispositionRecords /\ Nothing \notin DecisionRecords /\ Nothing \notin Evidence
  /\ Nothing \notin Reservations /\ Nothing \notin Seq(RetryKeys)

VARIABLES
  res,        \* reservations
  receipt,    \* receipts: the call that made them
  disp,       \* terminal dispositions: [status, by]
  deleted,    \* deletion attestations: the call that made them
  quar,       \* the quarantine: payloads
  evid,       \* compiler evidence: [kind, files]
  attempts,   \* validation store: the decision of an attempt
  lineages,   \* validation store: attempts of a lineage, in order
  catalog,    \* validation store: attempts and lineages it lists
  anchor,     \* the high watermark outside: the same, with their content
  lock,       \* the lock of the validation store: who holds it, and how far
  work,       \* the calls under way
  rec,        \* the reconciler
  calls, faults,
  told        \* answers given that settle something: <<key, payload, status>>

intakeVars == <<res, receipt, disp, deleted, quar>>
evidenceVars == <<attempts, lineages, catalog, anchor, lock>>
vars == <<intakeVars, evid, evidenceVars, work, rec, calls, faults, told>>

Settling == {"INTAKE_REJECTED", "COMPILATION_BLOCKED", "COMPILED_BLOCKED", "ENGINEERING_ADMITTED"}
Reconciler == 0                          \* in place of a call, in records

\* No call under way; the process has, or has not, the validation store open.
Resting(open) == [pc |-> IF open THEN "idle" ELSE "closed"]
Available(c) == work[c] = Resting(TRUE)
Key(c) == work[c].key
InStep(c, pc) == work[c].pc = pc
AtWork(c, k) == work[c].pc \notin {"idle", "closed"} /\ work[c].key = k
Goto(c, w) == work' = [work EXCEPT ![c] = w]
Moved(c, pc) == [work[c] EXCEPT !.pc = pc]

\* The end of a call, with the answer its caller gets; one that reports a
\* security block settles nothing and is not kept.
Answer(c, status) ==
  /\ Goto(c, Resting(TRUE))
  /\ told' = IF status \in Settling THEN told \cup {<<Key(c), work[c].payload, status>>} ELSE told

\* The part of a reservation that changes once its payload is bound.
Progress(r) == [recon |-> r.recon, pendR |-> r.pendR, pendD |-> r.pendD]
Settled == [recon |-> FALSE, pendR |-> Nothing, pendD |-> Nothing]

Reserved(k) == res[k] # Nothing
Updated(k, r) == [res EXCEPT ![k] = r]
Marked(k) == Updated(k, [res[k] EXCEPT !.recon = TRUE])          \* mark_reconciliation
Terminal(k) == disp[k] # Nothing
Evidenced(k) ==
  /\ Terminal(k) /\ deleted[k] # Nothing
  /\ res[k].bound # Nothing => receipt[k] # Nothing

(***************************************************************************)
(* reserve.                                                                 *)
(***************************************************************************)
CorrectionState(pred) ==
  IF pred = Nothing THEN "NONE"
  ELSE IF ~Reserved(pred) THEN "INVALID"
  ELSE IF Terminal(pred) /\ deleted[pred] # Nothing /\ ~res[pred].recon THEN "VALID" ELSE "BLOCKED"

NewReservation(k, pred) ==
  [bound |-> Nothing, pred |-> pred, corr |-> CorrectionState(pred),
   lineage |-> IF CorrectionState(pred) \in {"NONE", "INVALID"} THEN k ELSE res[pred].lineage,
   recon |-> FALSE, pendR |-> Nothing, pendD |-> Nothing]

\* One call of process(): the reservation of its key is found or made.
Reserve(c, k, p, pred) ==
  /\ Available(c) /\ calls < MaxSubmissions
  /\ LET r == IF Reserved(k) THEN res[k] ELSE NewReservation(k, pred) IN
     /\ res' = Updated(k, r)
     /\ Goto(c, [pc |-> "examine", key |-> k, payload |-> p, id |-> calls + 1,
                 snap |-> r, exist |-> Nothing, mine |-> Nothing, want |-> Nothing,
                 decision |-> Nothing])
  /\ calls' = calls + 1
  /\ UNCHANGED <<receipt, disp, deleted, quar, evid, evidenceVars, rec, faults, told>>

(***************************************************************************)
(* receive: one ledger call after another.                                  *)
(***************************************************************************)
SecurityBlocked == "INTAKE_SECURITY_BLOCKED"

\* What the reservation said when it was read decides first; a deletion
\* without a disposition is handed to the reconciler.
Examine(c) ==
  LET k == Key(c)
      mismatch == work[c].snap.bound \notin {Nothing, work[c].payload}
      halfway == deleted[k] # Nothing /\ ~Terminal(k)
  IN /\ InStep(c, "examine")
     /\ IF mismatch \/ work[c].snap.recon
        THEN Answer(c, SecurityBlocked) /\ UNCHANGED res
        ELSE IF halfway
        THEN Answer(c, SecurityBlocked) /\ res' = Marked(k)
        ELSE /\ Goto(c, [Moved(c, "bind") EXCEPT !.exist = disp[k], !.snap = Nothing])
             /\ UNCHANGED <<res, told>>
     /\ UNCHANGED <<receipt, disp, deleted, quar, evid, evidenceVars, rec, calls, faults>>

\* Where a call goes on with a terminal disposition it found.
Replay(c, status, r) ==
  IF status = "ADMITTED"
  THEN /\ Goto(c, [Moved(c, "replay") EXCEPT !.snap = Progress(r), !.want = "ADMITTED",
                                             !.mine = receipt[Key(c)]])
       /\ UNCHANGED told
  ELSE Answer(c, IF status = "REJECTED" THEN "INTAKE_REJECTED" ELSE SecurityBlocked)

\* Variant of Bind that does not compare the bytes with the bound ones.
BindAnyBytes(c) ==
  LET r == [res[Key(c)] EXCEPT !.bound = IF @ = Nothing THEN work[c].payload ELSE @] IN
  /\ InStep(c, "bind") /\ work[c].exist = Nothing
  /\ Goto(c, Moved(c, IF r.corr = "BLOCKED" THEN "receipt" ELSE "store"))
  /\ res' = Updated(Key(c), r)
  /\ UNCHANGED <<receipt, disp, deleted, quar, evid, evidenceVars, rec, calls, faults, told>>

\* bind_payload: the first payload stays.
Bound(r, p) == [r EXCEPT !.bound = IF r.bound = Nothing THEN p ELSE r.bound]

\* The payload is bound, and an attempt that is over replayed.
Bind(c) ==
  LET k == Key(c)
      r == Bound(res[k], work[c].payload)
  IN /\ InStep(c, "bind")
     /\ IF r.bound # work[c].payload
        THEN Answer(c, SecurityBlocked) /\ UNCHANGED res
        ELSE IF work[c].exist # Nothing
        THEN IF receipt[k] # Nothing /\ deleted[k] # Nothing
             THEN Replay(c, work[c].exist.status, r) /\ res' = Updated(k, r)
             ELSE Answer(c, SecurityBlocked)
                  /\ res' = Updated(k, [r EXCEPT !.recon = TRUE])
        ELSE /\ Goto(c, Moved(c, IF r.corr = "BLOCKED" THEN "receipt" ELSE "store"))
             /\ res' = Updated(k, r) /\ UNCHANGED told
     /\ UNCHANGED <<receipt, disp, deleted, quar, evid, evidenceVars, rec, calls, faults>>

\* quarantine.put, for a payload within the bound.
Store(c) ==
  LET k == Key(c) IN
  /\ InStep(c, "store")
  /\ quar' = IF work[c].payload = "huge" \/ quar[k] # Nothing THEN quar
             ELSE [quar EXCEPT ![k] = work[c].payload]
  /\ Goto(c, Moved(c, "receipt"))
  /\ UNCHANGED <<res, receipt, disp, deleted, evid, evidenceVars, rec, calls, faults, told>>

StoreFails(c) ==
  /\ InStep(c, "store") /\ faults < MaxFaults
  /\ work[c].payload # "huge" /\ quar[Key(c)] = Nothing
  /\ faults' = faults + 1
  /\ res' = Marked(Key(c))
  /\ Answer(c, SecurityBlocked)
  /\ UNCHANGED <<receipt, disp, deleted, quar, evid, evidenceVars, rec, calls>>

\* The receipt on record, or a new one.
ReadReceipt(c) ==
  LET k == Key(c) IN
  /\ InStep(c, "receipt")
  /\ Goto(c, [Moved(c, "prepare") EXCEPT
                !.mine = IF receipt[k] = Nothing THEN work[c].id ELSE receipt[k]])
  /\ UNCHANGED <<intakeVars, evid, evidenceVars, rec, calls, faults, told>>

\* Once the receipt is durable: a correction of an unresolved attempt is
\* blocked, and size, content, secrets, privacy and structure are judged; an
\* invalid correction reference is a finding like the others.
Assessed(c) ==
  IF res[Key(c)].corr = "BLOCKED" THEN [Moved(c, "delete") EXCEPT !.want = "SECURITY_BLOCKED"]
  ELSE IF work[c].payload \in {"bad", "huge"} \/ res[Key(c)].corr = "INVALID"
  THEN [Moved(c, "delete") EXCEPT !.want = "REJECTED"]
  ELSE Moved(c, "compile")

\* A scanner that fails is a finding too: the same bytes may pass another time.
Received(c) ==
  \/ Goto(c, Assessed(c)) /\ UNCHANGED faults
  \/ /\ Assessed(c).pc = "compile" /\ faults < MaxFaults
     /\ faults' = faults + 1
     /\ Goto(c, [Moved(c, "delete") EXCEPT !.want = "REJECTED"])

PrepareReceipt(c) ==
  LET k == Key(c) IN
  /\ InStep(c, "prepare")
  /\ IF receipt[k] # Nothing
     THEN Received(c) /\ UNCHANGED res
     ELSE /\ Goto(c, Moved(c, "finalize")) /\ res' = Updated(k, [res[k] EXCEPT !.pendR = work[c].mine])
          /\ UNCHANGED faults
  /\ UNCHANGED <<receipt, disp, deleted, quar, evid, evidenceVars, rec, calls, told>>

FinalizeReceipt(c) ==
  LET k == Key(c) IN
  /\ InStep(c, "finalize")
  /\ IF receipt[k] = work[c].mine \/ (receipt[k] = Nothing /\ res[k].pendR = work[c].mine)
     THEN /\ receipt' = [receipt EXCEPT ![k] = work[c].mine]
          /\ res' = Updated(k, [res[k] EXCEPT !.pendR = Nothing])
          /\ Received(c) /\ UNCHANGED told
     ELSE /\ res' = Marked(k)
          /\ Answer(c, SecurityBlocked) /\ UNCHANGED <<receipt, faults>>
  /\ UNCHANGED <<disp, deleted, quar, evid, evidenceVars, rec, calls>>

(***************************************************************************)
(* The compilation service.  Evidence is written once, file by file, and    *)
(* is evidence only when its attestation, the last file, is there.          *)
(***************************************************************************)
EvidenceKind(p) == IF p = "odd" THEN "blocked" ELSE "compiled"
AllFiles(kind) == IF kind = "blocked" THEN 2 ELSE 4
\* _verify_attestation: the attestation binds all the files.
Attested(e) == e.files = AllFiles(e.kind)
Complete(k) == evid[k] # Nothing /\ Attested(evid[k])
VerifiedCompilation(k) == Complete(k) /\ evid[k].kind = "compiled"

\* load_validated_payload: the receipt is the durable one and the quarantine
\* still holds the bytes it is about.
Validated(c) == receipt[Key(c)] = work[c].mine /\ quar[Key(c)] = work[c].payload

CompileContract(c) ==
  LET k == Key(c) IN
  /\ InStep(c, "compile")
  /\ IF ~Validated(c)
     THEN Answer(c, "COMPILATION_SECURITY_BLOCKED")
     ELSE /\ Goto(c, IF Complete(k) THEN [Moved(c, "delete") EXCEPT !.want = "ADMITTED"]
                     ELSE Moved(c, "evidence"))
          /\ UNCHANGED told
  /\ UNCHANGED <<intakeVars, evid, evidenceVars, rec, calls, faults>>

\* write_compilation, write_blocked: under the evidence lock.
WriteEvidence(c) ==
  LET kind == EvidenceKind(work[c].payload) IN
  /\ InStep(c, "evidence")
  /\ evid' = [evid EXCEPT ![Key(c)] = [kind |-> kind, files |-> AllFiles(kind)]]
  /\ Goto(c, [Moved(c, "delete") EXCEPT !.want = "ADMITTED"])
  /\ UNCHANGED <<intakeVars, evidenceVars, rec, calls, faults, told>>

DieWritingEvidence(c) ==
  /\ InStep(c, "evidence") /\ faults < MaxFaults
  /\ faults' = faults + 1
  /\ LET kind == EvidenceKind(work[c].payload)
         had == IF evid[Key(c)] = Nothing THEN 0 ELSE evid[Key(c)].files
     IN \E n \in had .. AllFiles(kind) - 1 :
          evid' = IF n = 0 THEN evid ELSE [evid EXCEPT ![Key(c)] = [kind |-> kind, files |-> n]]
  /\ Goto(c, Resting(FALSE))
  /\ UNCHANGED <<intakeVars, evidenceVars, rec, calls, told>>

(***************************************************************************)
(* _finalize: the bytes are deleted, the deletion attested, the disposition *)
(* prepared and written.                                                    *)
(***************************************************************************)
\* A failure on the way blocks the attempt and leaves it to the reconciler.
Blocked(c) ==
  /\ LET blocked == [status |-> "SECURITY_BLOCKED", by |-> work[c].id] IN
     res' = Updated(Key(c), [res[Key(c)] EXCEPT !.pendD = blocked, !.recon = TRUE])
  /\ Answer(c, SecurityBlocked)

\* Only a call that holds the durable receipt may finalize an admission.
Delete(c) ==
  LET k == Key(c) IN
  /\ InStep(c, "delete")
  /\ IF work[c].want = "ADMITTED" /\ receipt[k] # work[c].mine
     THEN Answer(c, SecurityBlocked) /\ UNCHANGED quar
     ELSE /\ quar' = [quar EXCEPT ![k] = Nothing]
          /\ Goto(c, Moved(c, "attest")) /\ UNCHANGED told
  /\ UNCHANGED <<res, receipt, disp, deleted, evid, evidenceVars, rec, calls, faults>>

DeleteFails(c) ==
  /\ InStep(c, "delete") /\ faults < MaxFaults
  /\ work[c].want = "ADMITTED" => receipt[Key(c)] = work[c].mine
  /\ faults' = faults + 1
  /\ Blocked(c)
  /\ UNCHANGED <<receipt, disp, deleted, quar, evid, evidenceVars, rec, calls>>

Attest(c) ==
  LET k == Key(c) IN
  /\ InStep(c, "attest")
  /\ IF deleted[k] # Nothing
     THEN Blocked(c) /\ UNCHANGED deleted
     ELSE /\ deleted' = [deleted EXCEPT ![k] = work[c].id]
          /\ Goto(c, Moved(c, "predisp")) /\ UNCHANGED <<res, told>>
  /\ UNCHANGED <<receipt, disp, quar, evid, evidenceVars, rec, calls, faults>>

Mine(c) == [status |-> work[c].want, by |-> work[c].id]

PrepareDisposition(c) ==
  /\ InStep(c, "predisp")
  /\ res' = Updated(Key(c), [res[Key(c)] EXCEPT !.pendD = Mine(c)])
  /\ Goto(c, Moved(c, "dispose"))
  /\ UNCHANGED <<receipt, disp, deleted, quar, evid, evidenceVars, rec, calls, faults, told>>

\* The answer to a disposition that is durable, or the way to semantic admission.
Disposed(c, r) ==
  IF work[c].want # "ADMITTED"
  THEN Answer(c, IF work[c].want = "REJECTED" THEN "INTAKE_REJECTED" ELSE SecurityBlocked)
  ELSE IF work[c].payload = "odd" THEN Answer(c, "COMPILATION_BLOCKED")
  ELSE /\ Goto(c, [Moved(c, "admit") EXCEPT !.snap = Progress(r), !.exist = Mine(c)])
       /\ UNCHANGED told

WriteDisposition(c) ==
  LET k == Key(c)
      r == [res[k] EXCEPT !.pendD = Nothing]
  IN /\ InStep(c, "dispose")
     /\ IF Terminal(k) \/ receipt[k] = Nothing
        THEN Blocked(c) /\ UNCHANGED disp
        ELSE /\ disp' = [disp EXCEPT ![k] = Mine(c)]
             /\ res' = Updated(k, r)
             /\ Disposed(c, r)
     /\ UNCHANGED <<receipt, deleted, quar, evid, evidenceVars, rec, calls, faults>>

WriteDispositionFails(c) ==
  /\ InStep(c, "dispose") /\ faults < MaxFaults
  /\ faults' = faults + 1
  /\ Blocked(c)
  /\ UNCHANGED <<receipt, disp, deleted, quar, evid, evidenceVars, rec, calls>>

\* An admitted attempt is replayed: its evidence decides.
ReplayAdmitted(c) ==
  LET k == Key(c) IN
  /\ InStep(c, "replay")
  /\ IF ~Complete(k) THEN Answer(c, "EVIDENCE_SECURITY_BLOCKED")
     ELSE IF evid[k].kind = "blocked" THEN Answer(c, "COMPILATION_BLOCKED")
     ELSE Goto(c, Moved(c, "admit")) /\ UNCHANGED told
  /\ UNCHANGED <<intakeVars, evid, evidenceVars, rec, calls, faults>>

(***************************************************************************)
(* The validation store: attempt, lineage and catalog files under one lock, *)
(* anchored by a high watermark outside that only grows.                    *)
(***************************************************************************)
Listed(as, ls) == [attempts |-> as, lineages |-> ls]

\* _evidence_root: the content of what is listed.
Root(list) == [attempts |-> [k \in list.attempts |-> attempts[k]],
               lineages |-> [l \in list.lineages |-> lineages[l]]]

\* _validate_anchor, with and without a catalog that may be ahead.
AnchorHolds ==
  /\ anchor.list.attempts \subseteq catalog.attempts
  /\ anchor.list.lineages \subseteq catalog.lineages
  /\ anchor.root = Root(anchor.list)
StoreIsSettled == AnchorHolds /\ anchor.list = catalog

\* The attempts of a lineage, in the order of their corrections.
OfLineage(l) == {k \in RetryKeys : attempts[k] # Nothing /\ res[k].lineage = l}
Corrects(s) == \A i \in DOMAIN s : res[s[i]].pred = IF i = 1 THEN Nothing ELSE s[i - 1]
Orders(l) ==
  {s \in [1 .. Cardinality(OfLineage(l)) -> OfLineage(l)] : ToSet(s) = OfLineage(l) /\ Corrects(s)}

Found == Listed({k \in RetryKeys : attempts[k] # Nothing}, {l \in RetryKeys : OfLineage(l) # {}})

(***************************************************************************)
(* The lock of the store.  Its holder has read the catalog, writes the      *)
(* lineages `todo`, then the catalog `list` and the watermark.              *)
(***************************************************************************)
Locked(c, at) == lock # Nothing /\ lock.by = c /\ lock.at = at
LockAt(at) == lock' = [lock EXCEPT !.at = at]
Unlock == lock' = Nothing

\* _reconcile_locked rebuilds the indexes from the attempts on file.
Rebuild(c) ==
  lock' = [by |-> c, at |-> "catalog", read |-> catalog, list |-> Found,
           todo |-> Found.lineages, recorded |-> FALSE]

Refusal == "VALIDATION_SECURITY_BLOCKED"

\* An operation on the store raises.
Refuse(c) ==
  /\ Unlock
  /\ IF work[c].pc = "reconcile" THEN Goto(c, Resting(work[c].open)) /\ UNCHANGED told
     ELSE Answer(c, Refusal)

Reconciling(open) == [pc |-> "reconcile", open |-> open, key |-> Nothing]

\* Opening the store reconciles it: what it compares, a catalog and a
\* watermark, is never equal.
Open(c) ==
  /\ InStep(c, "closed") /\ lock = Nothing /\ AnchorHolds
  /\ Rebuild(c)
  /\ Goto(c, Reconciling(FALSE))
  /\ UNCHANGED <<intakeVars, evid, attempts, lineages, catalog, anchor, rec, calls, faults, told>>

\* reconcile(), where it has something to rebuild.
RebuildStore(c) ==
  /\ Available(c) /\ lock = Nothing /\ AnchorHolds
  /\ Found # catalog
  /\ Rebuild(c)
  /\ Goto(c, Reconciling(TRUE))
  /\ UNCHANGED <<intakeVars, evid, attempts, lineages, catalog, anchor, rec, calls, faults, told>>

\* One lineage is rebuilt; one that is branched or orphaned is an error.
RebuildLineage(c, l) ==
  /\ Locked(c, "catalog") /\ l \in lock.todo
  /\ IF Orders(l) # {}
     THEN /\ lineages' = [lineages EXCEPT ![l] = CHOOSE s \in Orders(l) : TRUE]
          /\ lock' = [lock EXCEPT !.todo = lock.todo \ {l}]
          /\ UNCHANGED <<work, told>>
     ELSE Refuse(c) /\ UNCHANGED lineages
  /\ UNCHANGED <<intakeVars, evid, attempts, catalog, anchor, rec, calls, faults>>

WriteCatalog(c) ==
  /\ Locked(c, "catalog") /\ lock.todo = {}
  /\ catalog' = lock.list
  /\ LockAt("anchor")
  /\ UNCHANGED <<intakeVars, evid, attempts, lineages, anchor, work, rec, calls, faults, told>>

\* Variant that takes the file for the lineage, catalogued or not.
SummarisedOnFile(l) == StoreIsSettled /\ lineages[l] # Nothing

\* lineage_summary: the lineage is catalogued, and so are exactly its attempts,
\* each correcting the one before.
Summarised(l) ==
  /\ StoreIsSettled /\ l \in catalog.lineages
  /\ {k \in catalog.attempts : res[k].lineage = l} = ToSet(lineages[l])
  /\ Corrects(lineages[l])

\* verify_admitted_outcome: what the call holds is what is durable.
VerifiedIntake(c) ==
  LET k == Key(c) IN
  /\ disp[k] = work[c].exist /\ disp[k].status = "ADMITTED"
  /\ deleted[k] # Nothing /\ quar[k] = Nothing
  /\ work[c].snap = Settled /\ Progress(res[k]) = Settled
  /\ receipt[k] = work[c].mine

\* A correction extends the last attempt of its lineage.
ExtendsLineage(k) ==
  res[k].pred # Nothing =>
    LET l == res[k].lineage IN Summarised(l) /\ Last(lineages[l]) = res[k].pred

\* validate: an evidence binding that fails is an error, then the rules decide.
Verdict(k, p) ==
  IF ~ExtendsLineage(k) THEN "ERROR" ELSE IF p = "gap" THEN "PRODUCT_INPUT_REQUIRED" ELSE "ADMITTED"

Decision(c) ==
  LET k == Key(c) IN
  [verdict |-> Verdict(k, work[c].payload),
   by |-> IF k \in catalog.attempts THEN attempts[k].by ELSE work[c].id]

StatusOf(verdict) ==
  IF verdict = "ADMITTED" THEN "ENGINEERING_ADMITTED"
  ELSE IF verdict = "PRODUCT_INPUT_REQUIRED" THEN "COMPILED_BLOCKED"
  ELSE Refusal

Admit(c) ==
  LET k == Key(c)
      stored == k \in catalog.attempts
      admissible == /\ VerifiedIntake(c) /\ VerifiedCompilation(k) /\ StoreIsSettled
                    /\ ~stored /\ res[k].pred # Nothing => attempts[res[k].pred] # Nothing
                    /\ stored => attempts[k] = Decision(c)
  IN /\ InStep(c, "admit")
     /\ IF ~admissible THEN Answer(c, Refusal)
        ELSE Goto(c, [Moved(c, "record") EXCEPT !.decision = Decision(c)]) /\ UNCHANGED told
     /\ UNCHANGED <<intakeVars, evid, evidenceVars, rec, calls, faults>>

\* A new attempt begins its lineage or corrects the last attempt of it.
Recordable(k) ==
  LET l == res[k].lineage IN
  /\ lineages[l] # Nothing => Summarised(l)
  /\ IF res[k].pred = Nothing THEN lineages[l] = Nothing
     ELSE /\ attempts[res[k].pred] # Nothing /\ lineages[l] # Nothing
          /\ Last(lineages[l]) = res[k].pred

\* What makes _record_locked reconcile first: an attempt on file that is not in
\* every index, a new one whose lineage has no file.
Unindexed(k) ==
  LET l == res[k].lineage IN
  \/ lineages[l] = Nothing
  \/ attempts[k] # Nothing /\ (k \notin ToSet(lineages[l]) \/ k \notin catalog.attempts)

\* record takes the lock.  What is on file for the attempt must be the decision.
Record(c) ==
  LET k == Key(c) IN
  /\ InStep(c, "record") /\ lock = Nothing
  /\ IF ~StoreIsSettled \/ attempts[k] \notin {Nothing, work[c].decision}
     THEN Answer(c, Refusal) /\ UNCHANGED lock
     ELSE /\ IF Unindexed(k) THEN Rebuild(c)
             ELSE lock' = [by |-> c, at |-> "check", read |-> catalog, list |-> catalog,
                           todo |-> {}, recorded |-> FALSE]
          /\ Goto(c, Moved(c, "recording")) /\ UNCHANGED told
  /\ UNCHANGED <<intakeVars, evid, attempts, lineages, catalog, anchor, rec, calls, faults>>

\* An attempt that was on file is answered for, a new one recorded.
CheckRecord(c) ==
  LET k == Key(c) IN
  /\ Locked(c, "check")
  /\ IF attempts[k] # Nothing
     THEN IF Summarised(res[k].lineage) THEN Unlock /\ Answer(c, StatusOf(work[c].decision.verdict))
          ELSE Refuse(c)
     ELSE IF Recordable(k) THEN LockAt("attempt") /\ UNCHANGED <<work, told>> ELSE Refuse(c)
  /\ UNCHANGED <<intakeVars, evid, attempts, lineages, catalog, anchor, rec, calls, faults>>

WriteAttempt(c) ==
  /\ Locked(c, "attempt")
  /\ attempts' = [attempts EXCEPT ![Key(c)] = work[c].decision]
  /\ LockAt("lineage")
  /\ UNCHANGED <<intakeVars, evid, lineages, catalog, anchor, work, rec, calls, faults, told>>

\* The catalog that follows extends the one that was read under the lock first.
WriteLineage(c) ==
  LET k == Key(c)
      l == res[k].lineage
  IN /\ Locked(c, "lineage")
     /\ lineages' = [lineages EXCEPT ![l] = IF lineages[l] = Nothing THEN <<k>>
                                                 ELSE Append(lineages[l], k)]
     /\ lock' = [lock EXCEPT !.at = "catalog", !.recorded = TRUE,
                  !.list = Listed(lock.read.attempts \cup {k}, lock.read.lineages \cup {l})]
     /\ UNCHANGED <<intakeVars, evid, attempts, catalog, anchor, work, rec, calls, faults, told>>

\* _write_anchor: the watermark never regresses.
Advances(list) ==
  anchor.list.attempts \subseteq list.attempts /\ anchor.list.lineages \subseteq list.lineages

\* What follows the watermark: an answer, an opened store, or what the
\* reconciliation was for.
Committed(c) ==
  IF work[c].pc = "reconcile" THEN Unlock /\ Goto(c, Resting(TRUE)) /\ UNCHANGED told
  ELSE IF lock.recorded THEN Unlock /\ Answer(c, StatusOf(work[c].decision.verdict))
  ELSE LockAt("check") /\ UNCHANGED <<work, told>>

WriteAnchor(c) ==
  /\ Locked(c, "anchor")
  /\ IF Advances(lock.list)
     THEN anchor' = [list |-> lock.list, root |-> Root(lock.list)] /\ Committed(c)
     ELSE Refuse(c) /\ UNCHANGED anchor
  /\ UNCHANGED <<intakeVars, evid, attempts, lineages, catalog, rec, calls, faults>>

(***************************************************************************)
(* The reconciler: it reads an attempt and then completes what is missing.  *)
(***************************************************************************)
Cleared(k) == Updated(k, [res[k] EXCEPT !.recon = FALSE, !.pendR = Nothing, !.pendD = Nothing])
RStep(pc) == rec.pc = pc
RGoto(pc) == rec' = [rec EXCEPT !.pc = pc]
RIdle == [pc |-> "idle"]
RFail == rec' = RIdle /\ res' = Marked(rec.key)

\* The reconciler looks at an attempt: its reservation and its records.  What
\* is over is cleared.  The rest is taken up when it is flagged, terminal or
\* expired; it expires under a call that is still at work only when that
\* process stalls, which counts as a fault.
Reconcile(k) ==
  LET over == Evidenced(k)
      stalled == ~over /\ ~res[k].recon /\ ~Terminal(k) /\ \E c \in Services : AtWork(c, k)
  IN /\ rec = RIdle /\ Reserved(k)
     /\ over => res[k].recon
     /\ stalled => faults < MaxFaults
     /\ faults' = IF stalled THEN faults + 1 ELSE faults
     /\ IF over THEN res' = Cleared(k) /\ UNCHANGED rec
        ELSE /\ rec' = [pc |-> "prepare", key |-> k, bound |-> res[k].bound,
                        mine |-> res[k].pendR, pendD |-> res[k].pendD,
                        receipt |-> receipt[k] # Nothing, deleted |-> deleted[k] # Nothing,
                        disp |-> Terminal(k)]
             /\ UNCHANGED res
     /\ UNCHANGED <<receipt, disp, deleted, quar, evid, evidenceVars, work, calls, told>>

\* A receipt that was prepared is finalized; a bound payload without one gets one.
RPrepare ==
  LET k == rec.key IN
  /\ RStep("prepare")
  /\ IF rec.receipt \/ (rec.mine = Nothing /\ rec.bound = Nothing)
     THEN RGoto("delete") /\ UNCHANGED res
     ELSE IF rec.mine # Nothing THEN RGoto("finalize") /\ UNCHANGED res
     ELSE /\ rec' = [rec EXCEPT !.pc = "finalize", !.mine = Reconciler]
          /\ res' = Updated(k, [res[k] EXCEPT !.pendR = Reconciler])
  /\ UNCHANGED <<receipt, disp, deleted, quar, evid, evidenceVars, work, calls, faults, told>>

RFinalize ==
  LET k == rec.key IN
  /\ RStep("finalize")
  /\ IF receipt[k] = rec.mine \/ (receipt[k] = Nothing /\ res[k].pendR = rec.mine)
     THEN /\ receipt' = [receipt EXCEPT ![k] = rec.mine]
          /\ res' = Updated(k, [res[k] EXCEPT !.pendR = Nothing])
          /\ RGoto("delete")
     ELSE RFail /\ UNCHANGED receipt
  /\ UNCHANGED <<disp, deleted, quar, evid, evidenceVars, work, calls, faults, told>>

RDelete ==
  /\ RStep("delete")
  /\ quar' = [quar EXCEPT ![rec.key] = Nothing]
  /\ RGoto("attest")
  /\ UNCHANGED <<res, receipt, disp, deleted, evid, evidenceVars, work, calls, faults, told>>

RDeleteFails ==
  /\ RStep("delete") /\ faults < MaxFaults
  /\ faults' = faults + 1
  /\ RFail
  /\ UNCHANGED <<receipt, disp, deleted, quar, evid, evidenceVars, work, calls, told>>

\* Variant that attests a deletion again.
RAttestAgain ==
  LET k == rec.key IN
  /\ RStep("attest")
  /\ IF deleted[k] # Nothing THEN RFail /\ UNCHANGED deleted
     ELSE RGoto("dispose") /\ deleted' = [deleted EXCEPT ![k] = Reconciler] /\ UNCHANGED res
  /\ UNCHANGED <<receipt, disp, quar, evid, evidenceVars, work, calls, faults, told>>

RAttest ==
  LET k == rec.key IN
  /\ RStep("attest")
  /\ IF rec.deleted THEN RGoto("dispose") /\ UNCHANGED <<res, deleted>>
     ELSE IF deleted[k] # Nothing THEN RFail /\ UNCHANGED deleted
     ELSE RGoto("dispose") /\ deleted' = [deleted EXCEPT ![k] = Reconciler] /\ UNCHANGED res
  /\ UNCHANGED <<receipt, disp, quar, evid, evidenceVars, work, calls, faults, told>>

\* An interrupted attempt ends blocked, whatever it was about to become.
RTerminal ==
  [status |-> "SECURITY_BLOCKED",
   by |-> IF rec.pendD = Nothing THEN Reconciler ELSE rec.pendD.by]

RDispose ==
  LET k == rec.key IN
  /\ RStep("dispose")
  /\ IF rec.disp THEN RGoto("finish") /\ UNCHANGED <<res, disp>>
     ELSE IF \/ Terminal(k) /\ disp[k] # RTerminal
             \/ res[k].bound # Nothing /\ receipt[k] = Nothing
     THEN RFail /\ UNCHANGED disp
     ELSE /\ disp' = [disp EXCEPT ![k] = RTerminal]
          /\ res' = Updated(k, [res[k] EXCEPT !.pendD = Nothing])
          /\ RGoto("finish")
  /\ UNCHANGED <<receipt, deleted, quar, evid, evidenceVars, work, calls, faults, told>>

RFinish ==
  /\ RStep("finish")
  /\ IF /\ deleted[rec.key] # Nothing /\ Terminal(rec.key)
        /\ rec.bound # Nothing => receipt[rec.key] # Nothing
     THEN rec' = RIdle /\ res' = Cleared(rec.key)
     ELSE RFail
  /\ UNCHANGED <<receipt, disp, deleted, quar, evid, evidenceVars, work, calls, faults, told>>

(***************************************************************************)
(* A process dies: between two ledger calls, or inside one that writes two  *)
(* files.  Its locks are released and its memory is gone.                   *)
(***************************************************************************)
ProcessDies(c) ==
  /\ work[c].pc \notin {"idle", "closed"} /\ faults < MaxFaults
  /\ faults' = faults + 1
  /\ Goto(c, Resting(FALSE))
  /\ lock' = IF lock # Nothing /\ lock.by = c THEN Nothing ELSE lock
  /\ UNCHANGED <<intakeVars, evid, attempts, lineages, catalog, anchor, rec, calls, told>>

DieFinalizingReceipt(c) ==
  /\ InStep(c, "finalize") /\ faults < MaxFaults
  /\ receipt[Key(c)] = Nothing /\ res[Key(c)].pendR = work[c].mine
  /\ faults' = faults + 1
  /\ receipt' = [receipt EXCEPT ![Key(c)] = work[c].mine]
  /\ Goto(c, Resting(FALSE))
  /\ UNCHANGED <<res, disp, deleted, quar, evid, evidenceVars, rec, calls, told>>

DieWritingDisposition(c) ==
  /\ InStep(c, "dispose") /\ faults < MaxFaults
  /\ ~Terminal(Key(c)) /\ receipt[Key(c)] # Nothing
  /\ faults' = faults + 1
  /\ disp' = [disp EXCEPT ![Key(c)] = Mine(c)]
  /\ Goto(c, Resting(FALSE))
  /\ UNCHANGED <<res, receipt, deleted, quar, evid, evidenceVars, rec, calls, told>>

ReconcilerDies ==
  /\ rec # RIdle /\ faults < MaxFaults
  /\ faults' = faults + 1
  /\ rec' = RIdle
  /\ UNCHANGED <<intakeVars, evid, evidenceVars, work, calls, told>>

Init ==
  /\ res = [k \in RetryKeys |-> Nothing]
  /\ receipt = [k \in RetryKeys |-> Nothing]
  /\ disp = [k \in RetryKeys |-> Nothing]
  /\ deleted = [k \in RetryKeys |-> Nothing]
  /\ quar = [k \in RetryKeys |-> Nothing]
  /\ evid = [k \in RetryKeys |-> Nothing]
  /\ attempts = [k \in RetryKeys |-> Nothing]
  /\ lineages = [k \in RetryKeys |-> Nothing]
  /\ catalog = Listed({}, {})
  /\ anchor = [list |-> Listed({}, {}),
               root |-> [attempts |-> [k \in {} |-> Nothing], lineages |-> [l \in {} |-> Nothing]]]
  /\ lock = Nothing
  /\ work = [c \in Services |-> Resting(TRUE)]
  /\ rec = RIdle
  /\ calls = 0 /\ faults = 0 /\ told = {}

Call(c) ==
  \/ Examine(c) \/ Bind(c) \/ Store(c) \/ ReadReceipt(c) \/ PrepareReceipt(c)
  \/ FinalizeReceipt(c) \/ CompileContract(c) \/ WriteEvidence(c)
  \/ Delete(c) \/ Attest(c) \/ PrepareDisposition(c) \/ WriteDisposition(c)
  \/ ReplayAdmitted(c) \/ Admit(c) \/ Record(c)
  \/ (\E l \in RetryKeys : RebuildLineage(c, l)) \/ WriteCatalog(c) \/ WriteAnchor(c)
  \/ CheckRecord(c) \/ WriteAttempt(c) \/ WriteLineage(c)

RSteps ==
  \/ \E k \in RetryKeys : Reconcile(k)
  \/ RPrepare \/ RFinalize \/ RDelete \/ RAttest \/ RDispose \/ RFinish

Fault ==
  \/ \E c \in Services : \/ StoreFails(c) \/ DeleteFails(c)
                        \/ WriteDispositionFails(c) \/ DieWritingEvidence(c)
                        \/ ProcessDies(c) \/ DieFinalizingReceipt(c) \/ DieWritingDisposition(c)
  \/ RDeleteFails \/ ReconcilerDies

Next ==
  \/ \E c \in Services :
       \/ Call(c) \/ Open(c) \/ RebuildStore(c)
       \/ \E r \in Submissions : Reserve(c, r.key, r.payload, r.pred)
  \/ RSteps
  \/ Fault

\* A live process goes on with its call, the reconciler runs again and again,
\* and time passes.
Spec ==
  /\ Init /\ [][Next]_vars
  /\ \A c \in Services : WF_vars(Call(c))
  /\ WF_vars(RSteps)

(***************************************************************************)
(* Properties.                                                              *)
(***************************************************************************)

\* An answer that engineering may start is backed by what is durable: the
\* intake of exactly these bytes is terminally admitted and their deletion
\* attested, the compiler evidence is complete, and the decision is recorded
\* under the watermark as part of its lineage.
AdmittedIsBacked ==
  \A t \in told : t[3] = "ENGINEERING_ADMITTED" =>
    LET k == t[1] IN
    /\ Terminal(k) /\ disp[k].status = "ADMITTED"
    /\ res[k].bound = t[2] /\ receipt[k] # Nothing /\ deleted[k] # Nothing
    /\ Complete(k) /\ evid[k].kind = "compiled"
    /\ k \in anchor.list.attempts /\ attempts[k].verdict = "ADMITTED"
    /\ \E i \in DOMAIN anchor.root.lineages[res[k].lineage] :
         anchor.root.lineages[res[k].lineage][i] = k

\* A lineage under the watermark is a chain of corrections that begins with
\* one first attempt, and no attempt is in two of them: the first-pass metric
\* counts each lineage once.
LineageIsAChain ==
  \A l \in DOMAIN anchor.root.lineages :
    LET s == anchor.root.lineages[l] IN
    /\ Len(s) > 0 /\ s[1] = l
    /\ \A i \in DOMAIN s : /\ s[i] \in anchor.list.attempts /\ res[s[i]].lineage = l
                           /\ i > 1 => res[s[i]].pred = s[i - 1]

\* Every reservation ends: a terminal disposition with its receipt and its
\* deletion attestation, whoever died on the way.
EveryAttemptEnds == \A k \in RetryKeys : Reserved(k) ~> Evidenced(k)

=============================================================================
