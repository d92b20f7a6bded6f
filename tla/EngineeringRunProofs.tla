------------------------ MODULE EngineeringRunProofs ------------------------
(***************************************************************************)
(* Proofs about EngineeringRun.  A crash makes any image of an operation   *)
(* the disk, so the inductive invariant says the same of the disk and of   *)
(* every image still to be written: what its run state claims is backed by *)
(* the ledger, the manifest and the findings beside it.  The state in      *)
(* memory is backed by the last of these images.                           *)
(***************************************************************************)
EXTENDS EngineeringRun, SequenceTheorems, TLAPS

-----------------------------------------------------------------------------
(* Types *)

Keys == ProductKeys \cup MechanicalKeys \cup OtherKeys

Statuses == {"PROPOSED", "DUPLICATE", "PRODUCT_DECISION_REQUIRED", "ACCEPTED", "REJECTED",
             "FIXED", "VERIFIED"}

Findings == [reviewer : Reviewers, key : Keys, candidate : Trees \cup {None},
             status : Statuses, verified_by : Reviewers \cup {None}]

EventParts ==
    {"record", "task_tests", "task_implementation", "freeze", "readonly_check", "clean",
     "modified", "submit_review", "reconcile", "change_request_created", "fix", "gates",
     "pass", "fail", "verify_fix", "deploy"}
      \cup STAGES \cup Environments \cup Tasks \cup Trees \cup Reviewers \cup Nat \cup {None}

Events == Seq(EventParts)

Images == [
    state : RunStates, findings : Seq(Findings), pcrs : SUBSET Nat,
    manifest : Trees \cup {None}, snapshots : [Reviewers -> Trees \cup {None}],
    approval : Trees \cup {None}, ledger : SUBSET Events, torn : BOOLEAN]

-----------------------------------------------------------------------------
(* The inductive invariant *)

Assured == {"draft_pr", "deploy", "complete"}
Reconciled == {"fix", "retest", "refreeze", "verify"} \cup Assured
Reviewed == {"reconcile"} \cup Reconciled
HasCandidate == {"review", "reconcile", "fix", "retest", "verify"} \cup Assured

\* The ledger has what the state m says of reviews and of tests.
OnLedger(m, ledger) ==
    /\ \A r \in m.reviews : <<"submit_review", r>> \in ledger
    /\ \A r \in m.readonly : <<"readonly_check", r, "clean">> \in ledger
    /\ m.stage \in Reviewed => Reviewers \subseteq m.reviews /\ Reviewers \subseteq m.readonly
    /\ m.stage = "refreeze" => m.tested \in Trees /\ <<"gates", "pass", m.tested>> \in ledger
    /\ m.stage \in {"verify"} \cup Assured => <<"gates", "pass", m.candidate>> \in ledger

\* From a freeze to the next one the candidate is the manifest's.
OnManifest(m, manifest) ==
    m.stage \in HasCandidate => m.candidate = manifest /\ m.candidate \in Trees

\* What the stage says of the findings.
OnFindings(m, findings) ==
    /\ m.stage \in Reconciled =>
         \A i \in DOMAIN findings :
            /\ findings[i].status # "PROPOSED"
            /\ findings[i].status \in {"ACCEPTED", "FIXED"} => i \in m.accepted
    /\ m.stage \notin Reconciled => \A i \in DOMAIN findings : findings[i].status # "FIXED"
    /\ m.stage \in Assured => \A i \in DOMAIN findings : findings[i].status \notin {"ACCEPTED", "FIXED"}
    /\ \A i \in m.verified : i \in DOMAIN findings /\ findings[i].status = "VERIFIED"

Backed(m, d) ==
    /\ OnLedger(m, d.ledger)
    /\ OnManifest(m, d.manifest)
    /\ OnFindings(m, d.findings)

\* What a deployment in the ledger stands for.
Deploying(ledger) == {e \in ledger : e[1] = "deploy"}

Vouched(ledger) ==
    \A e \in Deploying(ledger) :
        /\ e[3] = e[4]
        /\ <<"gates", "pass", e[4]>> \in ledger
        /\ e[2] = "production" => e[5] = e[4]

Sound == {d \in Images :
    /\ Backed(d.state, d)
    /\ Vouched(d.ledger)
    /\ Deploying(d.ledger) # {} => d.state.stage \in {"deploy", "complete"}}

\* The disk when the operation in progress is over.
Final(images, d) == IF images = <<>> THEN d ELSE images[Len(images)]

EngineInv ==
    /\ disk \in Sound
    /\ todo \in Seq(Sound)
    /\ tree \in Trees
    /\ mem \in RunStates \cup {None}
    /\ mem = None => todo = <<>>
    /\ mem # None => /\ Backed(mem, Final(todo, disk))
                     /\ mem.stage = Final(todo, disk).state.stage

-----------------------------------------------------------------------------
(* Images *)

\* An image beside which the state, the manifest and the deployments stand
\* and the ledger grows is sound when its findings fit the state.
LEMMA ImageKeeps ==
    ASSUME NEW d \in Sound, NEW e \in Images,
           e.state = d.state, OnManifest(d.state, e.manifest),
           d.ledger \subseteq e.ledger, Deploying(e.ledger) = Deploying(d.ledger),
           OnFindings(d.state, e.findings)
    PROVE  e \in Sound
<1>1. OnLedger(d.state, e.ledger)
  BY DEF Sound, Backed, OnLedger
<1>2. Vouched(e.ledger)
  BY DEF Sound, Vouched
<1> QED BY <1>1, <1>2 DEF Sound, Backed

\* Recorded leaves every state as well backed as it was.
LEMMA RecordedKeeps ==
    ASSUME NEW d \in Sound, NEW x \in Events, x[1] # "deploy"
    PROVE  /\ Recorded(d, x) \in Sound
           /\ Recorded(d, x).ledger = d.ledger \cup {x}
           /\ Recorded(d, x).state = d.state
           /\ Recorded(d, x).findings = d.findings
           /\ Recorded(d, x).manifest = d.manifest
           /\ \A m \in RunStates : Backed(m, d) => Backed(m, Recorded(d, x))
<1> DEFINE e == Recorded(d, x)
<1>1. /\ e \in Images /\ e.state = d.state /\ e.findings = d.findings
      /\ e.manifest = d.manifest /\ e.ledger = d.ledger \cup {x}
  BY DEF Sound, Images, Recorded
<1>2. Deploying(e.ledger) = Deploying(d.ledger)
  BY <1>1 DEF Deploying
<1>3. OnManifest(d.state, d.manifest) /\ OnFindings(d.state, d.findings)
  BY DEF Sound, Backed
<1>4. e \in Sound
  <2> HIDE DEF e
  <2> QED BY <1>1, <1>2, <1>3, ImageKeeps
<1>5. ASSUME NEW m \in RunStates, Backed(m, d) PROVE Backed(m, e)
  <2> HIDE DEF e
  <2> QED BY <1>1, <1>5 DEF Backed, OnLedger
<1> QED BY <1>1, <1>4, <1>5

\* Saved: the state that is saved is backed, and no deployment is forgotten.
LEMMA SavedKeeps ==
    ASSUME NEW d \in Sound, NEW m \in RunStates, Backed(m, d),
           d.state.stage \in {"deploy", "complete"} => m.stage \in {"deploy", "complete"}
    PROVE  /\ Saved(d, m) \in Sound
           /\ Saved(d, m).state = m
           /\ \A n \in RunStates : Backed(n, d) => Backed(n, Saved(d, m))
<1> DEFINE e == Saved(d, m)
<1>1. /\ e \in Images /\ e.state = m /\ e.findings = d.findings
      /\ e.manifest = d.manifest /\ e.ledger = d.ledger
  BY DEF Sound, Images, Saved
<1>2. ASSUME NEW n \in RunStates, Backed(n, d) PROVE Backed(n, e)
  <2> HIDE DEF e
  <2> QED BY <1>1, <1>2 DEF Backed
<1>3. e \in Sound
  <2> HIDE DEF e
  <2> QED BY <1>1, <1>2 DEF Sound
<1> QED BY <1>1, <1>2, <1>3

\* The images of an operation, and the state in memory, fit the invariant.
Fits(images, m) ==
    /\ images \in Seq(Sound)
    /\ images # <<>>
    /\ m \in RunStates
    /\ Backed(m, images[Len(images)])
    /\ m.stage = images[Len(images)].state.stage

LEMMA AppendFits ==
    ASSUME NEW s \in Seq(Sound), NEW t, NEW m, Fits(t, m)
    PROVE  Fits(s \o t, m)
<1>1. t \in Seq(Sound) /\ Len(t) \in Nat /\ Len(t) > 0
  BY DEF Fits
<1>2. s \o t \in Seq(Sound) /\ Len(s \o t) = Len(s) + Len(t) /\ (s \o t)[Len(s) + Len(t)] = t[Len(t)]
  BY <1>1
<1>3. s \o t # <<>>
  BY <1>1, <1>2
<1> QED BY <1>2, <1>3 DEF Fits

LEMMA SavedThenAdvancedFits ==
    ASSUME NEW d \in Sound, NEW m \in RunStates, NEW over \in BOOLEAN, NEW stage \in STAGES,
           Backed(m, d), m.stage = d.state.stage, m.stage \notin {"deploy", "complete"},
           over => Backed([m EXCEPT !.stage = stage], d)
    PROVE  Fits(SavedThenAdvanced(d, m, over, stage), AdvancedIf(m, over, stage))
<1> DEFINE a == [m EXCEPT !.stage = stage]
<1>1. a \in RunStates /\ a.stage = stage
  BY DEF RunStates
<1>2. Saved(d, m) \in Sound /\ Saved(d, m).state = m /\ Backed(m, Saved(d, m))
  BY SavedKeeps
<1>3. CASE over
  <2>1. Saved(d, a) \in Sound /\ Saved(d, a).state = a /\ Backed(a, Saved(d, a))
    <3> HIDE DEF a
    <3> QED BY <1>1, <1>3, SavedKeeps DEF a
  <2>2. SavedThenAdvanced(d, m, over, stage) = <<Saved(d, m), Saved(d, a)>> /\ AdvancedIf(m, over, stage) = a
    BY <1>3 DEF SavedThenAdvanced, AdvancedIf
  <2> HIDE DEF a
  <2> QED BY <1>1, <1>2, <2>1, <2>2 DEF Fits
<1>4. CASE ~over
  <2>1. SavedThenAdvanced(d, m, over, stage) = <<Saved(d, m)>> /\ AdvancedIf(m, over, stage) = m
    BY <1>4 DEF SavedThenAdvanced, AdvancedIf
  <2> QED BY <1>2, <2>1 DEF Fits
<1> QED BY <1>3, <1>4

\* What Idle gives an operation.
LEMMA IdleFacts ==
    ASSUME EngineInv, Idle
    PROVE  /\ mem \in RunStates /\ Backed(mem, disk) /\ mem.stage = disk.state.stage
           /\ disk \in Sound /\ disk \in Images /\ tree \in Trees
           /\ Backed(disk.state, disk) /\ disk.state \in RunStates
BY DEF EngineInv, Idle, Final, Sound, Images

LEMMA OperationKeeps ==
    ASSUME EngineInv, NEW images \in Seq(Sound), NEW m \in RunStates,
           Backed(m, Final(images, disk)), m.stage = Final(images, disk).state.stage,
           Operation(images, m)
    PROVE  EngineInv'
<1>1. todo' = images /\ mem' = m /\ disk' = disk /\ tree' = tree
  BY DEF Operation
<1>2. m # None
  BY NoneAssumption
<1> QED BY <1>1, <1>2 DEF EngineInv

LEMMA FittingKeeps ==
    ASSUME EngineInv, NEW images, NEW m, Fits(images, m), Operation(images, m)
    PROVE  EngineInv'
<1>1. Final(images, disk) = images[Len(images)]
  BY DEF Fits, Final
<1> QED BY <1>1, OperationKeeps DEF Fits

-----------------------------------------------------------------------------
(* The operations *)

LEMMA ProceedKeeps == ASSUME EngineInv, Proceed PROVE EngineInv'
<1> DEFINE x == <<"record", mem.stage>>
           d1 == Recorded(disk, x)
           m == [mem EXCEPT !.stage = Straight[mem.stage]]
<1>1. Idle /\ mem.stage \in DOMAIN Straight /\ Operation(<<d1, Saved(d1, m)>>, m)
  BY DEF Proceed
<1>2. /\ mem \in RunStates /\ Backed(mem, disk) /\ mem.stage = disk.state.stage
      /\ disk \in Sound /\ disk \in Images
  BY <1>1, IdleFacts
<1>3. x \in Events /\ x[1] # "deploy"
  BY <1>2 DEF Events, EventParts, RunStates
<1>4. d1 \in Sound /\ Backed(mem, d1) /\ d1.state = disk.state
  <2> HIDE DEF x
  <2> QED BY <1>2, <1>3, RecordedKeeps
<1>5. /\ m \in RunStates /\ m.stage = Straight[mem.stage] /\ m.reviews = mem.reviews
      /\ m.readonly = mem.readonly /\ m.accepted = mem.accepted /\ m.verified = mem.verified
      /\ m.candidate = mem.candidate /\ m.tested = mem.tested
  BY <1>1, <1>2 DEF RunStates, Straight, STAGES
<1>6. /\ mem.stage \in {"assessment", "architecture", "plan", "route", "integrate", "draft_pr", "deploy"}
      /\ mem.stage = "draft_pr" => m.stage = "deploy"
      /\ mem.stage = "deploy" => m.stage = "complete"
      /\ mem.stage \notin {"draft_pr", "deploy"} =>
           m.stage \in {"architecture", "plan", "route", "implement", "freeze"}
  BY <1>1, <1>5 DEF Straight
<1> HIDE DEF m, d1
<1>7. Backed(m, d1)
  <2>1. OnLedger(m, d1.ledger)
    BY <1>4, <1>5, <1>6 DEF Backed, OnLedger, Reviewed, Reconciled, Assured
  <2>2. OnManifest(m, d1.manifest)
    BY <1>4, <1>5, <1>6 DEF Backed, OnManifest, HasCandidate, Assured
  <2>3. OnFindings(m, d1.findings)
    BY <1>4, <1>5, <1>6 DEF Backed, OnFindings, Reconciled, Assured
  <2> QED BY <2>1, <2>2, <2>3 DEF Backed
<1>8. Saved(d1, m) \in Sound /\ Saved(d1, m).state = m /\ Backed(m, Saved(d1, m))
  BY <1>2, <1>4, <1>5, <1>6, <1>7, SavedKeeps
<1>9. Fits(<<d1, Saved(d1, m)>>, m)
  BY <1>4, <1>5, <1>8 DEF Fits
<1> QED BY <1>1, <1>9, FittingKeeps

LEMMA ImplementKeeps == ASSUME EngineInv, NEW t \in Tasks, Implement(t) PROVE EngineInv'
<1> DEFINE x1 == <<"task_tests", t>>
           x2 == <<"task_implementation", t>>
           d1 == Recorded(disk, x1)
           d2 == Recorded(d1, x2)
           m == [mem EXCEPT !.implemented = @ \cup {t}]
           over == Tasks \subseteq m.implemented
<1>1. /\ Idle /\ mem.stage = "implement"
      /\ Operation(<<d1, d2>> \o SavedThenAdvanced(d2, m, over, "integrate"),
                   AdvancedIf(m, over, "integrate"))
  BY DEF Implement
<1>2. /\ mem \in RunStates /\ Backed(mem, disk) /\ mem.stage = disk.state.stage /\ disk \in Sound
  BY <1>1, IdleFacts
<1>3. x1 \in Events /\ x1[1] # "deploy" /\ x2 \in Events /\ x2[1] # "deploy"
  BY DEF Events, EventParts
<1> HIDE DEF x1, x2
<1>4. d1 \in Sound /\ Backed(mem, d1) /\ d1.state = disk.state
  BY <1>2, <1>3, RecordedKeeps
<1>5. d2 \in Sound /\ Backed(mem, d2) /\ d2.state = disk.state
  <2> HIDE DEF d1
  <2> QED BY <1>2, <1>3, <1>4, RecordedKeeps
<1>6. /\ m \in RunStates /\ m.stage = mem.stage /\ m.reviews = mem.reviews
      /\ m.readonly = mem.readonly /\ m.accepted = mem.accepted /\ m.verified = mem.verified
      /\ m.candidate = mem.candidate /\ m.tested = mem.tested
  BY <1>2 DEF RunStates
<1> HIDE DEF m, d1, d2, over
<1>7. Backed(m, d2)
  BY <1>5, <1>6 DEF Backed, OnLedger, OnManifest, OnFindings
<1>8. Backed([m EXCEPT !.stage = "integrate"], d2)
  BY <1>1, <1>6, <1>7 DEF Backed, OnLedger, OnManifest, OnFindings, RunStates, Reviewed,
       Reconciled, Assured, HasCandidate
<1>9. Fits(SavedThenAdvanced(d2, m, over, "integrate"), AdvancedIf(m, over, "integrate"))
  BY <1>1, <1>2, <1>5, <1>6, <1>7, <1>8, SavedThenAdvancedFits DEF STAGES, over
<1>10. Fits(<<d1, d2>> \o SavedThenAdvanced(d2, m, over, "integrate"), AdvancedIf(m, over, "integrate"))
  <2>1. <<d1, d2>> \in Seq(Sound)
    BY <1>4, <1>5
  <2> QED BY <1>9, <2>1, AppendFits
<1> QED BY <1>1, <1>10, FittingKeeps

LEMMA FreezeKeeps == ASSUME EngineInv, Freeze PROVE EngineInv'
<1> DEFINE x == <<"freeze", tree>>
           d1 == [disk EXCEPT !.manifest = tree]
           d2 == Recorded(d1, x)
           m == IF mem.stage = "freeze"
                THEN [mem EXCEPT !.candidate = tree, !.reviews = {}, !.readonly = {},
                                 !.stage = "review"]
                ELSE [mem EXCEPT !.candidate = tree, !.stage = "verify"]
<1>1. /\ Idle /\ mem.stage \in {"freeze", "refreeze"}
      /\ mem.stage = "refreeze" => mem.tested \in {None, tree}
      /\ Operation(<<d1, d2, Saved(d2, m)>>, m)
  BY DEF Freeze
<1>2. /\ mem \in RunStates /\ Backed(mem, disk) /\ mem.stage = disk.state.stage
      /\ disk \in Sound /\ disk \in Images /\ tree \in Trees
      /\ Backed(disk.state, disk) /\ disk.state \in RunStates
  BY <1>1, IdleFacts
<1>3. /\ d1 \in Images /\ d1.state = disk.state /\ d1.ledger = disk.ledger
      /\ d1.findings = disk.findings /\ d1.manifest = tree
  BY <1>2 DEF Images
<1>4. x \in Events /\ x[1] # "deploy"
  BY <1>2 DEF Events, EventParts
<1> HIDE DEF x, d1
<1>5. d1 \in Sound
  <2>1. OnManifest(disk.state, d1.manifest)
    BY <1>1, <1>2 DEF OnManifest, HasCandidate, Assured
  <2> QED BY <1>2, <1>3, <2>1, ImageKeeps DEF Backed
<1>6. /\ d2 \in Sound /\ d2.state = disk.state /\ d2.findings = disk.findings
      /\ d2.manifest = tree /\ d2.ledger = disk.ledger \cup {x}
  BY <1>3, <1>4, <1>5, RecordedKeeps
<1> HIDE DEF d2
<1>7. CASE mem.stage = "freeze"
  <2>1. /\ m \in RunStates /\ m.stage = "review" /\ m.reviews = {} /\ m.readonly = {}
        /\ m.accepted = mem.accepted /\ m.verified = mem.verified /\ m.candidate = tree
    BY <1>2, <1>7 DEF RunStates, STAGES
  <2> HIDE DEF m
  <2>2. Backed(m, d2)
    BY <1>2, <1>6, <1>7, <2>1 DEF Backed, OnLedger, OnManifest, OnFindings, Reviewed,
         Reconciled, Assured
  <2>3. Saved(d2, m) \in Sound /\ Saved(d2, m).state = m /\ Backed(m, Saved(d2, m))
    BY <1>2, <1>6, <1>7, <2>1, <2>2, SavedKeeps
  <2>4. Fits(<<d1, d2, Saved(d2, m)>>, m)
    BY <1>5, <1>6, <2>1, <2>3 DEF Fits
  <2> QED BY <1>1, <2>4, FittingKeeps
<1>8. CASE mem.stage = "refreeze"
  <2>1. /\ m \in RunStates /\ m.stage = "verify" /\ m.reviews = mem.reviews
        /\ m.readonly = mem.readonly /\ m.accepted = mem.accepted
        /\ m.verified = mem.verified /\ m.candidate = tree
    BY <1>2, <1>8 DEF RunStates, STAGES
  <2> HIDE DEF m
  <2>2. mem.tested = tree /\ <<"gates", "pass", tree>> \in disk.ledger
    BY <1>1, <1>2, <1>8, EngineAssumption DEF Backed, OnLedger
  <2>3. Backed(m, d2)
    BY <1>2, <1>6, <1>8, <2>1, <2>2 DEF Backed, OnLedger, OnManifest, OnFindings, Reviewed,
         Reconciled, Assured
  <2>4. Saved(d2, m) \in Sound /\ Saved(d2, m).state = m /\ Backed(m, Saved(d2, m))
    BY <1>2, <1>6, <1>8, <2>1, <2>3, SavedKeeps
  <2>5. Fits(<<d1, d2, Saved(d2, m)>>, m)
    BY <1>5, <1>6, <2>1, <2>4 DEF Fits
  <2> QED BY <1>1, <2>5, FittingKeeps
<1> QED BY <1>1, <1>7, <1>8

\* An image that differs from the disk in what no clause of Backed reads.
LEMMA AsideKeeps ==
    ASSUME EngineInv, Idle, NEW d \in Images, d.state = disk.state, d.ledger = disk.ledger,
           d.findings = disk.findings, d.manifest = disk.manifest, Operation(<<d>>, mem)
    PROVE  EngineInv'
<1>1. /\ mem \in RunStates /\ Backed(mem, disk) /\ mem.stage = disk.state.stage
      /\ disk \in Sound /\ Backed(disk.state, disk)
  BY IdleFacts
<1>2. d \in Sound
  BY <1>1, ImageKeeps DEF Backed
<1>3. Backed(mem, d)
  BY <1>1 DEF Backed
<1>4. Fits(<<d>>, mem)
  BY <1>1, <1>2, <1>3 DEF Fits
<1> QED BY <1>4, FittingKeeps

LEMMA BeginReviewKeeps == ASSUME EngineInv, NEW r \in Reviewers, BeginReview(r) PROVE EngineInv'
<1> DEFINE d == [disk EXCEPT !.snapshots[r] = tree]
<1>1. Idle /\ Operation(<<d>>, mem)
  BY DEF BeginReview
<1>2. disk \in Images /\ tree \in Trees
  BY <1>1, IdleFacts
<1>3. /\ d \in Images /\ d.state = disk.state /\ d.ledger = disk.ledger
      /\ d.findings = disk.findings /\ d.manifest = disk.manifest
  BY <1>2 DEF Images
<1> HIDE DEF d
<1> QED BY <1>1, <1>3, AsideKeeps

LEMMA ApproveProductionKeeps == ASSUME EngineInv, ApproveProduction PROVE EngineInv'
<1> DEFINE d == [disk EXCEPT !.approval = mem.candidate]
<1>1. Idle /\ Operation(<<d>>, mem)
  BY DEF ApproveProduction
<1>2. disk \in Images /\ mem \in RunStates
  BY <1>1, IdleFacts
<1>3. mem.candidate \in Trees \cup {None}
  BY <1>2 DEF RunStates
<1>4. /\ d \in Images /\ d.state = disk.state /\ d.ledger = disk.ledger
      /\ d.findings = disk.findings /\ d.manifest = disk.manifest
  BY <1>2, <1>3 DEF Images
<1> HIDE DEF d
<1> QED BY <1>1, <1>4, AsideKeeps

LEMMA EndReviewKeeps == ASSUME EngineInv, NEW r \in Reviewers, EndReview(r) PROVE EngineInv'
<1> DEFINE x == <<"readonly_check", r, "clean">>
           y == <<"readonly_check", r, "modified">>
           d == Recorded(disk, x)
           m == [mem EXCEPT !.readonly = @ \cup {r}]
           over == ReviewOver(m)
<1>1. /\ Idle /\ mem.stage = "review"
      /\ \/ Operation(<<d>> \o SavedThenAdvanced(d, m, over, "reconcile"),
                      AdvancedIf(m, over, "reconcile"))
         \/ Operation(<<Recorded(disk, y)>>, mem)
  BY DEF EndReview
<1>2. /\ mem \in RunStates /\ Backed(mem, disk) /\ mem.stage = disk.state.stage /\ disk \in Sound
  BY <1>1, IdleFacts
<1>3. x \in Events /\ x[1] # "deploy" /\ y \in Events /\ y[1] # "deploy"
  BY DEF Events, EventParts
<1>4. CASE Operation(<<d>> \o SavedThenAdvanced(d, m, over, "reconcile"), AdvancedIf(m, over, "reconcile"))
  <2>1. /\ d \in Sound /\ Backed(mem, d) /\ d.state = disk.state /\ x \in d.ledger
    <3> HIDE DEF x
    <3> QED BY <1>2, <1>3, RecordedKeeps
  <2>2. /\ m \in RunStates /\ m.stage = mem.stage /\ m.reviews = mem.reviews
        /\ m.readonly = mem.readonly \cup {r} /\ m.accepted = mem.accepted
        /\ m.verified = mem.verified /\ m.candidate = mem.candidate /\ m.tested = mem.tested
    BY <1>2 DEF RunStates
  <2>3. over \in BOOLEAN /\ (over => Reviewers \subseteq m.reviews /\ Reviewers \subseteq m.readonly)
    BY DEF ReviewOver
  <2> HIDE DEF m, d, over
  <2>4. Backed(m, d)
    BY <1>1, <2>1, <2>2 DEF Backed, OnLedger, OnManifest, OnFindings, Reviewed, Reconciled, Assured
  <2>5. over => Backed([m EXCEPT !.stage = "reconcile"], d)
    BY <1>1, <2>2, <2>3, <2>4 DEF Backed, OnLedger, OnManifest, OnFindings, RunStates, Reviewed,
         Reconciled, Assured, HasCandidate
  <2>6. Fits(SavedThenAdvanced(d, m, over, "reconcile"), AdvancedIf(m, over, "reconcile"))
    BY <1>1, <1>2, <2>1, <2>2, <2>3, <2>4, <2>5, SavedThenAdvancedFits DEF STAGES
  <2>7. <<d>> \in Seq(Sound)
    BY <2>1
  <2>8. Fits(<<d>> \o SavedThenAdvanced(d, m, over, "reconcile"), AdvancedIf(m, over, "reconcile"))
    BY <2>6, <2>7, AppendFits
  <2> QED BY <1>4, <2>8, FittingKeeps
<1>5. CASE Operation(<<Recorded(disk, y)>>, mem)
  <2>1. /\ Recorded(disk, y) \in Sound /\ Backed(mem, Recorded(disk, y))
        /\ Recorded(disk, y).state = disk.state
    <3> HIDE DEF y
    <3> QED BY <1>2, <1>3, RecordedKeeps
  <2>2. Fits(<<Recorded(disk, y)>>, mem)
    BY <1>2, <2>1 DEF Fits
  <2> QED BY <1>5, <2>2, FittingKeeps
<1> QED BY <1>1, <1>4, <1>5

LEMMA SubmitReviewKeeps ==
    ASSUME EngineInv, NEW r \in Reviewers, NEW report \in Reports, SubmitReview(r, report)
    PROVE  EngineInv'
<1> DEFINE New(n) == [i \in 1..n |-> Proposed(r, report[i])]
           Taken(n) == [disk EXCEPT !.findings = @ \o New(n)]
           x == <<"submit_review", r>>
           d == Recorded(Taken(Len(report)), x)
           m == [mem EXCEPT !.reviews = @ \cup {r}]
           over == ReviewOver(m)
           saves == SavedThenAdvanced(d, m, over, "reconcile")
           taken == [i \in 1..Len(report) |-> Taken(i)]
<1>1. /\ Idle /\ mem.stage = "review"
      /\ Operation(taken \o <<d>> \o saves, AdvancedIf(m, over, "reconcile"))
  BY DEF SubmitReview
<1>2. /\ mem \in RunStates /\ Backed(mem, disk) /\ mem.stage = disk.state.stage
      /\ disk \in Sound /\ disk \in Images /\ Backed(disk.state, disk)
  BY <1>1, IdleFacts
<1>3. report \in Seq(Keys) /\ Len(report) \in Nat
  BY EngineAssumption DEF Keys
<1>4. ASSUME NEW n \in 0..Len(report)
      PROVE  /\ Taken(n) \in Sound /\ Taken(n).state = disk.state
             /\ Backed(mem, Taken(n))
  <2> DEFINE fs == disk.findings \o New(n)
  <2>1. disk.findings \in Seq(Findings)
    BY <1>2 DEF Images
  <2>2. \A i \in 1..n : Proposed(r, report[i]) \in Findings /\ Proposed(r, report[i]).status = "PROPOSED"
    BY <1>2, <1>3 DEF Proposed, Findings, Statuses, RunStates
  <2>3. New(n) \in Seq(Findings) /\ Len(New(n)) = n /\ \A i \in 1..n : New(n)[i].status = "PROPOSED"
    BY <1>3, <2>2
  <2> HIDE DEF New
  <2>4. /\ fs \in Seq(Findings) /\ Len(fs) = Len(disk.findings) + n
        /\ \A i \in DOMAIN disk.findings : i \in DOMAIN fs /\ fs[i] = disk.findings[i]
        /\ \A i \in DOMAIN fs : i \in DOMAIN disk.findings \/ fs[i].status = "PROPOSED"
    <3>1. PICK old : old = disk.findings
      OBVIOUS
    <3>2. PICK new : new = New(n)
      OBVIOUS
    <3>3. old \in Seq(Findings) /\ new \in Seq(Findings) /\ fs = old \o new /\ Len(new) = n
      BY <2>1, <2>3, <3>1, <3>2
    <3>4. fs \in Seq(Findings) /\ Len(fs) = Len(old) + n
      BY <3>3
    <3>5. \A i \in DOMAIN old : i \in DOMAIN fs /\ fs[i] = old[i]
      BY <3>3
    <3>6. ASSUME NEW i \in DOMAIN fs, i \notin DOMAIN old PROVE fs[i].status = "PROPOSED"
      <4>1. i - Len(old) \in 1..n /\ fs[i] = new[i - Len(old)]
        BY <3>3, <3>6
      <4> QED BY <2>3, <3>2, <4>1
    <3> QED BY <3>1, <3>4, <3>5, <3>6
  <2> HIDE DEF fs
  <2>5. /\ Taken(n) \in Images /\ Taken(n).state = disk.state /\ Taken(n).findings = fs
        /\ Taken(n).ledger = disk.ledger /\ Taken(n).manifest = disk.manifest
    BY <1>2, <2>4 DEF Images, fs
  <2> HIDE DEF Taken
  <2>6. OnFindings(disk.state, fs) /\ OnFindings(mem, fs)
    BY <1>1, <1>2, <2>4 DEF Backed, OnFindings, Reconciled, Assured
  <2>7. Taken(n) \in Sound
    BY <1>2, <2>5, <2>6, ImageKeeps DEF Backed
  <2> QED BY <1>2, <2>5, <2>6, <2>7 DEF Backed
<1>5. taken \in Seq(Sound)
  <2> HIDE DEF Taken
  <2> QED BY <1>3, <1>4
<1>6. x \in Events /\ x[1] # "deploy"
  BY DEF Events, EventParts
<1>7. d \in Sound /\ Backed(mem, d) /\ d.state = disk.state /\ x \in d.ledger
  <2> HIDE DEF x, Taken
  <2> QED BY <1>2, <1>3, <1>4, <1>6, RecordedKeeps
<1>8. /\ m \in RunStates /\ m.stage = mem.stage /\ m.reviews = mem.reviews \cup {r}
      /\ m.readonly = mem.readonly /\ m.accepted = mem.accepted
      /\ m.verified = mem.verified /\ m.candidate = mem.candidate /\ m.tested = mem.tested
  BY <1>2 DEF RunStates
<1>9. over \in BOOLEAN /\ (over => Reviewers \subseteq m.reviews /\ Reviewers \subseteq m.readonly)
  BY DEF ReviewOver
<1> HIDE DEF m, d, over, taken
<1>10. Backed(m, d)
  BY <1>1, <1>7, <1>8 DEF Backed, OnLedger, OnManifest, OnFindings, Reviewed, Reconciled, Assured
<1>11. over => Backed([m EXCEPT !.stage = "reconcile"], d)
  BY <1>1, <1>8, <1>9, <1>10 DEF Backed, OnLedger, OnManifest, OnFindings, RunStates, Reviewed,
       Reconciled, Assured, HasCandidate
<1>12. Fits(saves, AdvancedIf(m, over, "reconcile"))
  BY <1>1, <1>2, <1>7, <1>8, <1>9, <1>10, <1>11, SavedThenAdvancedFits DEF STAGES
<1>13. taken \o <<d>> \in Seq(Sound)
  BY <1>5, <1>7
<1> HIDE DEF saves
<1>14. Fits(taken \o <<d>> \o saves, AdvancedIf(m, over, "reconcile"))
  BY <1>12, <1>13, AppendFits
<1> QED BY <1>1, <1>14, FittingKeeps

LEMMA RecordGatesKeeps == ASSUME EngineInv, NEW passed \in BOOLEAN, RecordGates(passed) PROVE EngineInv'
<1> DEFINE x == <<"gates", IF passed THEN "pass" ELSE "fail", tree>>
           d == Recorded(disk, x)
           m == [mem EXCEPT !.tested = tree]
           next == [m EXCEPT !.gates = TRUE,
                             !.stage = IF m.accepted # {} THEN "refreeze" ELSE "draft_pr"]
<1>1. /\ Idle /\ mem.stage = "retest"
      /\ \/ Operation(<<d, Saved(d, m)>>, m)
         \/ Operation(<<d>>, m)
         \/ /\ passed /\ (m.accepted # {} \/ tree = m.candidate)
            /\ Operation(<<d, Saved(d, next)>>, next)
  BY DEF RecordGates
<1>2. /\ mem \in RunStates /\ Backed(mem, disk) /\ mem.stage = disk.state.stage
      /\ disk \in Sound /\ tree \in Trees
  BY <1>1, IdleFacts
<1>3. x \in Events /\ x[1] # "deploy"
  BY <1>2 DEF Events, EventParts
<1>4. d \in Sound /\ Backed(mem, d) /\ d.state = disk.state /\ x \in d.ledger
  <2> HIDE DEF x
  <2> QED BY <1>2, <1>3, RecordedKeeps
<1>5. /\ m \in RunStates /\ m.stage = "retest" /\ m.reviews = mem.reviews
      /\ m.readonly = mem.readonly /\ m.accepted = mem.accepted
      /\ m.verified = mem.verified /\ m.candidate = mem.candidate /\ m.tested = tree
  BY <1>1, <1>2 DEF RunStates
<1>6. passed => <<"gates", "pass", tree>> \in d.ledger
  BY <1>4
<1>7. /\ next \in RunStates /\ next.stage = (IF m.accepted # {} THEN "refreeze" ELSE "draft_pr")
      /\ next.reviews = m.reviews
      /\ next.readonly = m.readonly /\ next.accepted = m.accepted
      /\ next.verified = m.verified /\ next.candidate = m.candidate /\ next.tested = m.tested
  <2> HIDE DEF m
  <2> QED BY <1>5 DEF RunStates, STAGES
<1> HIDE DEF d, m, next
<1>8. Backed(m, d)
  BY <1>1, <1>4, <1>5 DEF Backed, OnLedger, OnManifest, OnFindings, Reviewed, Reconciled, Assured
<1>9. CASE Operation(<<d, Saved(d, m)>>, m)
  <2>1. Saved(d, m) \in Sound /\ Saved(d, m).state = m /\ Backed(m, Saved(d, m))
    BY <1>1, <1>2, <1>4, <1>5, <1>8, SavedKeeps
  <2>2. Fits(<<d, Saved(d, m)>>, m)
    BY <1>4, <1>5, <2>1 DEF Fits
  <2> QED BY <1>9, <2>2, FittingKeeps
<1>10. CASE Operation(<<d>>, m)
  <2>1. Fits(<<d>>, m)
    BY <1>1, <1>2, <1>4, <1>5, <1>8 DEF Fits
  <2> QED BY <1>10, <2>1, FittingKeeps
<1>11. CASE /\ passed /\ (m.accepted # {} \/ tree = m.candidate)
            /\ Operation(<<d, Saved(d, next)>>, next)
  <2>1. OnLedger(next, d.ledger)
    BY <1>2, <1>5, <1>6, <1>7, <1>8, <1>11 DEF Backed, OnLedger, Reviewed, Reconciled, Assured
  <2>2. OnManifest(next, d.manifest)
    BY <1>5, <1>7, <1>8 DEF Backed, OnManifest, HasCandidate, Assured
  <2>3. OnFindings(next, d.findings)
    BY <1>5, <1>7, <1>8 DEF Backed, OnFindings, Reconciled, Assured
  <2>4. Backed(next, d)
    BY <2>1, <2>2, <2>3 DEF Backed
  <2>5. Saved(d, next) \in Sound /\ Saved(d, next).state = next /\ Backed(next, Saved(d, next))
    BY <1>1, <1>2, <1>4, <1>7, <2>4, SavedKeeps
  <2>6. Fits(<<d, Saved(d, next)>>, next)
    BY <1>4, <1>7, <2>5 DEF Fits
  <2> QED BY <1>11, <2>6, FittingKeeps
<1> QED BY <1>1, <1>9, <1>10, <1>11

LEMMA DeployKeeps == ASSUME EngineInv, NEW environment \in Environments, Deploy(environment) PROVE EngineInv'
<1> DEFINE approval == IF environment = "production" THEN disk.approval ELSE None
           x == <<"deploy", environment, mem.candidate, tree, approval>>
           d == Recorded(disk, x)
           m == [mem EXCEPT !.deployments = @ \cup {environment}]
<1>1. /\ Idle /\ mem.stage = "deploy" /\ tree = disk.manifest
      /\ environment = "production" => disk.approval = mem.candidate
      /\ Operation(<<d, Saved(d, m)>>, m)
  BY DEF Deploy
<1>2. /\ mem \in RunStates /\ Backed(mem, disk) /\ mem.stage = disk.state.stage
      /\ disk \in Sound /\ disk \in Images /\ tree \in Trees
      /\ Backed(disk.state, disk) /\ disk.state \in RunStates
  BY <1>1, IdleFacts
<1>3. mem.candidate = tree /\ <<"gates", "pass", tree>> \in disk.ledger
  BY <1>1, <1>2 DEF Backed, OnLedger, OnManifest, Assured, HasCandidate
<1>4. x \in Events /\ x[1] = "deploy" /\ x[2] = environment /\ x[3] = x[4] /\ x[4] = tree /\ x[5] = approval
  <2>1. approval \in Trees \cup {None}
    BY <1>2 DEF Images
  <2> HIDE DEF approval
  <2> QED BY <1>2, <1>3, <2>1 DEF Events, EventParts
<1>5. environment = "production" => x[5] = x[4]
  BY <1>1, <1>3, <1>4
<1> HIDE DEF x
<1>6. /\ d \in Images /\ d.state = disk.state /\ d.findings = disk.findings
      /\ d.manifest = disk.manifest /\ d.ledger = disk.ledger \cup {x}
  BY <1>2, <1>4 DEF Images, Recorded
<1> HIDE DEF d
<1>7. Vouched(d.ledger)
  BY <1>2, <1>3, <1>4, <1>5, <1>6 DEF Vouched, Deploying, Sound
<1>8. Backed(disk.state, d) /\ Backed(mem, d)
  BY <1>2, <1>6 DEF Backed, OnLedger
<1>9. d \in Sound
  BY <1>1, <1>2, <1>6, <1>7, <1>8 DEF Sound
<1>10. /\ m \in RunStates /\ m.stage = "deploy" /\ m.reviews = mem.reviews
       /\ m.readonly = mem.readonly /\ m.accepted = mem.accepted
       /\ m.verified = mem.verified /\ m.candidate = mem.candidate /\ m.tested = mem.tested
  BY <1>1, <1>2 DEF RunStates
<1> HIDE DEF m
<1>11. Backed(m, d)
  BY <1>1, <1>8, <1>10 DEF Backed, OnLedger, OnManifest, OnFindings
<1>12. Saved(d, m) \in Sound /\ Saved(d, m).state = m /\ Backed(m, Saved(d, m))
  BY <1>9, <1>10, <1>11, SavedKeeps
<1>13. Fits(<<d, Saved(d, m)>>, m)
  BY <1>9, <1>10, <1>12 DEF Fits
<1> QED BY <1>1, <1>13, FittingKeeps

LEMMA DecidedFacts ==
    ASSUME disk \in Images, NEW decisions \in OwnerDecisions, NEW i \in DOMAIN disk.findings
    PROVE  /\ Decided(i, decisions) \in Statuses
           /\ disk.findings[i].status # "PROPOSED" => Decided(i, decisions) = disk.findings[i].status
           /\ Decided(i, decisions) = "FIXED" => disk.findings[i].status = "FIXED"
<1>1. disk.findings[i] \in Findings
  BY DEF Images
<1>2. \A j \in DOMAIN decisions : decisions[j] \in {"ACCEPTED", "REJECTED"}
  BY DEF OwnerDecisions
<1> QED BY <1>1, <1>2 DEF Decided, Findings, Statuses

\* The images of reconcile while no stage is over.
LEMMA TreatedKeeps ==
    ASSUME EngineInv, Idle, mem.stage = "reconcile", NEW decisions \in OwnerDecisions,
           NEW n \in Nat, NEW k \in Nat
    PROVE  LET e == Treated(n, k, decisions)
           IN  /\ e \in Sound /\ e.state = disk.state /\ Backed(mem, e)
               /\ DOMAIN e.findings = DOMAIN disk.findings
               /\ \A i \in DOMAIN disk.findings : i <= n => e.findings[i].status = Decided(i, decisions)
<1> DEFINE e == Treated(n, k, decisions)
           fs == [i \in DOMAIN disk.findings |->
                    IF i <= n THEN [disk.findings[i] EXCEPT !.status = Decided(i, decisions)]
                    ELSE disk.findings[i]]
           new == {i \in 1..k : /\ disk.findings[i].status = "PROPOSED"
                                /\ Decided(i, decisions) = "PRODUCT_DECISION_REQUIRED"}
<1>1. /\ mem \in RunStates /\ Backed(mem, disk) /\ mem.stage = disk.state.stage
      /\ disk \in Sound /\ disk \in Images /\ Backed(disk.state, disk)
  BY IdleFacts
<1>2. disk.findings \in Seq(Findings)
  BY <1>1 DEF Images
<1>3. ASSUME NEW i \in DOMAIN disk.findings
      PROVE  /\ fs[i] \in Findings
             /\ i <= n => fs[i].status = Decided(i, decisions)
             /\ fs[i].status = disk.findings[i].status \/ fs[i].status = Decided(i, decisions)
  <2>1. disk.findings[i] \in Findings
    BY <1>2
  <2>2. Decided(i, decisions) \in Statuses
    BY <1>1, DecidedFacts
  <2> QED BY <2>1, <2>2 DEF Findings
<1>4. fs \in Seq(Findings) /\ DOMAIN fs = DOMAIN disk.findings
  <2>1. DOMAIN disk.findings = 1..Len(disk.findings) /\ Len(disk.findings) \in Nat
    BY <1>2
  <2>2. fs \in [1..Len(disk.findings) -> Findings]
    BY <1>3, <2>1
  <2> HIDE DEF fs
  <2> QED BY <2>1, <2>2
<1>5. e = [disk EXCEPT !.findings = fs, !.pcrs = @ \cup new]
  BY DEF Treated
<1>6. new \subseteq Nat
  OBVIOUS
<1> HIDE DEF fs, new
<1>7. /\ e \in Images /\ e.state = disk.state /\ e.ledger = disk.ledger
      /\ e.manifest = disk.manifest /\ e.findings = fs
  BY <1>1, <1>4, <1>5, <1>6 DEF Images
<1> HIDE DEF e
<1>8. ASSUME NEW i \in DOMAIN disk.findings
      PROVE  /\ fs[i].status = "FIXED" => disk.findings[i].status = "FIXED"
             /\ disk.findings[i].status = "VERIFIED" => fs[i].status = "VERIFIED"
  BY <1>1, <1>3, DecidedFacts
<1>9. OnFindings(disk.state, fs) /\ OnFindings(mem, fs)
  BY <1>1, <1>4, <1>8 DEF Backed, OnFindings, Reconciled, Assured
<1>10. e \in Sound
  BY <1>1, <1>7, <1>9, ImageKeeps DEF Backed
<1>11. Backed(mem, e)
  BY <1>1, <1>7, <1>9 DEF Backed
<1> QED BY <1>3, <1>4, <1>7, <1>10, <1>11 DEF e

LEMMA Halves == \A n \in Nat : 2 * n \in Nat /\ (2 * n + 1) \div 2 = n
OBVIOUS

LEMMA ReconcileKeeps ==
    ASSUME EngineInv, NEW decisions \in OwnerDecisions, ReconcileFindings(decisions)
    PROVE  EngineInv'
<1> DEFINE n == Len(disk.findings)
           Image(j) == Treated((j + 1) \div 2, j \div 2, decisions)
           written == [j \in 1..(2 * n) |-> Image(j)]
           d1 == Recorded(Image(2 * n), <<"reconcile">>)
           Having(status) == {i \in 1..n : Decided(i, decisions) = status}
           requests == Having("PRODUCT_DECISION_REQUIRED")
           Noted(k) == [d1 EXCEPT !.ledger =
                           @ \cup {<<"change_request_created", i>> : i \in requests \cap 1..k}]
           noted == [k \in 1..n |-> Noted(k)]
           m == [mem EXCEPT !.accepted = Having("ACCEPTED"),
                            !.stage = IF Having("ACCEPTED") # {} THEN "fix" ELSE "retest"]
<1>1. /\ Idle /\ mem.stage = "reconcile"
      /\ \/ Undecided(decisions) # {} /\ Operation(written, mem)
         \/ /\ Undecided(decisions) = {}
            /\ Operation(written \o <<d1>> \o noted \o <<Saved(Noted(n), m)>>, m)
  BY DEF ReconcileFindings
<1>2. /\ mem \in RunStates /\ Backed(mem, disk) /\ mem.stage = disk.state.stage
      /\ disk \in Sound /\ disk \in Images
  BY <1>1, IdleFacts
<1>3. n \in Nat /\ DOMAIN disk.findings = 1..n
  <2>1. disk.findings \in Seq(Findings)
    BY <1>2 DEF Images
  <2> QED BY <2>1
<1>4. ASSUME NEW j \in Nat
      PROVE  /\ Image(j) \in Sound /\ Image(j).state = disk.state /\ Backed(mem, Image(j))
             /\ DOMAIN Image(j).findings = DOMAIN disk.findings
             /\ \A i \in DOMAIN disk.findings :
                  i <= (j + 1) \div 2 => Image(j).findings[i].status = Decided(i, decisions)
  <2>1. (j + 1) \div 2 \in Nat /\ j \div 2 \in Nat
    OBVIOUS
  <2> QED BY <1>1, <2>1, TreatedKeeps
<1>5. written \in Seq(Sound) /\ Len(written) = 2 * n /\ \A j \in 1..(2 * n) : written[j] = Image(j)
  <2> HIDE DEF Image, n
  <2> QED BY <1>3, <1>4
<1>6. CASE Undecided(decisions) # {} /\ Operation(written, mem)
  <2>1. Final(written, disk).state = disk.state /\ Backed(mem, Final(written, disk))
    <3> HIDE DEF written, Image, n
    <3> QED BY <1>2, <1>3, <1>4, <1>5 DEF Final
  <2> HIDE DEF written
  <2> QED BY <1>2, <1>5, <1>6, <2>1, OperationKeeps
<1>7. CASE /\ Undecided(decisions) = {}
           /\ Operation(written \o <<d1>> \o noted \o <<Saved(Noted(n), m)>>, m)
  <2> DEFINE last == Image(2 * n)
             x == <<"reconcile">>
  <2>1. /\ last \in Sound /\ last.state = disk.state /\ Backed(mem, last)
        /\ DOMAIN last.findings = 1..n
        /\ \A i \in 1..n : last.findings[i].status = Decided(i, decisions)
    <3>1. 2 * n \in Nat /\ (2 * n + 1) \div 2 = n
      BY <1>3, Halves
    <3> HIDE DEF Image, n
    <3> QED BY <1>3, <1>4, <3>1
  <2>2. x \in Events /\ x[1] # "deploy"
    BY DEF Events, EventParts
  <2>3. d1 \in Sound /\ d1.state = disk.state /\ Backed(mem, d1) /\ d1.findings = last.findings
    <3> HIDE DEF last
    <3> QED BY <1>2, <2>1, <2>2, RecordedKeeps DEF last
  <2> HIDE DEF last, d1
  <2>4. ASSUME NEW k \in 0..n
        PROVE  /\ Noted(k) \in Sound /\ Noted(k).state = disk.state
               /\ Noted(k).findings = last.findings /\ Backed(mem, Noted(k))
    <3> DEFINE xs == {<<"change_request_created", i>> : i \in requests \cap 1..k}
               e == Noted(k)
    <3>1. xs \subseteq Events /\ \A y \in xs : y[1] # "deploy"
      <4>1. \A i \in 1..n : /\ <<"change_request_created", i>> \in Events
                            /\ <<"change_request_created", i>>[1] # "deploy"
        BY <1>3 DEF Events, EventParts
      <4> HIDE DEF n
      <4> QED BY <4>1
    <3> HIDE DEF xs
    <3>2. /\ e \in Images /\ e.state = d1.state /\ e.findings = d1.findings
          /\ e.manifest = d1.manifest /\ e.ledger = d1.ledger \cup xs
      BY <2>3, <3>1 DEF Images, Sound, xs
    <3> HIDE DEF e
    <3>3. Deploying(e.ledger) = Deploying(d1.ledger)
      BY <3>1, <3>2 DEF Deploying
    <3>4. e \in Sound
      <4>1. OnManifest(d1.state, d1.manifest) /\ OnFindings(d1.state, d1.findings)
        BY <2>3 DEF Sound, Backed
      <4> QED BY <2>3, <3>2, <3>3, <4>1, ImageKeeps
    <3>5. Backed(mem, e)
      BY <2>3, <3>2 DEF Backed, OnLedger
    <3> QED BY <2>3, <3>2, <3>4, <3>5 DEF e
  <2>5. \A i \in 1..n : Decided(i, decisions) # "PROPOSED" /\ Decided(i, decisions) # "FIXED"
    <3>1. \A i \in DOMAIN disk.findings : disk.findings[i].status # "FIXED"
      BY <1>1, <1>2 DEF Backed, OnFindings, Reconciled, Assured
    <3> QED BY <1>2, <1>3, <1>7, <3>1, DecidedFacts DEF Undecided
  <2>6. /\ m \in RunStates /\ m.stage \in {"fix", "retest"} /\ m.reviews = mem.reviews
        /\ m.readonly = mem.readonly /\ m.accepted = Having("ACCEPTED")
        /\ m.verified = mem.verified /\ m.candidate = mem.candidate /\ m.tested = mem.tested
    <3>1. Having("ACCEPTED") \in SUBSET Nat
      BY <1>3
    <3> HIDE DEF Having
    <3> QED BY <1>2, <3>1 DEF RunStates, STAGES
  <2> DEFINE d == Noted(n)
  <2>7. /\ d \in Sound /\ d.state = disk.state /\ d.findings = last.findings /\ Backed(mem, d)
    <3> HIDE DEF Noted, n
    <3> QED BY <1>3, <2>4
  <2>8. noted \in Seq(Sound)
    <3> HIDE DEF Noted, n
    <3> QED BY <1>3, <2>4
  <2> HIDE DEF Noted, d, noted
  <2>9. Backed(m, d)
    <3>1. OnLedger(m, d.ledger)
      BY <1>1, <2>6, <2>7 DEF Backed, OnLedger, Reviewed, Reconciled, Assured
    <3>2. OnManifest(m, d.manifest)
      BY <1>1, <2>6, <2>7 DEF Backed, OnManifest, HasCandidate, Assured
    <3>3. OnFindings(m, d.findings)
      <4>1. \A i \in 1..n : d.findings[i].status = "ACCEPTED" => i \in m.accepted
        BY <2>1, <2>6, <2>7
      <4> QED BY <2>1, <2>5, <2>6, <2>7, <4>1 DEF Backed, OnFindings, Reconciled, Assured
    <3> QED BY <3>1, <3>2, <3>3 DEF Backed
  <2> HIDE DEF m
  <2>10. Saved(d, m) \in Sound /\ Saved(d, m).state = m /\ Backed(m, Saved(d, m))
    BY <1>1, <1>2, <2>6, <2>7, <2>9, SavedKeeps
  <2>11. Fits(<<Saved(d, m)>>, m)
    BY <2>6, <2>10 DEF Fits
  <2> HIDE DEF written
  <2>12. written \o <<d1>> \o noted \in Seq(Sound)
    BY <1>5, <2>3, <2>8
  <2>13. Fits(written \o <<d1>> \o noted \o <<Saved(d, m)>>, m)
    BY <2>11, <2>12, AppendFits
  <2> QED BY <1>7, <2>13, FittingKeeps DEF d
<1> QED BY <1>1, <1>6, <1>7

LEMMA FixKeeps ==
    ASSUME EngineInv, mem # None, NEW entries \in FixLists, Fix(entries)
    PROVE  EngineInv'
<1> DEFINE good == {k \in DOMAIN entries : Fixable(entries[k]) \/ Adoptable(entries[k])}
           n == IF good = DOMAIN entries THEN Len(entries) ELSE Len(entries) - 1
           Fixed(k) == {i \in {entries[j] : j \in 1..k} : Fixable(i)}
           Written(s, e) == [disk EXCEPT
               !.findings = [i \in DOMAIN @ |->
                   IF i \in Fixed(s) THEN [@[i] EXCEPT !.status = "FIXED"] ELSE @[i]],
               !.ledger = @ \cup {<<"fix", i>> : i \in Fixed(e)}]
           written == [j \in 1..(2 * n) |-> Written((j + 1) \div 2, j \div 2)]
           m == [mem EXCEPT !.fixed = @ \cup {entries[k] : k \in 1..n}]
           over == mem.accepted \subseteq m.fixed
           saves == SavedThenAdvanced(Written(n, n), m, over, "retest")
<1>1. /\ Idle /\ mem.stage = "fix"
      /\ \/ Operation(written, m)
         \/ Operation(written \o saves, AdvancedIf(m, over, "retest"))
  BY DEF Fix
<1>2. /\ mem \in RunStates /\ Backed(mem, disk) /\ mem.stage = disk.state.stage
      /\ disk \in Sound /\ disk \in Images /\ Backed(disk.state, disk)
  BY <1>1, IdleFacts
<1>3. entries \in Seq(Nat)
  <2>1. mem.accepted \subseteq Nat
    BY <1>2 DEF RunStates
  <2>2. PICK A : A = mem.accepted
    OBVIOUS
  <2>3. \/ entries = <<>>
        \/ \E a \in A : entries = <<a>>
        \/ \E a, b \in A : entries = <<a, b>>
    BY <2>2 DEF FixLists
  <2>4. CASE entries = <<>>
    BY <2>4
  <2>5. CASE \E a \in A : entries = <<a>>
    <3>1. PICK a \in Nat : entries = <<a>>
      BY <2>1, <2>2, <2>5
    <3> QED BY <3>1
  <2>6. CASE \E a, b \in A : entries = <<a, b>>
    <3>1. PICK a, b \in Nat : entries = <<a, b>>
      BY <2>1, <2>2, <2>6
    <3> QED BY <3>1
  <2> QED BY <2>3, <2>4, <2>5, <2>6
<1>4. n \in Nat /\ n <= Len(entries)
  <2>1. Len(entries) = 0 => good = DOMAIN entries
    BY <1>3
  <2> HIDE DEF good
  <2> QED BY <1>3, <2>1
<1>5. \A k \in 1..n : entries[k] \in Nat
  BY <1>3, <1>4
<1> HIDE DEF n
<1>6. ASSUME NEW s \in 0..n, NEW e \in 0..n
      PROVE  /\ Written(s, e) \in Sound /\ Written(s, e).state = disk.state
             /\ Backed(mem, Written(s, e))
  <2> DEFINE w == Written(s, e)
             fs == [i \in DOMAIN disk.findings |->
                      IF i \in Fixed(s) THEN [disk.findings[i] EXCEPT !.status = "FIXED"]
                      ELSE disk.findings[i]]
             xs == {<<"fix", i>> : i \in Fixed(e)}
  <2>1. disk.findings \in Seq(Findings)
    BY <1>2 DEF Images
  <2>2. ASSUME NEW i \in DOMAIN disk.findings
        PROVE  /\ fs[i] \in Findings
               /\ \/ fs[i].status = disk.findings[i].status
                  \/ disk.findings[i].status = "ACCEPTED" /\ fs[i].status = "FIXED"
    <3>1. disk.findings[i] \in Findings
      BY <2>1
    <3>2. i \in Fixed(s) => disk.findings[i].status = "ACCEPTED"
      BY DEF Fixable
    <3> HIDE DEF Fixed
    <3> QED BY <3>1, <3>2 DEF Findings, Statuses
  <2>3. fs \in Seq(Findings) /\ DOMAIN fs = DOMAIN disk.findings
    <3>1. DOMAIN disk.findings = 1..Len(disk.findings) /\ Len(disk.findings) \in Nat
      BY <2>1
    <3>2. fs \in [1..Len(disk.findings) -> Findings]
      BY <2>2, <3>1
    <3> HIDE DEF fs
    <3> QED BY <3>1, <3>2
  <2>4. xs \subseteq Events /\ \A y \in xs : y[1] # "deploy"
    <3>1. \A i \in Nat : <<"fix", i>> \in Events /\ <<"fix", i>>[1] # "deploy"
      BY DEF Events, EventParts
    <3>2. Fixed(e) \subseteq Nat
      BY <1>4, <1>5
    <3> HIDE DEF Fixed
    <3> QED BY <3>1, <3>2
  <2> HIDE DEF fs, xs
  <2>5. /\ w \in Images /\ w.state = disk.state /\ w.ledger = disk.ledger \cup xs
        /\ w.manifest = disk.manifest /\ w.findings = fs
    BY <1>2, <2>3, <2>4 DEF Images, fs, xs
  <2> HIDE DEF w
  <2>6. OnFindings(disk.state, fs) /\ OnFindings(mem, fs)
    BY <1>1, <1>2, <2>2, <2>3 DEF Backed, OnFindings, Reconciled, Assured
  <2>7. Deploying(w.ledger) = Deploying(disk.ledger)
    BY <2>4, <2>5 DEF Deploying
  <2>8. w \in Sound
    BY <1>2, <2>5, <2>6, <2>7, ImageKeeps DEF Backed
  <2>9. Backed(mem, w)
    BY <1>2, <2>5, <2>6 DEF Backed, OnLedger
  <2> QED BY <2>5, <2>8, <2>9 DEF w
<1> HIDE DEF Written
<1>7. /\ written \in Seq(Sound) /\ Len(written) = 2 * n
      /\ \A j \in 1..(2 * n) : written[j].state = disk.state /\ Backed(mem, written[j])
  <2>1. \A j \in 1..(2 * n) : (j + 1) \div 2 \in 0..n /\ j \div 2 \in 0..n
    BY <1>4
  <2>2. \A j \in 1..(2 * n) : /\ written[j] \in Sound /\ written[j].state = disk.state
                             /\ Backed(mem, written[j])
    BY <1>6, <2>1
  <2>3. 2 * n \in Nat
    BY <1>4
  <2>4. written \in [1..(2 * n) -> Sound]
    BY <2>2
  <2> HIDE DEF written
  <2> QED BY <2>2, <2>3, <2>4
<1>8. /\ m \in RunStates /\ m.stage = mem.stage /\ m.reviews = mem.reviews
      /\ m.readonly = mem.readonly /\ m.accepted = mem.accepted
      /\ m.verified = mem.verified /\ m.candidate = mem.candidate /\ m.tested = mem.tested
  BY <1>2, <1>5 DEF RunStates
<1> HIDE DEF m, written
<1>9. \A d : Backed(mem, d) => Backed(m, d)
  BY <1>8 DEF Backed, OnLedger, OnManifest, OnFindings
<1>10. CASE Operation(written, m)
  <2>1. Final(written, disk).state = disk.state /\ Backed(mem, Final(written, disk))
    BY <1>2, <1>4, <1>7 DEF Final
  <2> QED BY <1>2, <1>7, <1>8, <1>9, <1>10, <2>1, OperationKeeps
<1>11. CASE Operation(written \o saves, AdvancedIf(m, over, "retest"))
  <2> DEFINE d == Written(n, n)
  <2>1. d \in Sound /\ d.state = disk.state /\ Backed(m, d)
    BY <1>4, <1>6, <1>9
  <2>2. over \in BOOLEAN
    OBVIOUS
  <2> HIDE DEF d, over
  <2>3. Backed([m EXCEPT !.stage = "retest"], d)
    BY <1>1, <1>8, <2>1 DEF Backed, OnLedger, OnManifest, OnFindings, RunStates, Reviewed,
         Reconciled, Assured, HasCandidate
  <2>4. Fits(SavedThenAdvanced(d, m, over, "retest"), AdvancedIf(m, over, "retest"))
    BY <1>1, <1>2, <1>8, <2>1, <2>2, <2>3, SavedThenAdvancedFits DEF STAGES
  <2>5. Fits(saves, AdvancedIf(m, over, "retest"))
    BY <2>4 DEF d
  <2> HIDE DEF saves
  <2>6. Fits(written \o saves, AdvancedIf(m, over, "retest"))
    BY <1>7, <2>5, AppendFits
  <2> QED BY <1>11, <2>6, FittingKeeps
<1> QED BY <1>1, <1>10, <1>11

LEMMA VerifyFixKeeps ==
    ASSUME EngineInv, NEW i \in DOMAIN disk.findings, NEW v \in Reviewers, VerifyFix(i, v)
    PROVE  EngineInv'
<1> DEFINE d1 == [disk EXCEPT !.findings[i].status = "VERIFIED", !.findings[i].verified_by = v]
           x == <<"verify_fix", i>>
           d2 == Recorded(d1, x)
           m == [mem EXCEPT !.verified = @ \cup {i}]
           over == mem.accepted \subseteq m.verified
           Saves(d) == SavedThenAdvanced(d, m, over, "draft_pr")
           after == AdvancedIf(m, over, "draft_pr")
<1>1. /\ Idle /\ mem.stage = "verify"
      /\ \/ disk.findings[i].status = "FIXED" /\ Operation(<<d1, d2>> \o Saves(d2), after)
         \/ disk.findings[i].status = "VERIFIED" /\ Operation(Saves(disk), after)
  BY DEF VerifyFix
<1>2. /\ mem \in RunStates /\ Backed(mem, disk) /\ mem.stage = disk.state.stage
      /\ disk \in Sound /\ disk \in Images /\ Backed(disk.state, disk)
  BY <1>1, IdleFacts
<1>3. disk.findings \in Seq(Findings) /\ i \in Nat
  <2>1. disk.findings \in Seq(Findings)
    BY <1>2 DEF Images
  <2> QED BY <2>1
<1>4. /\ m \in RunStates /\ m.stage = "verify" /\ m.reviews = mem.reviews
      /\ m.readonly = mem.readonly /\ m.accepted = mem.accepted
      /\ m.verified = mem.verified \cup {i} /\ m.candidate = mem.candidate /\ m.tested = mem.tested
  BY <1>1, <1>2, <1>3 DEF RunStates
<1>5. over \in BOOLEAN /\ (over => m.accepted \subseteq m.verified)
  BY <1>4
<1> HIDE DEF m, over
<1>6. ASSUME NEW d \in Sound, d.state = disk.state, Backed(mem, d),
             i \in DOMAIN d.findings, d.findings[i].status = "VERIFIED"
      PROVE  Fits(Saves(d), after)
  <2>1. Backed(m, d)
    BY <1>1, <1>4, <1>6 DEF Backed, OnLedger, OnManifest, OnFindings
  <2>2. over => Backed([m EXCEPT !.stage = "draft_pr"], d)
    <3> SUFFICES ASSUME over PROVE Backed([m EXCEPT !.stage = "draft_pr"], d)
      OBVIOUS
    <3> DEFINE a == [m EXCEPT !.stage = "draft_pr"]
    <3>1. /\ a.stage = "draft_pr" /\ a.reviews = m.reviews /\ a.readonly = m.readonly
          /\ a.accepted = m.accepted /\ a.verified = m.verified /\ a.candidate = m.candidate
      BY <1>4 DEF RunStates
    <3> HIDE DEF a
    <3>2. OnLedger(a, d.ledger)
      BY <1>4, <2>1, <3>1 DEF Backed, OnLedger, Reviewed, Reconciled, Assured
    <3>3. OnManifest(a, d.manifest)
      BY <1>4, <2>1, <3>1 DEF Backed, OnManifest, HasCandidate, Assured
    <3>4. OnFindings(a, d.findings)
      BY <1>4, <1>5, <2>1, <3>1 DEF Backed, OnFindings, Reconciled, Assured
    <3> QED BY <3>2, <3>3, <3>4 DEF Backed, a
  <2> QED BY <1>1, <1>2, <1>4, <1>5, <1>6, <2>1, <2>2, SavedThenAdvancedFits DEF STAGES
<1>7. CASE disk.findings[i].status = "VERIFIED" /\ Operation(Saves(disk), after)
  <2>1. Fits(Saves(disk), after)
    BY <1>2, <1>6, <1>7
  <2> QED BY <1>7, <2>1, FittingKeeps
<1>8. CASE disk.findings[i].status = "FIXED" /\ Operation(<<d1, d2>> \o Saves(d2), after)
  <2> DEFINE fs == [disk.findings EXCEPT ![i].status = "VERIFIED", ![i].verified_by = v]
  <2>1. /\ fs \in Seq(Findings) /\ DOMAIN fs = DOMAIN disk.findings /\ fs[i].status = "VERIFIED"
        /\ \A j \in DOMAIN fs : j # i => fs[j] = disk.findings[j]
    <3>1. disk.findings \in [1..Len(disk.findings) -> Findings] /\ Len(disk.findings) \in Nat
      BY <1>3
    <3>2. /\ fs \in [1..Len(disk.findings) -> Findings] /\ DOMAIN fs = DOMAIN disk.findings
          /\ fs[i].status = "VERIFIED" /\ \A j \in DOMAIN fs : j # i => fs[j] = disk.findings[j]
      BY <3>1 DEF Findings, Statuses
    <3> HIDE DEF fs
    <3> QED BY <3>1, <3>2
  <2>2. d1 = [disk EXCEPT !.findings = fs]
    BY <1>2, <1>3 DEF Images
  <2> HIDE DEF fs
  <2>3. /\ d1 \in Images /\ d1.state = disk.state /\ d1.ledger = disk.ledger
        /\ d1.manifest = disk.manifest /\ d1.findings = fs
    BY <1>2, <2>1, <2>2 DEF Images
  <2> HIDE DEF d1
  <2>4. OnFindings(disk.state, fs) /\ OnFindings(mem, fs)
    BY <1>1, <1>2, <2>1 DEF Backed, OnFindings, Reconciled, Assured
  <2>5. d1 \in Sound /\ Backed(mem, d1)
    <3>1. d1 \in Sound
      BY <1>2, <2>3, <2>4, ImageKeeps DEF Backed
    <3> QED BY <1>2, <2>3, <2>4, <3>1 DEF Backed
  <2>6. x \in Events /\ x[1] # "deploy"
    BY <1>3 DEF Events, EventParts
  <2> HIDE DEF x
  <2>7. d2 \in Sound /\ Backed(mem, d2) /\ d2.state = disk.state /\ d2.findings = fs
    BY <1>2, <2>3, <2>5, <2>6, RecordedKeeps
  <2> HIDE DEF d2
  <2>8. Fits(Saves(d2), after)
    BY <1>6, <2>1, <2>7
  <2>9. <<d1, d2>> \in Seq(Sound)
    BY <2>5, <2>7
  <2> HIDE DEF Saves, after
  <2>10. Fits(<<d1, d2>> \o Saves(d2), after)
    BY <2>8, <2>9, AppendFits
  <2> QED BY <1>8, <2>10, FittingKeeps
<1> QED BY <1>1, <1>7, <1>8

-----------------------------------------------------------------------------
(* Processes and the worktree *)

LEMMA WriteKeeps == ASSUME EngineInv, Write PROVE EngineInv'
<1>1. /\ todo # <<>> /\ disk' = Head(todo) /\ todo' = Tail(todo) /\ mem' = mem /\ tree' = tree
      /\ todo \in Seq(Sound)
  BY DEF Write, EngineInv
<1>2. disk' \in Sound /\ todo' \in Seq(Sound)
  BY <1>1
<1>3. Final(todo', disk') = Final(todo, disk)
  <2>1. PICK s \in Seq(Sound), rest \in Seq(Sound) : s = todo /\ rest = Tail(todo)
    BY <1>1, <1>2
  <2>2. s # <<>> /\ Len(s) \in Nat \ {0} /\ Len(rest) = Len(s) - 1
    BY <1>1, <2>1
  <2>3. CASE Len(s) = 1
    <3>1. rest = <<>>
      BY <2>1, <2>2, <2>3
    <3> QED BY <1>1, <2>1, <2>2, <2>3, <3>1 DEF Final
  <2>4. CASE Len(s) > 1
    <3>1. Len(rest) # 0 /\ rest[Len(rest)] = s[Len(s)]
      BY <2>1, <2>2, <2>4
    <3>2. rest # <<>>
      BY <3>1
    <3> QED BY <1>1, <2>1, <2>2, <3>1, <3>2 DEF Final
  <2> QED BY <2>2, <2>3, <2>4
<1>4. mem # None
  BY <1>1 DEF EngineInv
<1> QED BY <1>1, <1>2, <1>3, <1>4 DEF EngineInv

LEMMA CrashKeeps == ASSUME EngineInv, Crash PROVE EngineInv'
<1>1. /\ mem' = None /\ todo' = <<>> /\ tree' = tree
      /\ disk' = disk \/ disk' = [disk EXCEPT !.torn = TRUE]
  BY DEF Crash
<1>2. disk \in Sound /\ disk \in Images
  BY DEF EngineInv, Sound
<1>3. disk' \in Sound
  <2>1. CASE disk' = [disk EXCEPT !.torn = TRUE]
    <3>1. /\ disk' \in Images /\ disk'.state = disk.state /\ disk'.ledger = disk.ledger
          /\ disk'.manifest = disk.manifest /\ disk'.findings = disk.findings
      BY <1>2, <2>1 DEF Images
    <3>2. PICK e : e = disk'
      OBVIOUS
    <3>3. e \in Sound
      BY <1>2, <3>1, <3>2, ImageKeeps DEF Sound, Backed
    <3> QED BY <3>2, <3>3
  <2> QED BY <1>1, <1>2, <2>1
<1> QED BY <1>1, <1>3 DEF EngineInv

LEMMA LoadKeeps == ASSUME EngineInv, Load PROVE EngineInv'
<1>1. /\ mem = None /\ mem' = disk.state /\ disk' = disk /\ todo' = todo /\ tree' = tree
      /\ todo = <<>>
  BY DEF Load, EngineInv
<1>2. Backed(disk.state, disk) /\ disk.state \in RunStates
  BY DEF EngineInv, Sound, Images
<1> QED BY <1>1, <1>2 DEF EngineInv, Final

LEMMA StepKeeps == EngineInv /\ [Next]_vars => EngineInv'
<1> SUFFICES ASSUME EngineInv, [Next]_vars PROVE EngineInv'
  OBVIOUS
<1>1. CASE EngineStep
  BY <1>1, ProceedKeeps, ImplementKeeps, FreezeKeeps, BeginReviewKeeps, EndReviewKeeps,
     SubmitReviewKeeps, ReconcileKeeps, FixKeeps, RecordGatesKeeps, VerifyFixKeeps,
     ApproveProductionKeeps, DeployKeeps DEF EngineStep
<1>2. CASE Write
  BY <1>2, WriteKeeps
<1>3. CASE Crash
  BY <1>3, CrashKeeps
<1>4. CASE Exit
  BY <1>4 DEF Exit, Idle, EngineInv
<1>5. CASE Load
  BY <1>5, LoadKeeps
<1>6. CASE Edit
  BY <1>6 DEF Edit, EngineInv
<1>7. CASE UNCHANGED vars
  BY <1>7 DEF vars, EngineInv
<1> QED BY <1>1, <1>2, <1>3, <1>4, <1>5, <1>6, <1>7 DEF Next

LEMMA InitKeeps == Init => EngineInv
<1> SUFFICES ASSUME Init PROVE EngineInv
  OBVIOUS
<1>1. /\ InitialState \in RunStates /\ InitialState.stage = "assessment" /\ InitialState.verified = {}
      /\ InitialState.reviews = {} /\ InitialState.readonly = {}
  BY DEF InitialState, RunStates, STAGES
<1> HIDE DEF InitialState
<1>2. /\ disk \in Images /\ disk.state = InitialState /\ disk.findings = <<>> /\ disk.ledger = {}
  BY <1>1 DEF Init, Images
<1>3. Backed(InitialState, disk)
  BY <1>1, <1>2 DEF Backed, OnLedger, OnManifest, OnFindings, Reviewed, Reconciled, Assured,
       HasCandidate
<1>4. disk \in Sound
  BY <1>2, <1>3 DEF Sound, Vouched, Deploying
<1>5. tree \in Trees
  BY EngineAssumption DEF Init
<1> QED BY <1>1, <1>2, <1>3, <1>4, <1>5, NoneAssumption DEF Init, EngineInv, Final

-----------------------------------------------------------------------------
(* Theorems *)

\* The disk, and every image an operation in progress has still to write, is
\* one a restart can rely on: its run state claims only what ledger, manifest
\* and findings show.
THEOREM EngineInvariant == Spec => []EngineInv
BY InitKeeps, StepKeeps, PTL DEF Spec

\* deploy() deploys the frozen tree on which the gates passed, to production
\* only with an approval of that very candidate, whatever the worktree does
\* between the calls and wherever the process dies.
THEOREM DeployedTested == Spec => []DeployedIsTested
<1>1. EngineInv => DeployedIsTested
  BY DEF EngineInv, Sound, Vouched, Deploying, DeployedIsTested, Deployments
<1> QED BY <1>1, EngineInvariant, PTL

\* deploy() comes after every review, decision, fix and verification.
THEOREM AssuranceComplete == Spec => []AssuranceIsComplete
<1>1. EngineInv => AssuranceIsComplete
  <2> SUFFICES ASSUME EngineInv, Deployments # {} PROVE
        /\ \A r \in Reviewers :
             {<<"submit_review", r>>, <<"readonly_check", r, "clean">>} \subseteq disk.ledger
        /\ \A i \in DOMAIN disk.findings :
             disk.findings[i].status \notin {"PROPOSED", "ACCEPTED", "FIXED"}
    BY DEF AssuranceIsComplete
  <2>1. disk.state.stage \in {"deploy", "complete"} /\ Backed(disk.state, disk)
    BY DEF EngineInv, Sound, Deploying, Deployments
  <2>2. Reviewers \subseteq disk.state.reviews /\ Reviewers \subseteq disk.state.readonly
    BY <2>1 DEF Backed, OnLedger, Reviewed, Reconciled, Assured
  <2> QED BY <2>1, <2>2 DEF Backed, OnLedger, OnFindings, Reconciled, Assured
<1> QED BY <1>1, EngineInvariant, PTL

=============================================================================
