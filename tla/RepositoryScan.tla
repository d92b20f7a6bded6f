--------------------------- MODULE RepositoryScan ---------------------------
(***************************************************************************)
(* The exact-tree repository scan (pmpe.repository.scanner): it resolves an *)
(* immutable commit, lists and reads the tracked tree within budgets, lets  *)
(* every adapter judge the files in a killable child process, and hands out *)
(* one snapshot.  A caller on another thread may cancel through a           *)
(* CancellationSignal at any moment; claim_completion decides under the     *)
(* signal's lock whether the cancellation or the snapshot came first.       *)
(*                                                                          *)
(* What an adapter looks for in a file is abstracted to the categories it   *)
(* may give evidence for and the finding codes it may raise.                *)
(***************************************************************************)
EXTENDS Integers, Sequences, FiniteSetsExt, FiniteSets

CONSTANTS
  Tree,          \* the tracked entries of a commit, in path order
  Budgets,       \* the ScanConfigs a caller may use, each with its adapters
  MaxCalls       \* bound: scans asked for

VARIABLES
  pc,            \* where the call stands; "idle" between calls
  call,          \* calls made so far: the identity of the current one
  byCommand,     \* the call comes from the command line: nothing can cancel it
  sig,           \* the CancellationSignal of the scan or of the observation
  budget,        \* the ScanConfig of this scan
  commands,      \* Git commands spent
  todo,          \* entries still to be bounded, or to be read
  kept,          \* entries that passed the path budgets
  dirs,          \* directories counted against the budget
  files,         \* entries the adapters may look at
  next,          \* the adapter whose turn it is
  supported,     \* categories some started adapter supports
  inventory,     \* categories with evidence
  applied,       \* adapters whose results were taken over
  found,         \* the findings, as [code, category]
  child,         \* the worker process: "none", "running", or what it has sent
  draft,         \* the snapshot being finalised
  snapshot       \* the snapshot the last scan handed out

scanVars == <<budget, commands, todo, kept, dirs, files, next, supported,
              inventory, applied, found, draft>>
vars == <<pc, call, byCommand, sig, child, snapshot, scanVars>>

NoSnapshot == [id |-> 0]
NoBudget == [commands |-> 0]
Adapters == budget.adapters              \* in the order of their identifiers
Entries == 1 .. Len(Tree)                \* in path order, so that the least comes first

ASSUME TreeAssumption ==
  Tree \in Seq([size : Nat, depth : Nat, dirs : SUBSET STRING, link : BOOLEAN,
                included : BOOLEAN])

(***************************************************************************)
(* The adapters: what each may report.                                      *)
(***************************************************************************)
Topology ==
  [cats  |-> {"repository_topology", "architecture_boundaries", "delivery_environments",
              "documentation_governance", "debt_risk", "observability_operations",
              "security_privacy", "tests_quality"},
   codes |-> {"OWNERSHIP.CODEOWNERS_MALFORMED"}]
Python ==
  [cats  |-> {"languages_build_ecosystems", "architecture_boundaries", "tests_quality", "debt_risk"},
   codes |-> {"MANIFEST.MALFORMED", "ARCHITECTURE.DYNAMIC_ENTRY_POINTS_UNSUPPORTED"}]
Node ==
  [cats  |-> {"languages_build_ecosystems", "architecture_boundaries", "tests_quality", "debt_risk"},
   codes |-> {"MANIFEST.MALFORMED", "DEPENDENCY.MULTIPLE_LOCK_ECOSYSTEMS",
              "RUNTIME.VERSION_DRIFT_SIGNAL"}]
IntegrationDeclarations ==
  [cats |-> {"integrations"}, codes |-> {"INTEGRATION.DECLARATION_MALFORMED"}]
Containers ==
  [cats  |-> {"languages_build_ecosystems", "delivery_environments", "observability_operations"},
   codes |-> {"MANIFEST.MALFORMED"}]
CiWorkflows ==
  [cats  |-> {"delivery_environments", "tests_quality", "security_privacy"},
   codes |-> {"WORKFLOW.MALFORMED", "WORKFLOW.STRUCTURE_UNPROVEN",
              "WORKFLOW.STRUCTURE_BUDGET_EXCEEDED", "DELIVERY.CI_ABSENT"}]
Interfaces ==
  [cats  |-> {"apis_data", "languages_build_ecosystems"},
   codes |-> {"INTERFACE.CODEGEN_RELATIONSHIP_UNSUPPORTED",
              "INTERFACE.CODEGEN_RELATIONSHIP_INCOMPLETE", "INTERFACE.DECLARATION_INVALID"}]
Pmpe ==
  [cats  |-> {"architecture_boundaries", "documentation_governance", "debt_risk"},
   codes |-> {}]

\* A ScanConfig.
Configs ==
  [commands : Nat, files : Nat, treeRecords : Nat, depth : Nat, dirs : Nat,
   fileBytes : Nat, total : Nat, scope : BOOLEAN,
   adapters : Seq({Topology, Python, Node, IntegrationDeclarations, Containers, CiWorkflows,
                   Interfaces, Pmpe})]
ASSUME BudgetsAssumption == Budgets \subseteq Configs

\* The categories of an inventory.
AuditCategories ==
  {"repository_topology", "languages_build_ecosystems", "architecture_boundaries",
   "apis_data", "integrations", "tests_quality", "delivery_environments",
   "security_privacy", "observability_operations", "documentation_governance",
   "active_divergent_work", "debt_risk"}

\* What a worker may send: a result that holds evidence for some of its
\* categories and raises some of its codes, a result that is not bound to the
\* adapter and its files, or a failure.
Results(a) ==
  {[kind |-> "result", cats |-> c, codes |-> d] :
     c \in {{}, a.cats}, d \in {{}} \cup {{x} : x \in a.codes}}
Sent(a) == Results(a) \cup {[kind |-> "unbound"], [kind |-> "error"]}
NoChild == [kind |-> "none"]
Running == [kind |-> "running"]

(***************************************************************************)
(* The cancellation signal.                                                 *)
(***************************************************************************)
Cancelled == sig = "CANCELLED"
NewSignal(command) == IF command THEN "NONE" ELSE "ACTIVE"

Finding(code, category) == [code |-> code, category |-> category]
Topic(code) == Finding(code, "repository_topology")
CancelledFinding == Topic("SCAN.CANCELLED")
Has(fs, code) == \E f \in fs : f.code = code

\* The scan's own state is gone once its snapshot is handed out, or it raises.
Forgotten ==
  /\ commands' = 0 /\ todo' = {} /\ kept' = {} /\ dirs' = {} /\ files' = {} /\ next' = 1
  /\ supported' = {} /\ inventory' = {} /\ applied' = {} /\ found' = {} /\ draft' = NoSnapshot
  /\ budget' = NoBudget

(***************************************************************************)
(* scan(): identity and tools.                                              *)
(***************************************************************************)
Scan(b, command) ==
  /\ pc = "idle" /\ call < MaxCalls
  /\ pc' = "identity" /\ call' = call + 1 /\ byCommand' = command
  /\ sig' = NewSignal(command) /\ budget' = b
  /\ commands' = 0 /\ todo' = {} /\ kept' = {} /\ dirs' = {} /\ files' = {}
  /\ next' = 1 /\ supported' = {} /\ inventory' = {} /\ applied' = {} /\ found' = {}
  /\ draft' = NoSnapshot /\ snapshot' = NoSnapshot
  /\ UNCHANGED child

\* Two commands find the root and the commit and must be affordable; the third
\* finds the tree, and without it the scan goes on with nothing to list.  The
\* commit is that of the reference at this moment.
ResolveIdentity ==
  /\ pc = "identity" /\ ~Cancelled
  /\ IF budget.commands < 2
     THEN pc' = "raised" /\ commands' = budget.commands
     ELSE pc' = "tools" /\ commands' = IF budget.commands < 3 THEN 2 ELSE 3
  /\ UNCHANGED <<call, byCommand, sig, child, snapshot, budget, todo, kept, dirs, files,
                 next, supported, inventory, applied, found, draft>>

\* A cancelled command ends the call before the identity is known.
IdentityCancelled ==
  /\ pc = "identity" /\ Cancelled
  /\ pc' = "raised"
  /\ UNCHANGED <<call, byCommand, sig, child, snapshot, scanVars>>

\* A snapshot of which every category is blocked.
BlockedDraft(fs) ==
  [id |-> call, found |-> fs, status |-> [c \in AuditCategories |-> "BLOCKED"],
   disposition |-> "BLOCKED"]
CommandBudgetSnapshot == BlockedDraft({Topic("BUDGET.COMMAND_COUNT")})
CancelledSnapshot == BlockedDraft({CancelledFinding})

Finalize(d) ==
  /\ pc' = "finalize" /\ draft' = d

CollectToolVersions ==
  /\ pc = "tools"
  /\ \/ /\ commands >= budget.commands
        /\ Finalize(CommandBudgetSnapshot) /\ UNCHANGED commands
     \/ /\ commands < budget.commands /\ Cancelled
        /\ Finalize(CancelledSnapshot) /\ commands' = commands + 1
     \/ /\ commands < budget.commands /\ ~Cancelled
        /\ pc' = "list" /\ commands' = commands + 1 /\ UNCHANGED draft
  /\ UNCHANGED <<call, byCommand, sig, child, snapshot, budget, todo, kept, dirs, files,
                 next, supported, inventory, applied, found>>

(***************************************************************************)
(* _list_files: the tree, then the path budgets, then the blobs.            *)
(***************************************************************************)
InScope(e) == budget.scope => Tree[e].included

\* The listing is read in chunks until it ends, until it is over its byte
\* budget, or until it is one record past the file budget.
ListingStops ==
  {stop \in {"end", "bytes", "records"} :
     /\ stop = "end"     => Len(Tree) <= budget.treeRecords /\ Len(Tree) <= budget.files
     /\ stop = "bytes"   => Len(Tree) > budget.treeRecords
     /\ stop = "records" => Len(Tree) > budget.files /\ budget.treeRecords > budget.files}

\* The records it has by then, one more than the file budget at most.
Listed(stop) ==
  {e \in Entries : /\ InScope(e) /\ e <= budget.files + 1
                   /\ stop = "bytes" => e <= budget.treeRecords}
\* Those of them that the file budget admits.
WithinCount(stop) ==
  {e \in Listed(stop) : Cardinality({d \in Listed(stop) : d <= e}) <= budget.files}
ListingFindings(stop) ==
  (IF stop = "bytes" THEN {Topic("BUDGET.TREE_OUTPUT_BYTES")} ELSE {})
    \cup
  (IF stop = "records" \/ Cardinality(Listed(stop)) > budget.files
   THEN {Topic("BUDGET.FILE_COUNT")} ELSE {})

ListTree ==
  /\ pc = "list"
  /\ \/ /\ commands >= budget.commands                         \* also: no tree identity
        /\ found' = found \cup {Topic("BUDGET.COMMAND_COUNT")}
        /\ pc' = "adapters" /\ UNCHANGED <<todo, commands>>
     \/ /\ commands < budget.commands /\ Cancelled
        /\ found' = found \cup {CancelledFinding}              \* and no entry is bounded
        /\ pc' = "adapters" /\ commands' = commands + 1 /\ UNCHANGED todo
     \/ /\ commands < budget.commands /\ ~Cancelled
        /\ \E stop \in ListingStops :
             /\ found' = found \cup ListingFindings(stop)
             /\ todo' = WithinCount(stop)
        /\ pc' = "bound" /\ commands' = commands + 1
  /\ UNCHANGED <<call, byCommand, sig, child, snapshot, budget, kept, dirs, files,
                 next, supported, inventory, applied, draft>>

BoundPath ==
  /\ pc = "bound" /\ todo # {}
  /\ LET e == Min(todo)
         deep == Tree[e].depth > budget.depth
         wide == Cardinality(dirs \cup Tree[e].dirs) > budget.dirs
     IN
     \/ /\ Cancelled
        /\ found' = found \cup {CancelledFinding}
        /\ pc' = "adapters" /\ todo' = {} /\ UNCHANGED <<kept, dirs>>
     \/ /\ ~Cancelled /\ deep
        /\ found' = found \cup {Topic("BUDGET.PATH_DEPTH")}
        /\ todo' = todo \ {e} /\ UNCHANGED <<pc, kept, dirs>>
     \/ /\ ~Cancelled /\ ~deep /\ wide
        /\ found' = found \cup {Topic("BUDGET.DIRECTORY_COUNT")}
        /\ todo' = todo \ {e} /\ UNCHANGED <<pc, kept, dirs>>
     \/ /\ ~Cancelled /\ ~deep /\ ~wide
        /\ kept' = kept \cup {e} /\ dirs' = dirs \cup Tree[e].dirs
        /\ todo' = todo \ {e} /\ UNCHANGED <<pc, found>>
  /\ UNCHANGED <<call, byCommand, sig, child, snapshot, budget, commands, files, next,
                 supported, inventory, applied, draft>>

PathsBounded ==
  /\ pc = "bound" /\ todo = {}
  /\ pc' = "read" /\ todo' = kept /\ kept' = {} /\ dirs' = {}
  /\ UNCHANGED <<call, byCommand, sig, child, snapshot, budget, commands, files, next,
                 supported, inventory, applied, found, draft>>

\* Bytes of the entries taken so far, links and oversized files included.
Total == FoldSet(LAMBDA e, n : n + Tree[e].size, 0, files)
Large(e) == ~Tree[e].link /\ Tree[e].size > budget.fileBytes
Fits(e) == Total + Tree[e].size <= budget.total

Blob(e) == ~Tree[e].link /\ ~Large(e)

ReadEntry ==
  /\ pc = "read" /\ todo # {} /\ ~Cancelled
  /\ LET e == Min(todo) IN
     \/ /\ ~Fits(e)
        /\ found' = found \cup {Topic("BUDGET.TOTAL_BYTES")}
        /\ todo' = todo \ {e} /\ UNCHANGED <<pc, files, commands>>
     \/ /\ Fits(e) /\ ~Blob(e)
        /\ found' = found \cup (IF Large(e) THEN {Topic("BUDGET.FILE_BYTES")} ELSE {})
        /\ files' = files \cup {e}
        /\ todo' = todo \ {e} /\ UNCHANGED <<pc, commands>>
     \/ /\ Fits(e) /\ Blob(e) /\ commands >= budget.commands
        /\ found' = found \cup {Topic("BUDGET.COMMAND_COUNT")}
        /\ pc' = "adapters" /\ todo' = {} /\ UNCHANGED <<files, commands>>
     \/ /\ Fits(e) /\ Blob(e) /\ commands < budget.commands
        /\ files' = files \cup {e} /\ commands' = commands + 1
        /\ todo' = todo \ {e} /\ UNCHANGED <<pc, found>>
  /\ UNCHANGED <<call, byCommand, sig, child, snapshot, budget, kept, dirs, next,
                 supported, inventory, applied, draft>>

\* The cancellation is seen between two entries, which keeps what was read, or
\* by the Git command reading one, which gives everything up.
ReadCancelled ==
  /\ pc = "read" /\ todo # {} /\ Cancelled
  /\ \/ /\ pc' = "adapters" /\ todo' = {}
        /\ found' = found \cup {CancelledFinding} /\ UNCHANGED <<draft, commands>>
     \/ /\ Fits(Min(todo)) /\ Blob(Min(todo))
        /\ commands < budget.commands /\ commands' = commands + 1
        /\ Finalize(CancelledSnapshot) /\ UNCHANGED <<todo, found>>
  /\ UNCHANGED <<call, byCommand, sig, child, snapshot, budget, kept, dirs, files, next,
                 supported, inventory, applied>>

EntriesRead ==
  /\ pc = "read" /\ todo = {}
  /\ pc' = "adapters"
  /\ UNCHANGED <<call, byCommand, sig, child, snapshot, scanVars>>

(***************************************************************************)
(* _apply_adapters and the child of each adapter.                           *)
(***************************************************************************)
AdaptersCancelled ==
  /\ pc \in {"adapters", "adapter"} /\ Cancelled
  /\ pc = "adapters" => next <= Len(Adapters)
  /\ found' = found \cup {CancelledFinding}
  /\ pc' = "conclude" /\ child' = NoChild
  /\ UNCHANGED <<call, byCommand, sig, snapshot, budget, commands, todo, kept, dirs, files,
                 next, supported, inventory, applied, draft>>

StartAdapter ==
  /\ pc = "adapters" /\ next <= Len(Adapters) /\ ~Cancelled
  /\ supported' = supported \cup Adapters[next].cats
  /\ child' = Running /\ pc' = "adapter"
  /\ UNCHANGED <<call, byCommand, sig, snapshot, budget, commands, todo, kept, dirs, files,
                 next, inventory, applied, found, draft>>

\* The worker sends what it has, and waits to be stopped.
AdapterWorker ==
  /\ pc = "adapter" /\ child = Running
  /\ child' \in Sent(Adapters[next])
  /\ UNCHANGED <<pc, call, byCommand, sig, snapshot, scanVars>>

NextAdapter ==
  /\ pc' = "adapters" /\ next' = next + 1 /\ child' = NoChild

\* The category of an adapter's finding decides nothing.
AdapterFinding(code) == Finding(code, CHOOSE c \in Adapters[next].cats : TRUE)

\* The worker cannot be started, says it failed, or says nothing until the
\* deadline; whatever it is doing, it is stopped.
AdapterFails ==
  /\ pc = "adapter" /\ ~Cancelled /\ child.kind \in {"running", "error"}
  /\ found' = found \cup {AdapterFinding("ADAPTER.FAILURE")}
  /\ NextAdapter
  /\ UNCHANGED <<call, byCommand, sig, snapshot, budget, commands, todo, kept, dirs, files,
                 supported, inventory, applied, draft>>

RefuseResult ==
  /\ pc = "adapter" /\ ~Cancelled /\ child.kind = "unbound"
  /\ found' = found \cup {AdapterFinding("ADAPTER.INVALID_EVIDENCE")}
  /\ NextAdapter
  /\ UNCHANGED <<call, byCommand, sig, snapshot, budget, commands, todo, kept, dirs, files,
                 supported, inventory, applied, draft>>

ApplyResult ==
  /\ pc = "adapter" /\ ~Cancelled /\ child.kind = "result"
  /\ inventory' = inventory \cup child.cats
  /\ found' = found \cup {AdapterFinding(d) : d \in child.codes}
  /\ applied' = applied \cup {next}
  /\ NextAdapter
  /\ UNCHANGED <<call, byCommand, sig, snapshot, budget, commands, todo, kept, dirs, files,
                 supported, draft>>

AdaptersDone ==
  /\ pc = "adapters" /\ next > Len(Adapters)
  /\ pc' = "conclude"
  /\ UNCHANGED <<call, byCommand, sig, child, snapshot, scanVars>>

(***************************************************************************)
(* The end of scan(): what each category may claim.                         *)
(***************************************************************************)
\* The audit subcategories no detector covers: their categories are blocked in
\* every snapshot, so that none is ever COMPLETE.
RequiredSubcategories ==
  {"repository_topology", "architecture_boundaries", "apis_data", "delivery_environments",
   "security_privacy", "observability_operations"}

\* Findings about the tree as a whole; `signs` are those that depend on what the
\* files are called and hold.
CrossCuttingFindings(signs) ==
  {Finding("AUDIT.REQUIRED_SUBCATEGORY_UNSUPPORTED", c) : c \in RequiredSubcategories}
    \cup {Finding("ARCHITECTURE.HISTORY_COUPLING_UNSUPPORTED", "architecture_boundaries")}
    \cup (IF \E e \in files : Tree[e].link
          THEN {Topic("REPOSITORY.SUBMODULE_SCOPE_UNSCANNED")} ELSE {})
    \cup signs

\* Files, manifests and programs without an extension that no adapter reads.
StackCodes ==
  {"STACK.UNSUPPORTED_FILE_TYPE", "STACK.UNSUPPORTED_ECOSYSTEM",
   "STACK.UNSUPPORTED_EXTENSIONLESS_PROGRAM"}

\* Duplicated configuration, and a symbolic link that leads outside.
RiskSigns ==
  {Finding("CONFIG.DUPLICATE_PATH_SIGNAL", "debt_risk"),
   Finding("SECURITY.SYMLINK_ESCAPE", "security_privacy")}

\* One sign at a time tells apart what the statuses do with them.
Signs ==
  {{}, {Finding("DELIVERY.ROLLBACK_EVIDENCE_ABSENT", "debt_risk")}}
    \cup {{Finding(code, "languages_build_ecosystems")} : code \in StackCodes}
    \cup {{f} : f \in RiskSigns}

PartialCodes ==
  {"ADAPTER.FAILURE", "BUDGET.FILE_COUNT", "BUDGET.DIRECTORY_COUNT", "BUDGET.TOTAL_BYTES",
   "BUDGET.FILE_BYTES", "BUDGET.TREE_OUTPUT_BYTES", "BUDGET.PATH_DEPTH",
   "BUDGET.COMMAND_COUNT", "MANIFEST.MALFORMED", "WORKFLOW.MALFORMED",
   "SCAN.SCOPED_PARTIAL", "SCAN.CANCELLED"}

Unsupported == {"UNSUPPORTED", "BLOCKED"}

\* The status of a category before the partial findings are looked at.
FirstStatus(c, fs) ==
  IF \E f \in fs : f.category = c /\ f.code \in {"AUDIT.REQUIRED_SUBCATEGORY_UNSUPPORTED",
                                                 "AUDIT.UNSUPPORTED_SUBCATEGORY"}
  THEN "BLOCKED"
  ELSE IF \/ c = "active_divergent_work"
          \/ c = "languages_build_ecosystems" /\ \E code \in StackCodes : Has(fs, code)
  THEN "UNSUPPORTED"
  ELSE IF c \in inventory THEN "OBSERVED" ELSE IF c \in supported THEN "NOT_OBSERVED" ELSE "UNSUPPORTED"

StatusButDepth(c, fs) ==
  IF (\E f \in fs : f.code \in PartialCodes \ {"BUDGET.PATH_DEPTH"})
       /\ c # "active_divergent_work" /\ FirstStatus(c, fs) \notin Unsupported
  THEN "PARTIAL" ELSE FirstStatus(c, fs)

Status(c, fs) ==
  IF (\E f \in fs : f.code \in PartialCodes) /\ c # "active_divergent_work"
       /\ FirstStatus(c, fs) \notin Unsupported
  THEN "PARTIAL" ELSE FirstStatus(c, fs)

BlockingCodes ==
  {"ADAPTER.FAILURE", "ADAPTER.INVALID_EVIDENCE", "SCAN.CANCELLED",
   "AUDIT.REQUIRED_SUBCATEGORY_UNSUPPORTED", "REPOSITORY.SUBMODULE_SCOPE_UNSCANNED",
   "SECURITY.SYMLINK_ESCAPE"} \cup StackCodes

Disposition(fs) ==
  IF \/ \E f \in fs : f.code \in BlockingCodes
     \/ \E c \in AuditCategories \ {"active_divergent_work"} : FirstStatus(c, fs) \in Unsupported
  THEN "BLOCKED"
  ELSE IF \E f \in fs : f.code \in PartialCodes THEN "PARTIAL" ELSE "COMPLETE"

Conclude ==
  /\ pc = "conclude"
  /\ \E signs \in Signs :
       LET scoped == found \cup (IF budget.scope THEN {Topic("SCAN.SCOPED_PARTIAL")} ELSE {})
           fs == IF Has(scoped, "SCAN.CANCELLED") THEN scoped
                 ELSE scoped \cup CrossCuttingFindings(signs)
       IN Finalize([id |-> call, found |-> fs,
                    status |-> [c \in AuditCategories |-> Status(c, fs)],
                    disposition |-> Disposition(fs)])
  /\ UNCHANGED <<call, byCommand, sig, child, snapshot, budget, commands, todo, kept, dirs,
                 files, next, supported, inventory, applied, found>>

(***************************************************************************)
(* _finalize: the signal is asked before and after the draft is sanitised,  *)
(* and at last made to choose.                                              *)
(***************************************************************************)
Marked(d) == Has(d.found, "SCAN.CANCELLED")
MarkCancelled(d) == BlockedDraft(d.found \cup {CancelledFinding})

FinalizeStart ==
  /\ pc = "finalize"
  /\ draft' = IF Cancelled /\ ~Marked(draft) THEN MarkCancelled(draft) ELSE draft
  /\ pc' = "sanitize"
  /\ UNCHANGED <<call, byCommand, sig, child, snapshot, budget, commands, todo, kept, dirs,
                 files, next, supported, inventory, applied, found>>

Sanitized ==
  /\ pc = "sanitize"
  /\ draft' = IF Cancelled /\ ~Marked(draft) THEN MarkCancelled(draft) ELSE draft
  /\ pc' = "claim"
  /\ UNCHANGED <<call, byCommand, sig, child, snapshot, budget, commands, todo, kept, dirs,
                 files, next, supported, inventory, applied, found>>

\* claim_completion: an active signal becomes completed, and cannot be
\* cancelled any more.
ClaimedUnmarked(s) == s
Claimed(s) == IF s = "ACTIVE" THEN "COMPLETED" ELSE s

Claim ==
  /\ pc = "claim"
  /\ LET d == IF Cancelled /\ ~Marked(draft) THEN MarkCancelled(draft) ELSE draft IN
     /\ sig' = IF Marked(d) THEN sig ELSE Claimed(sig)
     /\ snapshot' = d
  /\ pc' = "scanned"
  /\ UNCHANGED <<call, byCommand, child, scanVars>>

\* A command fails, times out or prints what cannot be parsed; a worker cannot
\* be stopped for certain; redaction fails.
ScanFails ==
  /\ pc \in {"identity", "tools", "list", "read", "adapter", "sanitize"}
  /\ pc' = "raised" /\ child' = NoChild /\ Forgotten
  /\ UNCHANGED <<call, byCommand, sig, snapshot>>

ScanStep ==
  \/ ResolveIdentity \/ IdentityCancelled \/ CollectToolVersions
  \/ ListTree \/ BoundPath \/ PathsBounded \/ ReadEntry \/ ReadCancelled \/ EntriesRead
  \/ AdaptersCancelled \/ StartAdapter \/ AdapterFails \/ RefuseResult \/ ApplyResult
  \/ AdaptersDone \/ Conclude \/ FinalizeStart \/ Sanitized \/ Claim \/ ScanFails

ScanInit ==
  /\ pc = "idle" /\ call = 0 /\ byCommand = FALSE /\ sig = "NONE"
  /\ budget = NoBudget /\ commands = 0 /\ todo = {} /\ kept = {} /\ dirs = {}
  /\ files = {} /\ next = 1 /\ supported = {} /\ inventory = {} /\ applied = {} /\ found = {}
  /\ child = NoChild /\ draft = NoSnapshot /\ snapshot = NoSnapshot
=============================================================================
