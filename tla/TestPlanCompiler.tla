-------------------------- MODULE TestPlanCompiler --------------------------
(* The compiler from a contract to an executable test plan                   *)
(* (testing/compiler.py).  A contract is a set of items; an item keeps what  *)
(* decides its nodes: the section, the requirements it refers to, the kind   *)
(* of evidence its text asks for and the test class its category or          *)
(* description names.  A node is the item it tests, the references it counts *)
(* for, its class and its mode.                                              *)
EXTENDS Naturals, FiniteSets

CONSTANTS
  Contracts,  \* the contracts that are compiled
  None

VARIABLE compiled  \* the contract compiled, or None

\* Items ask for evidence of one of the kinds; the nodes over whole sections
\* have names of their own.
ASSUME ContractsAssumption ==
  \A contract \in Contracts : \A item \in contract.items :
    item.evidence \in {"automated", "manual", "both"} /\ item.id \notin {"boundaries", "journey"}

Automated == "AUTOMATED"
Manual == "MANUAL"

\* The sections whose keys must be covered by the plan.
RequiredSections ==
  {"functional", "non_functional", "criteria", "guardrails", "risks", "security", "privacy",
   "expectations", "release_gates", "release", "rollback", "accessibility"}

Of(contract, section) == {item \in contract.items : item.section = section}

Ids(items) == {item.id : item \in items}

RequiredRefs(contract) == Ids({item \in contract.items : item.section \in RequiredSections})

\* Text that asks for a human is manual; it is automated too when it says so,
\* and automated when it asks for no human.
Modes(item) ==
  CASE item.evidence = "automated" -> {Automated}
    [] item.evidence = "manual" -> {Manual}
    [] item.evidence = "both" -> {Automated, Manual}

\* The class a text names, or the section's own.
ClassOf(item, default) == IF item.category = None THEN default ELSE item.category

Node(item, refs, class, mode) == [of |-> item.id, refs |-> refs, class |-> class, mode |-> mode]

\* One node per mode the evidence text asks for.
ByEvidence(item, class) == {Node(item, {item.id} \cup item.covers, class, mode) : mode \in Modes(item)}

\* One automated node, whatever the text asks for.
ByItem(item, class) == {Node(item, {item.id}, class, Automated)}

\* A quality expectation is one node, automated only for an automated test.
ExpectationNodes(contract) ==
  {Node(item, {item.id} \cup item.covers, "UNIT",
        IF item.evidence = "automated" THEN Automated ELSE Manual) : item \in Of(contract, "expectations")}

UncoveredWithoutCriteria(contract) ==
  IF Of(contract, "criteria") = {} THEN Of(contract, "functional") ELSE {}

\* Requirements no criterion refers to are tested on their own.
UncoveredFunctional(contract) ==
  {item \in Of(contract, "functional") :
     item.id \notin UNION {criterion.covers : criterion \in Of(contract, "criteria")}}

\* One node over a whole section; none when it is empty.
Together(id, refs, class) ==
  IF refs = {} THEN {} ELSE {[of |-> id, refs |-> refs, class |-> class, mode |-> Automated]}

BoundaryNodes(contract) ==
  Together("boundaries", IF contract.boundaries THEN Ids(Of(contract, "functional")) ELSE {}, "INTEGRATION")
    \cup Together("journey", IF contract.journey THEN Ids(Of(contract, "functional")) ELSE {}, "E2E")

ReleaseNodes(contract) == Together("release", Ids(Of(contract, "release")), "RELEASE")

NodeSpecs(contract) ==
  (UNION {ByEvidence(item, "UNIT") : item \in Of(contract, "criteria")})
    \cup ExpectationNodes(contract)
    \cup (UNION {ByItem(item, "UNIT") : item \in UncoveredFunctional(contract)})
    \cup (UNION {ByEvidence(item, ClassOf(item, "UNIT")) : item \in Of(contract, "non_functional")})
    \cup (UNION {ByItem(item, ClassOf(item, "RELEASE")) : item \in Of(contract, "guardrails")})
    \cup (UNION {ByItem(item, "SECURITY_PRIVACY") : item \in Of(contract, "security") \cup Of(contract, "privacy")})
    \cup (UNION {ByItem(item, ClassOf(item, "INTEGRATION")) : item \in Of(contract, "risks")})
    \cup BoundaryNodes(contract)
    \cup (UNION {ByItem(item, "MIGRATION") : item \in Of(contract, "rollback")})
    \cup (UNION {ByEvidence(item, "ACCESSIBILITY") : item \in Of(contract, "accessibility")})
    \cup (UNION {ByEvidence(item, "RELEASE") : item \in Of(contract, "release_gates")})
    \cup ReleaseNodes(contract)

(* A capability is the class it serves, its tool, its command, the tool the  *)
(* command line starts (starts), whether it only lists tests (lists) and     *)
(* whether its options leave the report to the adapter (structured), the     *)
(* format of its evidence and the paths it was observed at.  The snapshot    *)
(* keeps the tools seen at runtime, those a path declares, and its paths.    *)
ToolObserved(snapshot, capability) ==
  \/ capability.tool \in snapshot.tools
  \/ \E path \in capability.paths : <<path, capability.tool>> \in snapshot.declared

PathsObserved(snapshot, capability) == capability.paths # {} /\ capability.paths \subseteq snapshot.paths

CommandInvokesTool(capability) == capability.starts = capability.tool

CommandExecutesTests(capability) == ~capability.lists

\* The registry has an adapter for the tool and the format.
Registered(capability) ==
  <<capability.tool, capability.adapter>> \in {<<"pytest", "pytest">>, <<"node:test", "node:test">>}

\* The adapter takes only the options it knows to leave its report alone: one
\* reporter, to the standard output, no loader, plugin or override beside it.
Supports(capability) == capability.structured

Sound(snapshot, capability) ==
  /\ ToolObserved(snapshot, capability)
  /\ PathsObserved(snapshot, capability)
  /\ CommandInvokesTool(capability)
  /\ CommandExecutesTests(capability)
  /\ Registered(capability)
  /\ Supports(capability)

Duplicated(capabilities) ==
  \E one, other \in capabilities : one # other /\ one.class = other.class

CapabilityDiagnosed(request) ==
  \/ Duplicated(request.capabilities)
  \/ \E capability \in request.capabilities : ~Sound(request.snapshot, capability)

Serves(request, node) ==
  {capability \in request.capabilities : Sound(request.snapshot, capability) /\ capability.class = node.class}

\* An automated node without a capability blocks the plan.
BlockedNode(request, node) == node.mode = Automated /\ Serves(request, node) = {}

\* The required references no node of the plan counts for.
Missing(contract) ==
  {ref \in RequiredRefs(contract) : \A node \in NodeSpecs(contract) : ref \notin node.refs}

\* The contract, the snapshot and the architecture are the admitted, complete
\* and mutually bound ones.
InputsAdmitted(request) ==
  /\ request.admissible = request.contract
  /\ request.snapshot.complete
  /\ request.architecture.admitted
  /\ request.architecture.contract = request.contract
  /\ request.architecture.snapshot = request.snapshot

Admitted(request) ==
  /\ InputsAdmitted(request)
  /\ ~CapabilityDiagnosed(request)
  /\ \A node \in NodeSpecs(request.contract) : ~BlockedNode(request, node)
  /\ Missing(request.contract) = {}

\* The nodes that must be red before code is written: automated, planned, and
\* not of the release class.
MeaningfulRed(request) ==
  {node \in NodeSpecs(request.contract) : node.mode = Automated /\ node.class # "RELEASE"}

CommandOf(request, node) == (CHOOSE c \in Serves(request, node) : TRUE).command

AdapterOf(request, node) == (CHOOSE c \in Serves(request, node) : TRUE).adapter

CompileInit == compiled = None

Compile == compiled = None /\ compiled' \in Contracts

CompileSpec == CompileInit /\ [][Compile]_compiled

(***************************************************************************)
(* Properties.                                                              *)
(***************************************************************************)
\* The sections are compiled apart and yet nothing falls between them: every
\* required reference of the contract is covered, a functional requirement by
\* a test of its own or of a criterion and not only by one that runs the whole
\* product, and whatever asks for an automated test besides release gates has
\* to be red before code is written.
PlanIsComplete ==
  compiled # None =>
    /\ Missing(compiled) = {}
    /\ \A item \in Of(compiled, "functional") :
         \E node \in NodeSpecs(compiled) : item.id \in node.refs /\ node.of \notin {"boundaries", "journey"}
    /\ \A item \in Of(compiled, "criteria") : item.evidence # "manual" =>
         \E node \in MeaningfulRed([contract |-> compiled]) : node.of = item.id
=============================================================================
