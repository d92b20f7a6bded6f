-------------------------- MODULE AdmissionReceipts --------------------------
(* The ledger of keyed admission receipts (admission/receipts.py): one file  *)
(* per admitted artifact, published by a rename that never replaces, and     *)
(* returned only once it is durable.  An artifact stands for its kind, its   *)
(* digest and the subject bindings, which every caller derives from it.      *)
EXTENDS Naturals, FiniteSets, Functions

CONSTANTS
  Callers,   \* processes that use the ledger
  Keys,      \* versions of the fingerprint key
  Absent     \* no receipt, no call

VARIABLES
  receipts,  \* artifact -> receipt, the files anyone can read
  synced,    \* the same as of the last fsync of the directory
  holder,    \* artifact -> the caller that holds its lock file
  keyring,   \* the current key and the keys the provider still verifies
  asking,    \* each caller's call of admit
  given      \* history: every receipt admit returned

receiptVars == <<receipts, synced, holder, keyring, asking, given>>

Receipt(artifact, key) == [artifact |-> artifact, key |-> key]

Stored(artifact) == artifact \in DOMAIN receipts

\* _provider_verifies: the provider still has the receipt's key.
Verifies(receipt) == receipt.key \in keyring.known

\* FileArtifactAdmissionVerifier.verify: the very receipt is in the ledger.
VerifiedReceipt(receipt) ==
  Stored(receipt.artifact) /\ receipts[receipt.artifact] = receipt /\ Verifies(receipt)

ReceiptInit ==
  /\ receipts = <<>> /\ synced = <<>> /\ holder = <<>>
  /\ keyring = [current |-> 1, known |-> {1}]
  /\ asking = [c \in Callers |-> Absent]
  /\ given = {}

Ask(c, artifact) == asking' = [asking EXCEPT ![c] = [artifact |-> artifact, step |-> "lock", receipt |-> Absent]]

At(c, step) == asking[c] # Absent /\ asking[c].step = step

Unlocked(artifact) == Restrict(holder, DOMAIN holder \ {artifact})

Step(c, step) == asking' = [asking EXCEPT ![c].step = step]

\* The call goes on with this receipt.
StepWith(c, step, receipt) ==
  asking' = [asking EXCEPT ![c] = [artifact |-> asking[c].artifact, step |-> step, receipt |-> receipt]]

\* Opens the kind's directory and waits for the lock file's lock.
Lock(c) ==
  /\ At(c, "lock")
  /\ asking[c].artifact \notin DOMAIN holder
  /\ holder' = [x \in DOMAIN holder \cup {asking[c].artifact} |-> IF x = asking[c].artifact THEN c ELSE holder[x]]
  /\ Step(c, "read")
  /\ UNCHANGED <<receipts, synced, keyring, given>>

ReadStoredUnsynced(c) ==
  /\ At(c, "read")
  /\ LET artifact == asking[c].artifact
         wanted == IF Stored(artifact) THEN receipts[artifact] ELSE Receipt(artifact, keyring.current)
     IN IF Verifies(wanted)
        THEN /\ StepWith(c, IF Stored(artifact) THEN "given" ELSE "publish", wanted)
             /\ given' = IF Stored(artifact) THEN given \cup {wanted} ELSE given
             /\ holder' = IF Stored(artifact) THEN Unlocked(artifact) ELSE holder
        ELSE /\ Step(c, "refused")
             /\ holder' = Unlocked(artifact)
             /\ UNCHANGED given
  /\ UNCHANGED <<receipts, synced, keyring>>

\* A stored receipt is replayed if it still verifies and refused otherwise; a
\* new one is signed with the current key, which must verify.
ReadStored(c) ==
  /\ At(c, "read")
  /\ LET artifact == asking[c].artifact
         wanted == IF Stored(artifact) THEN receipts[artifact] ELSE Receipt(artifact, keyring.current)
     IN IF Verifies(wanted)
        THEN /\ StepWith(c, IF Stored(artifact) THEN "sync" ELSE "publish", wanted)
             /\ UNCHANGED holder
        ELSE /\ Step(c, "refused")
             /\ holder' = Unlocked(artifact)
  /\ UNCHANGED <<receipts, synced, keyring, given>>

\* The temporary file is written, synced and renamed; where another file
\* already stands it is left alone and replayed.
Publish(c) ==
  /\ At(c, "publish")
  /\ LET artifact == asking[c].artifact IN
     IF Stored(artifact)
     THEN /\ StepWith(c, "sync", receipts[artifact])
          /\ UNCHANGED receipts
     ELSE /\ receipts' = [x \in DOMAIN receipts \cup {artifact} |->
                            IF x = artifact THEN asking[c].receipt ELSE receipts[x]]
          /\ Step(c, "sync")
  /\ UNCHANGED <<synced, holder, keyring, given>>

\* The directory is synced before the receipt is returned, replayed or new.
SyncReceipt(c) ==
  /\ At(c, "sync")
  /\ synced' = receipts
  /\ given' = given \cup {asking[c].receipt}
  /\ holder' = Unlocked(asking[c].artifact)
  /\ Step(c, "given")
  /\ UNCHANGED <<receipts, keyring>>

\* A write, rename or sync fails: the call raises, and what was renamed stays.
PersistFails(c) ==
  /\ At(c, "publish") \/ At(c, "sync")
  /\ holder' = Unlocked(asking[c].artifact)
  /\ Step(c, "refused")
  /\ UNCHANGED <<receipts, synced, keyring, given>>

\* The owner of the keys rotates them, and may keep or drop the old one.
RotateKey ==
  /\ keyring.current = 1
  /\ \E known \in SUBSET Keys \ {{}} : keyring' = [current |-> 2, known |-> known]
  /\ UNCHANGED <<receipts, synced, holder, asking, given>>

\* A process that dies gives up its locks and its call.
ReceiptsAfterDeath(c) ==
  /\ asking' = [asking EXCEPT ![c] = Absent]
  /\ holder' = Restrict(holder, {x \in DOMAIN holder : holder[x] # c})
  /\ UNCHANGED <<receipts, synced, keyring, given>>

\* The machine loses power: every process dies, and of what was not synced
\* any part may be lost.
ReceiptsAfterPowerLoss ==
  /\ \E kept \in SUBSET (DOMAIN receipts \ DOMAIN synced) :
       receipts' = Restrict(receipts, DOMAIN synced \cup kept)
  /\ synced' = receipts'
  /\ asking' = [c \in Callers |-> Absent]
  /\ holder' = <<>>
  /\ UNCHANGED <<keyring, given>>

AdmitStep(c) == Lock(c) \/ ReadStored(c) \/ Publish(c) \/ SyncReceipt(c) \/ PersistFails(c)

\* A receipt that admit returned, to whichever caller and whether it published
\* it or found it, is the artifact's receipt for good.
GivenStands ==
  \A receipt \in given :
    Stored(receipt.artifact) /\ receipts[receipt.artifact] = receipt
=============================================================================
