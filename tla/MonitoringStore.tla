---------------------------- MODULE MonitoringStore ----------------------------
(***************************************************************************)
(* MonitoringStore.append (pm_evals_monitoring/storage.py) behind the      *)
(* ingestion endpoint: an append-only log of runs, the SQLite index that   *)
(* decides duplicates, and the reconciliation of the two after a write     *)
(* that failed or a process that died anywhere in between.  The store lock *)
(* admits one call at a time.                                              *)
(*                                                                         *)
(* Requests are delivered at least once: a client that gave up waiting     *)
(* leaves its request behind, and it may be served later.                  *)
(***************************************************************************)
EXTENDS Naturals, Sequences, FiniteSets

CONSTANTS
    Identities,    \* (product, environment, run_id)
    Payloads,      \* canonical bytes of a run
    Foreign,       \* items that clients which do not wait may send
    MaxCrashes,    \* bound: deaths of a process
    None

Items == [id : Identities, payload : Payloads]

\* live: the client still waits for the response.
Requests == [item : Items, live : BOOLEAN]

Calls == [request : Requests, pc : {"write", "index", "rollback", "rollback_line"}]

ASSUME StoreAssumption ==
    /\ MaxCrashes \in Nat
    /\ Foreign \subseteq Items
    /\ None \notin Calls

VARIABLES
    log,        \* observations.jsonl: complete lines
    torn,       \* an unterminated line follows them
    index,      \* rows of the index, in the order of their offsets
    requests,   \* requests not served yet
    call,       \* the append that holds the store lock
    answer,     \* response to the request somebody still waits for
    answered,   \* ghost: items whose client was told they are stored
    crashes

storeVars == <<log, torn, index, requests, call, answer, answered, crashes>>

Init ==
    /\ log = <<>> /\ index = <<>> /\ torn = FALSE
    /\ requests = {}
    /\ call = None /\ answer = None
    /\ answered = {}
    /\ crashes = 0

-----------------------------------------------------------------------------

\* Variant: the rebuild takes the last complete line for a torn one.
RebuiltShort(lines) == IF lines = <<>> THEN lines ELSE SubSeq(lines, 1, Len(lines) - 1)

\* _rebuild_index_unlocked: every complete line, the torn one cut off.
Rebuilt(lines) == lines

\* Variant: the index is believed.
StaleNever == FALSE

\* _reconcile_index_unlocked: the index does not end where the log ends.
Stale == torn \/ Len(index) # Len(log)

\* The response to a request, dropped when nobody waits for it.
Respond(request, response) ==
    /\ answer' = IF request.live THEN response ELSE answer
    /\ answered' = IF response \in {"stored", "duplicate"}
                   THEN answered \cup {request.item} ELSE answered

\* append takes the lock, reconciles, and looks the identity up.  A run that
\* is not stored yet may be refused for an observation time in the future.
Begin(request) ==
    /\ call = None
    /\ request \in requests
    /\ requests' = requests \ {request}
    /\ LET lines == IF Stale THEN Rebuilt(log) ELSE log
           rows  == IF Stale THEN Rebuilt(log) ELSE index
           known == {i \in DOMAIN rows : rows[i].id = request.item.id}
       IN  /\ log' = lines
           /\ index' = rows
           /\ torn' = IF Stale THEN FALSE ELSE torn
           /\ \/ /\ \E i \in known : rows[i] = request.item
                 /\ Respond(request, "duplicate")
                 /\ UNCHANGED call
              \/ /\ \E i \in known : rows[i] # request.item
                 /\ Respond(request, "conflict")
                 /\ UNCHANGED call
              \/ /\ known = {}
                 /\ Respond(request, "future")
                 /\ UNCHANGED call
              \/ /\ known = {}
                 /\ call' = [request |-> request, pc |-> "write"]
                 /\ UNCHANGED <<answer, answered>>
    /\ UNCHANGED crashes

At(pc) == call # None /\ call.pc = pc

\* The line is written and synced, or the write or the sync fails.
WriteLine ==
    /\ At("write")
    /\ \/ /\ log' = Append(log, call.request.item)
          /\ \E pc \in {"index", "rollback_line"} : call' = [call EXCEPT !.pc = pc]
          /\ UNCHANGED torn
       \/ /\ torn' \in BOOLEAN
          /\ call' = [call EXCEPT !.pc = "rollback"]
          /\ UNCHANGED log
    /\ UNCHANGED <<index, requests, answer, answered, crashes>>

\* The row is committed, or the transaction fails and the line goes.
IndexRow ==
    /\ At("index")
    /\ \/ /\ index' = Append(index, call.request.item)
          /\ call' = None
          /\ Respond(call.request, "stored")
       \/ /\ call' = [call EXCEPT !.pc = "rollback_line"]
          /\ UNCHANGED <<index, answer, answered>>
    /\ UNCHANGED <<log, torn, requests, crashes>>

\* _truncate_log to the offset of this line; it may fail as well.
RollBack ==
    /\ At("rollback") \/ At("rollback_line")
    /\ \/ /\ torn' = FALSE
          /\ log' = IF At("rollback_line") THEN SubSeq(log, 1, Len(log) - 1) ELSE log
       \/ UNCHANGED <<log, torn>>
    /\ call' = None
    /\ Respond(call.request, "error")
    /\ UNCHANGED <<index, requests, crashes>>

\* The process dies; the line it was writing may be whole, torn or absent, the
\* row committed or not.
StoreCrash ==
    /\ call # None
    /\ crashes < MaxCrashes
    /\ crashes' = crashes + 1
    /\ \/ UNCHANGED <<log, torn, index>>
       \/ /\ At("write")
          /\ torn' = TRUE
          /\ UNCHANGED <<log, index>>
       \/ /\ At("write")
          /\ log' = Append(log, call.request.item)
          /\ UNCHANGED <<torn, index>>
       \/ /\ At("index")
          /\ index' = Append(index, call.request.item)
          /\ UNCHANGED <<log, torn>>
    /\ call' = None
    /\ answer' = IF call.request.live THEN "error" ELSE answer
    /\ UNCHANGED <<requests, answered>>

StoreStep == (\E request \in requests : Begin(request)) \/ WriteLine \/ IndexRow \/ RollBack

\* A client that does not wait: another outbox, or a request given up.
OtherClient(item) ==
    /\ requests' = requests \cup {[item |-> item, live |-> FALSE]}
    /\ UNCHANGED <<log, torn, index, call, answer, answered, crashes>>

Next == StoreStep \/ StoreCrash \/ \E item \in Foreign : OtherClient(item)

Spec == Init /\ [][Next]_storeVars

-----------------------------------------------------------------------------
(* Properties *)

\* Type invariant of the store: history file, SQLite rows and the request being
\* served stay in their ranges.
StoreTypeOK ==
    /\ log \in Seq(Items) /\ index \in Seq(Items)
    /\ torn \in BOOLEAN
    /\ requests \subseteq Requests
    /\ call \in Calls \cup {None}
    /\ answer \in {None, "stored", "duplicate", "conflict", "future", "error"}
    /\ answered \subseteq Items
    /\ crashes \in 0..MaxCrashes

\* "The same run is idempotent": redelivery and crashes never put an identity
\* into the history twice.
RunIsUnique ==
    \A i, j \in DOMAIN log : log[i].id = log[j].id => i = j

\* A client told that its run is stored finds it in the history for ever,
\* whatever later calls roll back, cut off or rebuild.
AnsweredIsStored ==
    \A item \in answered : \E i \in DOMAIN log : log[i] = item

\* The index never has a row the log cannot back: reads check each row's
\* digest against the bytes at its offset.
IndexIsBacked ==
    /\ Len(index) <= Len(log)
    /\ \A i \in DOMAIN index : index[i] = log[i]
=============================================================================
