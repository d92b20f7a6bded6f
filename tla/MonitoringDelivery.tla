-------------------------- MODULE MonitoringDelivery --------------------------
(***************************************************************************)
(* The durable outbox (pm_evals_monitoring/outbox.py) delivering to        *)
(* MonitoringStore over a connection that may time out.  An item is a file *)
(* named after its identity: pending, sent (a marker with the digest) or   *)
(* quarantined.  A pass of the worker holds the outbox lock, so enqueue    *)
(* waits for it; the worker may die between any two files it touches.      *)
(***************************************************************************)
EXTENDS MonitoringStore

CONSTANTS
    MaxSentMarkers,   \* MAX_SENT_MARKERS
    MaxTimeouts       \* bound: responses the worker gives up waiting for

\* A pass of the worker: how it was started, the file it holds, those left.
Passes ==
    [pc : {"scan", "waiting", "deliver", "unlink", "retained", "refused"},
     resilient : BOOLEAN, item : Identities \cup {None}, left : SUBSET Identities]

\* None is no identity, no content of a file and no pass.
ASSUME DeliveryAssumption ==
    /\ MaxSentMarkers \in Nat \ {0} /\ MaxTimeouts \in Nat
    /\ None \notin Identities \cup Payloads \cup Passes

VARIABLES
    pending,       \* <digest>.pending.json, by identity
    sent,          \* <digest>.sent.json, oldest first
    quarantined,   \* <digest>.quarantined.json, by identity
    worker,        \* the pass in progress, None when the lock is free
    accepted,      \* ghost: items enqueue has taken
    timeouts

outboxVars == <<pending, sent, quarantined, worker, accepted, timeouts>>
vars == <<storeVars, outboxVars>>

DeliveryInit ==
    /\ Init
    /\ pending = [i \in Identities |-> None]
    /\ quarantined = [i \in Identities |-> None]
    /\ sent = <<>>
    /\ worker = None
    /\ accepted = {}
    /\ timeouts = 0

-----------------------------------------------------------------------------
(* The outbox *)

Marked(i) == {k \in DOMAIN sent : sent[k].id = i}

\* _prune_sent_markers keeps the newest.
Pruned(markers) ==
    IF Len(markers) > MaxSentMarkers
    THEN SubSeq(markers, Len(markers) - MaxSentMarkers + 1, Len(markers))
    ELSE markers

\* enqueue: refused when the identity is known with other bytes, answered from
\* what is there when they match, else a new pending file.
Enqueue(i, p) ==
    /\ worker = None
    /\ sent' = Pruned(sent)
    /\ LET marks == {k \in DOMAIN sent' : sent'[k].id = i}
       IN  CASE quarantined[i] # None -> UNCHANGED <<pending, accepted>>
             [] quarantined[i] = None /\ marks # {} ->
                  /\ pending' = IF \A k \in marks : sent'[k].payload = p /\ pending[i] = p
                                THEN [pending EXCEPT ![i] = None] ELSE pending
                  /\ UNCHANGED accepted
             [] OTHER ->
                  IF pending[i] = None
                  THEN /\ pending' = [pending EXCEPT ![i] = p]
                       /\ accepted' = accepted \cup {[id |-> i, payload |-> p]}
                  ELSE UNCHANGED <<pending, accepted>>
    /\ UNCHANGED <<storeVars, quarantined, worker, timeouts>>

\* A pass of flush_resilient, or of flush, which also prunes first and stops
\* at the first item that fails.
StartPass(resilient) ==
    /\ worker = None
    /\ \E i \in Identities : pending[i] # None
    /\ worker' = [pc |-> "scan", resilient |-> resilient, item |-> None,
                  left |-> {i \in Identities : pending[i] # None}]
    /\ sent' = IF resilient THEN sent ELSE Pruned(sent)
    /\ UNCHANGED <<storeVars, pending, quarantined, accepted, timeouts>>

Working(pc) == worker # None /\ worker.pc = pc

Item == [id |-> worker.item, payload |-> pending[worker.item]]

\* The next pending file: already marked (only the file is left over), marked
\* with other bytes, or to be sent.  Files are visited in no given order.
Take(i) ==
    /\ Working("scan")
    /\ i \in worker.left
    /\ LET w == [worker EXCEPT !.left = @ \ {i}, !.item = i]
       IN  IF Marked(i) # {}
           THEN IF \A k \in Marked(i) : sent[k].payload = pending[i]
                THEN /\ pending' = [pending EXCEPT ![i] = None]
                     /\ worker' = w
                     /\ UNCHANGED requests
                ELSE /\ worker' = [w EXCEPT !.pc = "refused"]
                     /\ UNCHANGED <<pending, requests>>
           ELSE /\ requests' = requests \cup
                       {[item |-> [id |-> i, payload |-> pending[i]], live |-> TRUE]}
                /\ worker' = [w EXCEPT !.pc = "waiting"]
                /\ UNCHANGED pending
    /\ UNCHANGED <<log, torn, index, call, answer, answered, crashes,
                   sent, quarantined, accepted, timeouts>>

\* The sender returns or raises: 2xx, PermanentDeliveryError, RuntimeError.
Receive ==
    /\ Working("waiting")
    /\ answer # None
    /\ answer' = None
    /\ worker' = [worker EXCEPT !.pc =
           CASE answer \in {"stored", "duplicate"} -> "deliver"
             [] answer \in {"conflict", "future"} -> "refused"
             [] OTHER -> "retained"]
    /\ UNCHANGED <<log, torn, index, requests, call, answered, crashes,
                   pending, sent, quarantined, accepted, timeouts>>

\* Nobody waits for the response any more.
Abandoned(request) == [request EXCEPT !.live = FALSE]

\* The sender gives up; the request may still be served.
Timeout ==
    /\ Working("waiting")
    /\ answer = None
    /\ timeouts < MaxTimeouts
    /\ timeouts' = timeouts + 1
    /\ worker' = [worker EXCEPT !.pc = "retained"]
    /\ requests' = {Abandoned(q) : q \in requests}
    /\ call' = IF call = None THEN None ELSE [call EXCEPT !.request = Abandoned(@)]
    /\ UNCHANGED <<log, torn, index, answer, answered, crashes,
                   pending, sent, quarantined, accepted>>

\* _publish_sent_marker: the marker replaces nothing, then the file goes.
PublishMarker ==
    /\ Working("deliver")
    /\ sent' = Append(sent, Item)
    /\ worker' = [worker EXCEPT !.pc = "unlink"]
    /\ UNCHANGED <<storeVars, pending, quarantined, accepted, timeouts>>

\* A transient failure: the file stays; flush ends here.
Retain ==
    /\ Working("retained")
    /\ worker' = IF worker.resilient THEN [worker EXCEPT !.pc = "scan"] ELSE None
    /\ UNCHANGED <<storeVars, pending, sent, quarantined, accepted, timeouts>>

\* Variant: a refused item is dropped.
RefuseDrops ==
    /\ Working("refused")
    /\ worker' = [worker EXCEPT !.pc = "unlink"]
    /\ UNCHANGED <<storeVars, pending, sent, quarantined, accepted, timeouts>>

\* Variant: a permanent failure is retried like a transient one.
RefuseRetains ==
    /\ Working("refused")
    /\ worker' = IF worker.resilient THEN [worker EXCEPT !.pc = "scan"] ELSE None
    /\ UNCHANGED <<storeVars, pending, sent, quarantined, accepted, timeouts>>

\* A permanent failure: linked into quarantine unless something is there
\* already; flush ends here.
Refuse ==
    /\ Working("refused")
    /\ CASE ~worker.resilient ->
              worker' = None /\ UNCHANGED quarantined
         [] worker.resilient /\ quarantined[worker.item] # None ->
              worker' = [worker EXCEPT !.pc = "scan"] /\ UNCHANGED quarantined
         [] OTHER ->
              /\ quarantined' = [quarantined EXCEPT ![worker.item] = pending[worker.item]]
              /\ worker' = [worker EXCEPT !.pc = "unlink"]
    /\ UNCHANGED <<storeVars, pending, sent, accepted, timeouts>>

Unlink ==
    /\ Working("unlink")
    /\ pending' = [pending EXCEPT ![worker.item] = None]
    /\ worker' = [worker EXCEPT !.pc = "scan"]
    /\ UNCHANGED <<storeVars, sent, quarantined, accepted, timeouts>>

EndPass ==
    /\ Working("scan")
    /\ worker.left = {}
    /\ sent' = Pruned(sent)
    /\ worker' = None
    /\ UNCHANGED <<storeVars, pending, quarantined, accepted, timeouts>>

\* The worker dies; its lock is released, its request may still be served.
WorkerCrash ==
    /\ worker # None
    /\ crashes < MaxCrashes
    /\ crashes' = crashes + 1
    /\ worker' = None
    /\ answer' = None
    /\ requests' = {Abandoned(q) : q \in requests}
    /\ call' = IF call = None THEN None ELSE [call EXCEPT !.request = Abandoned(@)]
    /\ UNCHANGED <<log, torn, index, answered, pending, sent, quarantined,
                   accepted, timeouts>>

-----------------------------------------------------------------------------

WorkerStep ==
    \/ \E i \in Identities : Take(i)
    \/ Receive \/ PublishMarker \/ Retain \/ Refuse \/ Unlink \/ EndPass

DeliveryNext ==
    \/ (StoreStep \/ StoreCrash \/ \E item \in Foreign : OtherClient(item))
         /\ UNCHANGED outboxVars
    \/ \E i \in Identities, p \in Payloads : Enqueue(i, p)
    \/ \E resilient \in BOOLEAN : StartPass(resilient)
    \/ WorkerStep
    \/ Timeout
    \/ WorkerCrash

\* The worker process runs passes of flush_resilient again and again, the
\* service serves every request it received, and its disk does not refuse
\* every write: one that is tried again and again succeeds in the end.
DeliveryFairness ==
    /\ WF_vars(WorkerStep)
    /\ SF_vars(StartPass(TRUE))
    /\ WF_vars((WriteLine \/ IndexRow \/ RollBack) /\ UNCHANGED outboxVars)
    /\ SF_vars(WriteLine /\ call'.pc = "index" /\ UNCHANGED outboxVars)
    /\ SF_vars(IndexRow /\ call' = None /\ UNCHANGED outboxVars)
    /\ SF_vars((\E q \in requests : q.live /\ Begin(q)) /\ UNCHANGED outboxVars)

DeliverySpec == DeliveryInit /\ [][DeliveryNext]_vars /\ DeliveryFairness

-----------------------------------------------------------------------------
(* Properties *)

Stored(item) == \E k \in DOMAIN log : log[k] = item

\* An item enqueue accepted is never lost: until it is in the history it is
\* pending or quarantined.
NothingIsLost ==
    \A item \in accepted :
        \/ Stored(item)
        \/ pending[item.id] = item.payload
        \/ quarantined[item.id] = item.payload

\* Pending items the history does not have and nobody put aside.
Unsettled ==
    {i \in Identities :
        /\ pending[i] # None
        /\ ~Stored([id |-> i, payload |-> pending[i]])
        /\ quarantined[i] = None}

\* Retries deliver: again and again every pending item is stored or
\* quarantined, whatever was refused, timed out or died before.
PendingIsSettled == []<>(Unsettled = {})

=============================================================================
