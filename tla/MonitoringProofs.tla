-------------------------- MODULE MonitoringProofs ---------------------------
(***************************************************************************)
(* Proofs about the monitoring store, and about the outbox that delivers   *)
(* to it.                                                                  *)
(***************************************************************************)
EXTENDS MonitoringDelivery, SequenceTheorems, TLAPS

-----------------------------------------------------------------------------
(***************************************************************************)
(* Proofs about MonitoringStore for any identities, payloads and clients   *)
(* and any number of crashes: the history holds an identity at most once,  *)
(* what a client was told is stored stays stored, and the index is backed  *)
(* by the log.  The argument: the index is always a prefix of the log, at  *)
(* most one line shorter while a call is between its two writes, and every *)
(* answered item has a row, which no rollback touches.                     *)
(***************************************************************************)

\* No identity twice in a list of lines.
UniqueLines(lines) ==
    \A i, j \in 1..Len(lines) : lines[i].id = lines[j].id => i = j

\* The rows are a prefix of the lines.
Backed(rows, lines) ==
    /\ Len(rows) <= Len(lines)
    /\ \A i \in 1..Len(rows) : rows[i] = lines[i]

\* Every item that was answered has a row.
HasRows(items, rows) ==
    \A item \in items : \E i \in 1..Len(rows) : rows[i] = item

\* What holds at each point of a call.
CallInv ==
    call # None =>
        /\ call.pc \in {"write", "rollback"} => Len(log) = Len(index)
        /\ call.pc \in {"index", "rollback_line"} => Len(log) = Len(index) + 1
        /\ call.pc = "write" =>
            \A i \in 1..Len(log) : log[i].id # call.request.item.id
        /\ call.pc = "index" => log[Len(log)] = call.request.item

StoreInv ==
    /\ StoreTypeOK
    /\ UniqueLines(log)
    /\ Backed(index, log)
    /\ HasRows(answered, index)
    /\ CallInv

\* What Append does to a list of items.
LEMMA AppendFacts ==
    ASSUME NEW s \in Seq(Items), NEW x \in Items
    PROVE  /\ Append(s, x) \in Seq(Items)
           /\ Len(Append(s, x)) = Len(s) + 1
           /\ \A i \in 1..Len(s) : Append(s, x)[i] = s[i]
           /\ Append(s, x)[Len(s) + 1] = x
           /\ Len(s) \in Nat
OBVIOUS

\* What truncating the last line does.
LEMMA FrontFacts ==
    ASSUME NEW s \in Seq(Items), Len(s) > 0
    PROVE  /\ SubSeq(s, 1, Len(s) - 1) \in Seq(Items)
           /\ Len(SubSeq(s, 1, Len(s) - 1)) = Len(s) - 1
           /\ \A i \in 1..(Len(s) - 1) : SubSeq(s, 1, Len(s) - 1)[i] = s[i]
  <1> DEFINE n == Len(s) - 1
             front == SubSeq(s, 1, n)
  <1>1. n \in Nat /\ n \in Int /\ 1 \in Int
    OBVIOUS
  <1>2. \A i \in 1..n : s[i] \in Items
    OBVIOUS
  <1>3. /\ front \in Seq(Items)
        /\ Len(front) = IF 1 <= n THEN n - 1 + 1 ELSE 0
        /\ \A i \in 1..(n - 1 + 1) : front[i] = s[1 + i - 1]
    <2> HIDE DEF n
    <2> QED
      BY <1>1, <1>2, SubSeqProperties
  <1> HIDE DEF n, front
  <1>4. n - 1 + 1 = n /\ \A i \in 1..n : 1 + i - 1 = i
    BY <1>1
  <1>5. Len(front) = n /\ \A i \in 1..n : front[i] = s[i]
    BY <1>1, <1>3, <1>4
  <1> QED
    BY <1>3, <1>5 DEF n, front

\* A line whose identity is new keeps the history free of repetitions.
LEMMA AppendUnique ==
    ASSUME NEW s \in Seq(Items), NEW x \in Items, UniqueLines(s),
           \A i \in 1..Len(s) : s[i].id # x.id
    PROVE  UniqueLines(Append(s, x))
  <1>1. SUFFICES ASSUME NEW i \in 1..Len(Append(s, x)), NEW j \in 1..Len(Append(s, x)),
                        Append(s, x)[i].id = Append(s, x)[j].id
                 PROVE  i = j
    BY DEF UniqueLines
  <1>2. Len(s) \in Nat /\ Len(Append(s, x)) = Len(s) + 1
    BY AppendFacts
  <1>3. CASE i \in 1..Len(s) /\ j \in 1..Len(s)
    BY <1>1, <1>3, AppendFacts DEF UniqueLines
  <1>4. CASE i = Len(s) + 1 /\ j \in 1..Len(s)
    BY <1>1, <1>4, AppendFacts
  <1>5. CASE i \in 1..Len(s) /\ j = Len(s) + 1
    BY <1>1, <1>5, AppendFacts
  <1>6. CASE i = Len(s) + 1 /\ j = Len(s) + 1
    BY <1>6
  <1> QED
    BY <1>2, <1>3, <1>4, <1>5, <1>6

\* Taking the lock, reconciling and looking the identity up.
LEMMA BeginKeeps ==
    ASSUME StoreInv, NEW request \in requests, Begin(request)
    PROVE  StoreInv'
  <1>1. /\ log \in Seq(Items) /\ index \in Seq(Items) /\ Len(log) \in Nat /\ Len(index) \in Nat
        /\ torn \in BOOLEAN /\ request \in Requests /\ request.item \in Items
        /\ UniqueLines(log) /\ Backed(index, log) /\ HasRows(answered, index)
        /\ call = None /\ answered \subseteq Items
    BY DEF StoreInv, StoreTypeOK, Begin, Requests
  <1>2. log' = log /\ torn' = FALSE
    <2>1. CASE Stale
      BY <2>1 DEF Begin, Rebuilt
    <2>2. CASE ~Stale
      BY <1>1, <2>2 DEF Begin, Stale
    <2> QED
      BY <2>1, <2>2
  <1>3. index' \in Seq(Items) /\ Len(index') = Len(log) /\ \A i \in 1..Len(log) : index'[i] = log[i]
    <2>1. CASE Stale
      BY <1>1, <2>1 DEF Begin, Rebuilt
    <2>2. CASE ~Stale
      <3>1. index' = index
        BY <2>2 DEF Begin
      <3> QED
        BY <1>1, <2>2, <3>1 DEF Stale, Backed
    <2> QED
      BY <2>1, <2>2
  <1>4. HasRows(answered, index')
    BY <1>1, <1>3 DEF HasRows, Backed
  <1>5. UniqueLines(log)' /\ Backed(index, log)'
    BY <1>1, <1>2, <1>3 DEF UniqueLines, Backed
  <1>6. /\ requests' \subseteq Requests
        /\ crashes' \in 0..MaxCrashes
    BY DEF Begin, StoreInv, StoreTypeOK
  <1>7. CASE /\ \E i \in DOMAIN index' : index'[i] = request.item
             /\ Respond(request, "duplicate") /\ UNCHANGED call
    <2>1. answered' = answered \cup {request.item}
      BY <1>7 DEF Respond
    <2>2. HasRows(answered, index)'
      BY <1>1, <1>3, <1>4, <1>7, <2>1 DEF HasRows
    <2>3. answer' \in {None, "stored", "duplicate", "conflict", "future", "error"}
      BY <1>7 DEF Respond, StoreInv, StoreTypeOK
    <2> QED
      BY <1>1, <1>2, <1>3, <1>5, <1>6, <1>7, <2>1, <2>2, <2>3
         DEF StoreInv, StoreTypeOK, CallInv
  <1>8. CASE \E response \in {"conflict", "future"} : Respond(request, response) /\ UNCHANGED call
    <2>1. answered' = answered
      BY <1>8 DEF Respond
    <2>2. HasRows(answered, index)'
      BY <1>4, <2>1 DEF HasRows
    <2>3. answer' \in {None, "stored", "duplicate", "conflict", "future", "error"}
      BY <1>8 DEF Respond, StoreInv, StoreTypeOK
    <2> QED
      BY <1>1, <1>2, <1>3, <1>5, <1>6, <1>8, <2>1, <2>2, <2>3
         DEF StoreInv, StoreTypeOK, CallInv
  <1>9. CASE /\ \A i \in DOMAIN index' : index'[i].id # request.item.id
             /\ call' = [request |-> request, pc |-> "write"]
             /\ UNCHANGED <<answer, answered>>
    <2>1. call' \in Calls
      BY <1>1, <1>9 DEF Calls
    <2>2. HasRows(answered, index)'
      BY <1>4, <1>9 DEF HasRows
    <2>3. CallInv'
      <3>1. \A i \in 1..Len(log) : log[i].id # request.item.id
        BY <1>1, <1>3, <1>9
      <3>2. call'.pc = "write" /\ call'.request = request
        BY <1>9
      <3> QED
        BY <1>2, <1>3, <3>1, <3>2 DEF CallInv
    <2> QED
      BY <1>1, <1>2, <1>3, <1>5, <1>6, <1>9, <2>1, <2>2, <2>3 DEF StoreInv, StoreTypeOK
  <1>10. index' = (IF Stale THEN Rebuilt(log) ELSE index)
    BY DEF Begin
  <1> QED
    BY <1>7, <1>8, <1>9, <1>10 DEF Begin

\* Writing the line.
LEMMA WriteLineKeeps ==
    ASSUME StoreInv, WriteLine
    PROVE  StoreInv'
  <1> DEFINE item == call.request.item
  <1>1. /\ log \in Seq(Items) /\ index \in Seq(Items) /\ Len(log) \in Nat /\ Len(index) \in Nat
        /\ call \in Calls /\ call # None /\ call.pc = "write" /\ item \in Items
        /\ UniqueLines(log) /\ Backed(index, log) /\ HasRows(answered, index)
    BY DEF StoreInv, StoreTypeOK, WriteLine, At, Calls, Requests
  <1>2. Len(log) = Len(index) /\ \A i \in 1..Len(log) : log[i].id # item.id
    BY <1>1 DEF StoreInv, CallInv
  <1>3. HasRows(answered, index)'
    BY <1>1 DEF WriteLine, HasRows
  <1>4. /\ requests' \subseteq Requests /\ answered' \subseteq Items /\ crashes' \in 0..MaxCrashes
        /\ answer' \in {None, "stored", "duplicate", "conflict", "future", "error"}
        /\ index' = index
    BY DEF StoreInv, StoreTypeOK, WriteLine
  <1>5. CASE /\ log' = Append(log, item)
             /\ \E pc \in {"index", "rollback_line"} : call' = [call EXCEPT !.pc = pc]
             /\ UNCHANGED torn
    <2>1. /\ log' \in Seq(Items) /\ Len(log') = Len(log) + 1 /\ log'[Len(log')] = item
          /\ \A i \in 1..Len(log) : log'[i] = log[i]
      BY <1>1, <1>5, AppendFacts
    <2>2. call' \in Calls /\ call'.request = call.request /\ call'.pc \in {"index", "rollback_line"}
      BY <1>1, <1>5 DEF Calls
    <2>3. UniqueLines(log')
      BY <1>1, <1>2, <1>5, AppendUnique
    <2>4. Backed(index', log')
      BY <1>1, <1>2, <1>4, <2>1 DEF Backed
    <2>5. CallInv'
      BY <1>1, <1>2, <1>4, <2>1, <2>2 DEF CallInv
    <2>6. torn' \in BOOLEAN
      BY <1>5 DEF StoreInv, StoreTypeOK
    <2> QED
      BY <1>1, <1>3, <1>4, <2>1, <2>2, <2>3, <2>4, <2>5, <2>6
         DEF StoreInv, StoreTypeOK, UniqueLines, Backed
  <1>6. CASE /\ torn' \in BOOLEAN
             /\ call' = [call EXCEPT !.pc = "rollback"]
             /\ UNCHANGED log
    <2>1. call' \in Calls /\ call'.pc = "rollback"
      BY <1>1, <1>6 DEF Calls
    <2>2. CallInv'
      BY <1>2, <1>4, <1>6, <2>1 DEF CallInv
    <2> QED
      BY <1>1, <1>3, <1>4, <1>6, <2>1, <2>2 DEF StoreInv, StoreTypeOK, UniqueLines, Backed
  <1> QED
    BY <1>5, <1>6 DEF WriteLine

\* Committing the row of the last line keeps the index a prefix.
LEMMA RowIsBacked ==
    ASSUME StoreInv, call # None, call.pc = "index"
    PROVE  LET rows == Append(index, call.request.item)
           IN  /\ call.request \in Requests /\ call.request.item \in Items
               /\ rows \in Seq(Items)
               /\ Backed(rows, log)
               /\ HasRows(answered \cup {call.request.item}, rows)
  <1> DEFINE item == call.request.item
             rows == Append(index, item)
  <1>1. /\ log \in Seq(Items) /\ index \in Seq(Items) /\ Len(log) \in Nat /\ Len(index) \in Nat
        /\ call \in Calls /\ call.request \in Requests /\ item \in Items
        /\ Backed(index, log) /\ HasRows(answered, index)
    BY DEF StoreInv, StoreTypeOK, Calls, Requests
  <1>2. Len(log) = Len(index) + 1 /\ log[Len(log)] = item
    BY DEF StoreInv, CallInv
  <1>3. /\ rows \in Seq(Items) /\ Len(rows) = Len(index) + 1
        /\ \A i \in 1..Len(index) : rows[i] = index[i]
        /\ rows[Len(index) + 1] = item
    BY <1>1, AppendFacts
  <1>4. Backed(rows, log)
    BY <1>1, <1>2, <1>3 DEF Backed
  <1>5. HasRows(answered \cup {item}, rows)
    <2>1. SUFFICES ASSUME NEW x \in answered \cup {item}
                   PROVE  \E i \in 1..Len(rows) : rows[i] = x
      BY DEF HasRows
    <2>2. CASE x = item
      BY <1>1, <1>3, <2>2
    <2>3. CASE x \in answered
      <3>1. PICK i \in 1..Len(index) : index[i] = x
        BY <1>1, <2>3 DEF HasRows
      <3>2. i \in 1..Len(rows) /\ rows[i] = x
        BY <1>1, <1>3, <3>1
      <3> QED
        BY <3>2
    <2> QED
      BY <2>1, <2>2, <2>3
  <1> QED
    BY <1>1, <1>3, <1>4, <1>5

\* The transaction of the index.
LEMMA IndexRowKeeps ==
    ASSUME StoreInv, IndexRow
    PROVE  StoreInv'
  <1>1. call # None /\ call.pc = "index" /\ call \in Calls
    BY DEF IndexRow, At, StoreInv, StoreTypeOK
  <1>2. /\ log' = log /\ torn' = torn /\ requests' = requests /\ crashes' = crashes
        /\ UniqueLines(log')
    BY DEF IndexRow, StoreInv, UniqueLines
  <1>3. CASE /\ index' = Append(index, call.request.item)
             /\ call' = None
             /\ Respond(call.request, "stored")
    <2>1. answered' = answered \cup {call.request.item}
      BY <1>3 DEF Respond
    <2>2. answer' \in {None, "stored", "duplicate", "conflict", "future", "error"}
      BY <1>3 DEF Respond, StoreInv, StoreTypeOK
    <2>3. /\ index' \in Seq(Items) /\ Backed(index', log') /\ HasRows(answered', index')
          /\ answered' \subseteq Items
      BY <1>1, <1>2, <1>3, <2>1, RowIsBacked DEF StoreInv, StoreTypeOK
    <2> QED
      BY <1>2, <1>3, <2>2, <2>3
         DEF StoreInv, StoreTypeOK, CallInv, UniqueLines, Backed, HasRows
  <1>4. CASE /\ call' = [call EXCEPT !.pc = "rollback_line"]
             /\ UNCHANGED <<index, answer, answered>>
    <2>1. call' \in Calls /\ call'.pc = "rollback_line"
      BY <1>1, <1>4 DEF Calls
    <2>2. CallInv'
      BY <1>1, <1>2, <1>4, <2>1 DEF CallInv, StoreInv
    <2> QED
      BY <1>2, <1>4, <2>1, <2>2
         DEF StoreInv, StoreTypeOK, UniqueLines, Backed, HasRows
  <1> QED
    BY <1>3, <1>4 DEF IndexRow

\* Rolling a failed append back.
LEMMA RollBackKeeps ==
    ASSUME StoreInv, RollBack
    PROVE  StoreInv'
  <1>1. /\ log \in Seq(Items) /\ index \in Seq(Items) /\ Len(log) \in Nat /\ Len(index) \in Nat
        /\ call # None /\ call.pc \in {"rollback", "rollback_line"}
        /\ torn \in BOOLEAN /\ answered \subseteq Items
        /\ UniqueLines(log) /\ Backed(index, log) /\ HasRows(answered, index)
    BY DEF StoreInv, StoreTypeOK, RollBack, At
  <1>2. /\ call' = None /\ index' = index /\ answered' = answered
        /\ requests' = requests /\ crashes' = crashes
        /\ answer' \in {None, "stored", "duplicate", "conflict", "future", "error"}
    BY DEF RollBack, Respond, StoreInv, StoreTypeOK
  <1>3. torn' \in BOOLEAN /\ log' \in Seq(Items) /\ UniqueLines(log') /\ Backed(index, log')
    <2>1. CASE log' = log /\ torn' \in BOOLEAN
      BY <1>1, <2>1 DEF UniqueLines, Backed
    <2>2. CASE torn' = FALSE /\ call.pc = "rollback_line" /\ log' = SubSeq(log, 1, Len(log) - 1)
      <3>1. Len(log) = Len(index) + 1
        BY <1>1, <2>2 DEF StoreInv, CallInv
      <3>2. /\ log' \in Seq(Items) /\ Len(log') = Len(index)
            /\ \A i \in 1..Len(index) : log'[i] = log[i]
        BY <1>1, <2>2, <3>1, FrontFacts
      <3>3. UniqueLines(log')
        BY <1>1, <3>1, <3>2 DEF UniqueLines
      <3>4. Backed(index, log')
        BY <1>1, <3>2 DEF Backed
      <3> QED
        BY <2>2, <3>2, <3>3, <3>4
    <2>3. (torn' = FALSE \/ torn' = torn)
          /\ (log' = log \/ (torn' = FALSE /\ call.pc = "rollback_line"
                              /\ log' = SubSeq(log, 1, Len(log) - 1)))
      BY <1>1 DEF RollBack, At
    <2> QED
      BY <1>1, <2>1, <2>2, <2>3
  <1> QED
    BY <1>1, <1>2, <1>3 DEF StoreInv, StoreTypeOK, CallInv, UniqueLines, Backed, HasRows

\* The process dying in any state of a call.
LEMMA StoreCrashKeeps ==
    ASSUME StoreInv, StoreCrash
    PROVE  StoreInv'
  <1>1. /\ log \in Seq(Items) /\ index \in Seq(Items) /\ Len(log) \in Nat /\ Len(index) \in Nat
        /\ call # None /\ call \in Calls /\ call.request \in Requests /\ call.request.item \in Items
        /\ torn \in BOOLEAN /\ answered \subseteq Items
        /\ UniqueLines(log) /\ Backed(index, log) /\ HasRows(answered, index)
    BY DEF StoreInv, StoreTypeOK, StoreCrash, Calls, Requests
  <1>2. crashes' \in 0..MaxCrashes
    BY StoreAssumption DEF StoreCrash, StoreInv, StoreTypeOK
  <1>3. /\ call' = None /\ answered' = answered /\ requests' = requests
        /\ answer' \in {None, "stored", "duplicate", "conflict", "future", "error"}
    BY DEF StoreCrash, StoreInv, StoreTypeOK
  <1>4. /\ torn' \in BOOLEAN /\ log' \in Seq(Items) /\ index' \in Seq(Items)
        /\ UniqueLines(log') /\ Backed(index', log') /\ HasRows(answered, index')
    <2>1. CASE log' = log /\ index' = index /\ torn' \in BOOLEAN
      BY <1>1, <2>1 DEF UniqueLines, Backed, HasRows
    <2>2. CASE /\ call.pc = "write" /\ log' = Append(log, call.request.item)
               /\ torn' = torn /\ index' = index
      <3>1. \A i \in 1..Len(log) : log[i].id # call.request.item.id
        BY <1>1, <2>2 DEF StoreInv, CallInv
      <3>2. UniqueLines(log')
        BY <1>1, <2>2, <3>1, AppendUnique
      <3>3. /\ log' \in Seq(Items) /\ Len(log') = Len(log) + 1
            /\ \A i \in 1..Len(log) : log'[i] = log[i]
        BY <1>1, <2>2, AppendFacts
      <3>4. Backed(index', log')
        BY <1>1, <2>2, <3>3 DEF Backed
      <3> QED
        BY <1>1, <2>2, <3>2, <3>3, <3>4
    <2>3. CASE /\ call.pc = "index" /\ index' = Append(index, call.request.item)
               /\ torn' = torn /\ log' = log
      <3>1. /\ index' \in Seq(Items) /\ Backed(index', log)
            /\ HasRows(answered \cup {call.request.item}, index')
        BY <1>1, <2>3, RowIsBacked
      <3> QED
        BY <1>1, <2>3, <3>1 DEF HasRows
    <2> QED
      BY <1>1, <2>1, <2>2, <2>3 DEF StoreCrash, At
  <1> QED
    BY <1>1, <1>2, <1>3, <1>4 DEF StoreInv, StoreTypeOK, CallInv, UniqueLines, Backed, HasRows

\* The empty store satisfies the invariant.
LEMMA StoreInitHolds == Init => StoreInv
  <1>1. SUFFICES ASSUME Init PROVE StoreInv
    OBVIOUS
  <1>2. log = <<>> /\ index = <<>> /\ Len(log) = 0 /\ Len(index) = 0
    BY <1>1 DEF Init
  <1>3. log \in Seq(Items) /\ index \in Seq(Items) /\ requests \subseteq Requests
    BY <1>1, <1>2 DEF Init
  <1>4. crashes \in 0..MaxCrashes
    BY <1>1, StoreAssumption DEF Init
  <1>5. StoreTypeOK
    BY <1>1, <1>3, <1>4 DEF Init, StoreTypeOK
  <1>6. UniqueLines(log) /\ Backed(index, log)
    BY <1>2 DEF UniqueLines, Backed
  <1>7. HasRows(answered, index) /\ CallInv
    BY <1>1 DEF Init, HasRows, CallInv
  <1> QED
    BY <1>5, <1>6, <1>7 DEF StoreInv

\* Every step of the store keeps the invariant, whoever sent the request.
LEMMA StoreStepKeeps == StoreInv /\ [Next]_storeVars => StoreInv'
  <1>1. SUFFICES ASSUME StoreInv, [Next]_storeVars
                 PROVE  StoreInv'
    OBVIOUS
  <1>2. CASE \E request \in requests : Begin(request)
    BY <1>1, <1>2, BeginKeeps
  <1>3. CASE WriteLine
    BY <1>1, <1>3, WriteLineKeeps
  <1>4. CASE IndexRow
    BY <1>1, <1>4, IndexRowKeeps
  <1>5. CASE RollBack
    BY <1>1, <1>5, RollBackKeeps
  <1>6. CASE StoreCrash
    BY <1>1, <1>6, StoreCrashKeeps
  <1>7. CASE \E item \in Foreign : OtherClient(item)
    <2>1. PICK item \in Foreign : OtherClient(item)
      BY <1>7
    <2>2. item \in Items
      BY StoreAssumption
    <2>3. requests' \subseteq Requests
      <3>1. [item |-> item, live |-> FALSE] \in Requests
        BY <2>2 DEF Requests
      <3>2. requests \subseteq Requests
        BY <1>1 DEF StoreInv, StoreTypeOK
      <3> QED
        BY <2>1, <3>1, <3>2, Zenon DEF OtherClient
    <2> QED
      BY <1>1, <2>1, <2>3 DEF OtherClient, StoreInv, StoreTypeOK, UniqueLines, Backed,
                              HasRows, CallInv
  <1>8. CASE UNCHANGED storeVars
    BY <1>1, <1>8 DEF storeVars, StoreInv, StoreTypeOK, UniqueLines, Backed, HasRows, CallInv
  <1> QED
    BY <1>1, <1>2, <1>3, <1>4, <1>5, <1>6, <1>7, <1>8 DEF Next, StoreStep

\* MonitoringStore keeps its log and its index together: the invariant holds
\* in every reachable state.
THEOREM StoreInvariant == Spec => []StoreInv
  BY StoreInitHolds, StoreStepKeeps, PTL DEF Spec

\* The invariant implies that identities are unique and answers stored.
LEMMA InvUnique == StoreInv => RunIsUnique
  BY DEF StoreInv, StoreTypeOK, UniqueLines, RunIsUnique

LEMMA InvAnswers == StoreInv => AnsweredIsStored
  <1>1. SUFFICES ASSUME StoreInv, NEW item \in answered
                 PROVE  \E i \in DOMAIN log : log[i] = item
    BY DEF AnsweredIsStored
  <1>2. /\ log \in Seq(Items) /\ index \in Seq(Items) /\ Len(log) \in Nat /\ Len(index) \in Nat
        /\ Backed(index, log) /\ HasRows(answered, index)
    BY <1>1 DEF StoreInv, StoreTypeOK
  <1>3. PICK i \in 1..Len(index) : index[i] = item
    BY <1>1, <1>2 DEF HasRows
  <1>4. i \in 1..Len(log) /\ log[i] = item
    BY <1>2, <1>3 DEF Backed
  <1> QED
    BY <1>2, <1>4

\* append stores a run identity once, under any redelivery and any crash of
\* the process between the log and the index.
THEOREM RunStoredOnce == Spec => []RunIsUnique
  BY InvUnique, StoreInvariant, PTL

\* What append answered with stored or duplicate stays in the history: no
\* rollback and no rebuild removes it.
THEOREM AnswersAreKept == Spec => []AnsweredIsStored
  BY InvAnswers, StoreInvariant, PTL

\* Every row of the index is backed by its line of the log.
THEOREM RowsAreBacked == Spec => []IndexIsBacked
  <1>1. StoreInv => IndexIsBacked
    BY DEF StoreInv, StoreTypeOK, Backed, IndexIsBacked
  <1> QED
    BY <1>1, StoreInvariant, PTL

-----------------------------------------------------------------------------
(***************************************************************************)
(* Proofs about the outbox and the store together, for any identities,     *)
(* payloads and foreign clients and any number of crashes, timeouts and    *)
(* markers: what enqueue accepted is never lost, an identity is stored     *)
(* once, an answer stays true.                                             *)
(*                                                                         *)
(* That an item is in the log is not inductive: a line the store has not   *)
(* indexed yet may be rolled back.  What carries the argument is answered, *)
(* the items whose row is committed: a file leaves pending only for an     *)
(* answered item or one that is in quarantine, and the worker's knowledge  *)
(* of an answer is about the item it holds, because a request somebody     *)
(* waits for is always that of the pass in progress.                       *)
(***************************************************************************)

OutboxTypeOK ==
    /\ pending \in [Identities -> Payloads \cup {None}]
    /\ quarantined \in [Identities -> Payloads \cup {None}]
    /\ sent \in Seq(Items)
    /\ worker \in Passes \cup {None}
    /\ accepted \subseteq Items

\* A marker is written only for an item the store has a row of.
SentInv == \A k \in 1..Len(sent) : sent[k] \in answered

\* NothingIsLost with what cannot be rolled back in the place of the log.
AcceptedInv ==
    \A item \in accepted :
        \/ item \in answered
        \/ pending[item.id] = item.payload
        \/ quarantined[item.id] = item.payload

\* The files a pass has still to visit are there, and so is the one it holds;
\* it removes a file only when the item is safe elsewhere.
PassInv ==
    worker # None =>
        /\ \A i \in worker.left : pending[i] # None
        /\ worker.pc # "scan" =>
             worker.item \in Identities \ worker.left /\ pending[worker.item] # None
        /\ worker.pc = "deliver" => Item \in answered
        /\ worker.pc = "unlink" =>
             Item \in answered \/ quarantined[worker.item] = pending[worker.item]

\* At most one response is waited for, by the pass in progress about the item
\* it holds: its request is unserved, or being served, or answered.
Awaited == {q \in requests : q.live}

WaitInv ==
    /\ \A q \in Awaited : Working("waiting") /\ q.item = Item
    /\ call # None /\ call.request.live =>
         Working("waiting") /\ call.request.item = Item /\ Awaited = {}
    /\ answer # None =>
         /\ Working("waiting") /\ Awaited = {} /\ (call # None => ~call.request.live)
         /\ answer \in {"stored", "duplicate"} => Item \in answered

DeliveryInv ==
    StoreInv /\ OutboxTypeOK /\ SentInv /\ AcceptedInv /\ PassInv /\ WaitInv

USE DEF Item

\* _prune_sent_markers only forgets markers.
LEMMA PrunedFacts ==
    ASSUME NEW s \in Seq(Items)
    PROVE  /\ Pruned(s) \in Seq(Items)
           /\ \A k \in 1..Len(Pruned(s)) : \E j \in 1..Len(s) : Pruned(s)[k] = s[j]
  <1> DEFINE first == Len(s) - MaxSentMarkers + 1
             kept == SubSeq(s, first, Len(s))
  <1>1. CASE Len(s) > MaxSentMarkers
    <2>1. Len(s) \in Nat /\ first \in 1..Len(s) /\ Pruned(s) = kept
      BY <1>1, DeliveryAssumption DEF Pruned
    <2>2. /\ kept \in Seq(Items) /\ Len(kept) = MaxSentMarkers
          /\ \A k \in 1..MaxSentMarkers : kept[k] = s[first + k - 1]
      BY <2>1, DeliveryAssumption
    <2>3. \A k \in 1..MaxSentMarkers : first + k - 1 \in 1..Len(s)
      BY <2>1, DeliveryAssumption
    <2> QED
      BY <2>1, <2>2, <2>3
  <1>2. CASE ~(Len(s) > MaxSentMarkers)
    BY <1>2 DEF Pruned
  <1> QED
    BY <1>1, <1>2

\* Forgetting markers keeps the rest backed by answers.
LEMMA PrunedSent ==
    ASSUME OutboxTypeOK, SentInv, sent' = Pruned(sent) \/ sent' = sent,
           answered' = answered
    PROVE  sent' \in Seq(Items) /\ SentInv'
  BY PrunedFacts DEF OutboxTypeOK, SentInv

\* A request is answered, if anybody waits: about its own item.
Answers(q) ==
    /\ answer' = answer \/ q.live
    /\ answer' \in {"stored", "duplicate"} =>
         answer' = answer \/ (q.live /\ q.item \in answered')

\* What a step of the store means to those who wait for it: answers only
\* accumulate; a request is served at once, begun, continued or ended, or a
\* request nobody waits for arrives.
LEMMA StoreEffect ==
    ASSUME StoreInv, Next
    PROVE  /\ answered \subseteq answered'
           /\ \/ /\ call = None
                 /\ \E q \in requests :
                      /\ requests' = requests \ {q}
                      /\ \/ call' = None /\ Answers(q)
                         \/ call' # None /\ call'.request = q /\ answer' = answer
              \/ /\ call # None /\ requests' = requests
                 /\ \/ call' = None /\ Answers(call.request)
                    \/ call' # None /\ call'.request = call.request /\ answer' = answer
              \/ /\ call' = call /\ answer' = answer
                 /\ \A q \in requests' : q \in requests \/ ~q.live
  <1>0. /\ requests \subseteq Requests
        /\ call # None => call \in Calls /\ call.request \in Requests
    BY DEF StoreInv, StoreTypeOK, Calls
  <1>1. ASSUME NEW request \in requests, Begin(request)
        PROVE  /\ answered \subseteq answered' /\ requests' = requests \ {request} /\ call = None
               /\ \/ call' = None /\ Answers(request)
                  \/ call' # None /\ call'.request = request /\ answer' = answer
    <2>1. call' # None => call' = [request |-> request, pc |-> "write"]
      BY <1>1 DEF Begin
    <2>2. [request |-> request, pc |-> "write"] \in Calls
      BY <1>0 DEF Calls
    <2> QED
      BY <1>1, <2>1, <2>2, StoreAssumption DEF Begin, Respond, Answers
  <1>2. CASE WriteLine
    <2>1. PICK pc \in {"index", "rollback_line", "rollback"} : call' = [call EXCEPT !.pc = pc]
      BY <1>2 DEF WriteLine
    <2>2. call' \in Calls /\ call'.request = call.request
      BY <1>0, <1>2, <2>1 DEF WriteLine, At, Calls
    <2> QED
      BY <1>2, <2>2, StoreAssumption DEF WriteLine, At
  <1>3. CASE IndexRow
    <2>1. CASE call' = None
      BY <1>3, <2>1 DEF IndexRow, At, Respond, Answers
    <2>2. CASE call' = [call EXCEPT !.pc = "rollback_line"] /\ UNCHANGED <<answer, answered>>
      <3>1. call' \in Calls /\ call'.request = call.request
        BY <1>0, <1>3, <2>2 DEF IndexRow, At, Calls
      <3> QED
        BY <1>3, <2>2, <3>1, StoreAssumption DEF IndexRow, At
    <2> QED
      BY <1>3, <2>1, <2>2 DEF IndexRow
  <1>4. CASE RollBack
    BY <1>0, <1>4 DEF RollBack, At, Respond, Answers
  <1>5. CASE StoreCrash
    BY <1>0, <1>5 DEF StoreCrash, Answers
  <1>6. CASE \E item \in Foreign : OtherClient(item)
    BY <1>6 DEF OtherClient
  <1> QED
    BY <1>1, <1>2, <1>3, <1>4, <1>5, <1>6 DEF Next, StoreStep

\* The store's own steps.
LEMMA StoreSideKeeps ==
    ASSUME DeliveryInv, Next, UNCHANGED outboxVars
    PROVE  DeliveryInv'
  <1>1. StoreInv' /\ StoreInv
    BY StoreStepKeeps DEF DeliveryInv
  <1>2. answered \subseteq answered'
    BY <1>1, StoreEffect
  <1>3. OutboxTypeOK'
    BY DEF DeliveryInv, OutboxTypeOK, outboxVars
  <1>4. SentInv' /\ AcceptedInv' /\ PassInv'
    BY <1>2 DEF DeliveryInv, SentInv, AcceptedInv, PassInv, outboxVars
  <1>5. WaitInv'
    <2>1. /\ worker' = worker /\ pending' = pending /\ Item' = Item
          /\ Working("waiting")' = Working("waiting")
      BY DEF outboxVars, Working
    <2>2. \A q, r \in Awaited : q = r
      <3>1. requests \subseteq Requests
        BY <1>1 DEF StoreInv, StoreTypeOK
      <3> QED
        BY <3>1 DEF DeliveryInv, WaitInv, Awaited, Requests
    <2>3. CASE /\ call = None
               /\ \E q \in requests :
                    /\ requests' = requests \ {q}
                    /\ \/ call' = None /\ Answers(q)
                       \/ call' # None /\ call'.request = q /\ answer' = answer
      <3>1. PICK q \in requests :
               /\ requests' = requests \ {q}
               /\ \/ call' = None /\ Answers(q)
                  \/ call' # None /\ call'.request = q /\ answer' = answer
        BY <2>3
      <3>2. Awaited' \subseteq Awaited /\ (q.live => q \in Awaited /\ Awaited' = {})
        BY <2>2, <3>1 DEF Awaited
      <3> QED
        BY <1>2, <2>1, <3>1, <3>2 DEF DeliveryInv, WaitInv, Answers
    <2>4. CASE /\ call # None /\ requests' = requests
               /\ \/ call' = None /\ Answers(call.request)
                  \/ call' # None /\ call'.request = call.request /\ answer' = answer
      BY <1>2, <2>1, <2>4 DEF DeliveryInv, WaitInv, Answers, Awaited
    <2>5. CASE /\ call' = call /\ answer' = answer
               /\ \A q \in requests' : q \in requests \/ ~q.live
      <3>1. Awaited' \subseteq Awaited
        BY <2>5 DEF Awaited
      <3> QED
        BY <1>2, <2>1, <2>5, <3>1 DEF DeliveryInv, WaitInv
    <2> QED
      BY <1>1, <2>3, <2>4, <2>5, StoreEffect
  <1> QED
    BY <1>1, <1>3, <1>4, <1>5 DEF DeliveryInv

\* Giving up on a response, or dying while waiting for it, changes nothing
\* but who waits.
LEMMA AbandonKeeps ==
    ASSUME StoreInv, requests' = {Abandoned(q) : q \in requests},
           call' = IF call = None THEN None ELSE [call EXCEPT !.request = Abandoned(@)],
           answer' \in {answer, None}, crashes' \in 0..MaxCrashes,
           UNCHANGED <<log, torn, index, answered>>
    PROVE  /\ StoreInv'
           /\ \A q \in requests' : ~q.live
           /\ call' # None => ~call'.request.live
  <1>1. \A q \in Requests : /\ Abandoned(q) \in Requests /\ ~Abandoned(q).live
                            /\ Abandoned(q).item = q.item
    BY DEF Abandoned, Requests
  <1>2. requests \subseteq Requests /\ call \in Calls \cup {None}
    BY DEF StoreInv, StoreTypeOK
  <1>3. requests' \subseteq Requests /\ \A q \in requests' : ~q.live
    BY <1>1, <1>2
  <1>4. CASE call = None
    BY <1>3, <1>4 DEF StoreInv, StoreTypeOK, CallInv
  <1>5. CASE call # None
    <2>1. /\ call' \in Calls /\ call'.pc = call.pc
          /\ call'.request = Abandoned(call.request) /\ call.request \in Requests
      BY <1>1, <1>2, <1>5 DEF Calls
    <2>2. CallInv'
      BY <1>1, <1>5, <2>1, StoreAssumption DEF StoreInv, CallInv
    <2>3. StoreTypeOK'
      BY <1>3, <2>1 DEF StoreInv, StoreTypeOK
    <2> QED
      BY <1>1, <1>3, <2>1, <2>2, <2>3 DEF StoreInv
  <1> QED
    BY <1>4, <1>5
\* What the steps of the outbox have to show about the store.
LEMMA StoreUntouched ==
    ASSUME StoreInv, requests' \subseteq Requests, answer' \in {answer, None},
           UNCHANGED <<log, torn, index, call, answered, crashes>>
    PROVE  StoreInv'
  BY DEF StoreInv, StoreTypeOK, UniqueLines, Backed, HasRows, CallInv

\* enqueue removes a pending file only for a marker with the same bytes.
LEMMA EnqueueKeeps ==
    ASSUME DeliveryInv, NEW i \in Identities, NEW p \in Payloads, Enqueue(i, p)
    PROVE  DeliveryInv'
  <1> DEFINE item == [id |-> i, payload |-> p]
             marks == {k \in DOMAIN sent' : sent'[k].id = i}
  <1>1. /\ worker = None /\ worker' = None /\ quarantined' = quarantined
        /\ sent' = Pruned(sent) /\ UNCHANGED storeVars
    BY DEF Enqueue
  <1>2. StoreInv' /\ answered' = answered
    <2>1. requests' \subseteq Requests
      BY <1>1 DEF DeliveryInv, StoreInv, StoreTypeOK, storeVars
    <2> QED
      BY <1>1, <2>1, StoreUntouched DEF DeliveryInv, storeVars
  <1>3. sent' \in Seq(Items) /\ SentInv'
    BY <1>1, <1>2, PrunedSent DEF DeliveryInv
  <1>4. /\ pending \in [Identities -> Payloads \cup {None}]
        /\ accepted \subseteq Items /\ item \in Items
    BY DEF DeliveryInv, OutboxTypeOK, Items
  <1>5. \/ pending' = pending /\ accepted' = accepted
        \/ /\ marks # {} /\ \A k \in marks : sent'[k].payload = p
           /\ pending[i] = p
           /\ pending' = [pending EXCEPT ![i] = None] /\ accepted' = accepted
        \/ /\ pending[i] = None /\ pending' = [pending EXCEPT ![i] = p]
           /\ accepted' = accepted \cup {item}
    BY DEF Enqueue
  <1>6. OutboxTypeOK'
    BY <1>1, <1>3, <1>4, <1>5 DEF DeliveryInv, OutboxTypeOK
  <1>7. AcceptedInv'
    <2>1. CASE marks # {} /\ \A k \in marks : sent'[k].payload = p
      <3>1. PICK k \in marks : sent'[k].payload = p
        BY <2>1
      <3>2. sent'[k] \in answered /\ sent'[k] \in Items /\ sent'[k].id = i
        BY <1>2, <1>3, <3>1 DEF SentInv
      <3>3. sent'[k] = item
        BY <3>1, <3>2 DEF Items
      <3>4. \A x \in accepted : x \in Items /\ (x.id = i /\ x.payload = p => x = item)
        BY <1>4 DEF Items
      <3> QED
        BY <1>1, <1>2, <1>4, <1>5, <3>2, <3>3, <3>4, DeliveryAssumption
        DEF DeliveryInv, AcceptedInv, Items
    <2>2. CASE pending' = pending /\ accepted' = accepted
      BY <1>1, <1>2, <2>2 DEF DeliveryInv, AcceptedInv
    <2>3. CASE /\ pending[i] = None /\ pending' = [pending EXCEPT ![i] = p]
               /\ accepted' = accepted \cup {item}
      BY <1>1, <1>2, <1>4, <2>3, DeliveryAssumption DEF DeliveryInv, AcceptedInv, Items
    <2> QED
      BY <1>5, <2>1, <2>2, <2>3
  <1>8. PassInv'
    BY <1>1 DEF PassInv
  <1>9. WaitInv'
    BY <1>1 DEF DeliveryInv, WaitInv, Working, Awaited, storeVars
  <1> QED
    BY <1>2, <1>3, <1>6, <1>7, <1>8, <1>9 DEF DeliveryInv

\* The beginning and the end of a pass.
LEMMA PassEndsKeeps ==
    ASSUME DeliveryInv, (\E resilient \in BOOLEAN : StartPass(resilient)) \/ EndPass
    PROVE  DeliveryInv'
  <1>1. /\ UNCHANGED storeVars /\ UNCHANGED <<pending, quarantined, accepted>>
        /\ sent' = Pruned(sent) \/ sent' = sent
        /\ ~Working("waiting")
    BY DEF StartPass, EndPass, Working
  <1>2. \/ worker' = None
        \/ /\ worker' \in Passes /\ worker'.pc = "scan"
           /\ \A i \in worker'.left : pending[i] # None
    BY DEF StartPass, EndPass, Passes
  <1>3. StoreInv' /\ answered' = answered
    <2>1. requests' \subseteq Requests
      BY <1>1 DEF DeliveryInv, StoreInv, StoreTypeOK, storeVars
    <2> QED
      BY <1>1, <2>1, StoreUntouched DEF DeliveryInv, storeVars
  <1>4. sent' \in Seq(Items) /\ SentInv'
    BY <1>1, <1>3, PrunedSent DEF DeliveryInv
  <1>5. OutboxTypeOK'
    BY <1>1, <1>2, <1>4 DEF DeliveryInv, OutboxTypeOK
  <1>6. AcceptedInv'
    BY <1>1, <1>3 DEF DeliveryInv, AcceptedInv
  <1>7. PassInv'
    BY <1>1, <1>2 DEF PassInv
  <1>8. WaitInv'
    BY <1>1 DEF DeliveryInv, WaitInv, Awaited, storeVars
  <1> QED
    BY <1>3, <1>4, <1>5, <1>6, <1>7, <1>8 DEF DeliveryInv
\* A pass takes the next file: its leftover is removed, or its request sent.
LEMMA TakeKeeps ==
    ASSUME DeliveryInv, NEW i \in Identities, Take(i)
    PROVE  DeliveryInv'
  <1> DEFINE item == [id |-> i, payload |-> pending[i]]
             request == [item |-> item, live |-> TRUE]
  <1>1. /\ worker # None /\ worker.pc = "scan" /\ i \in worker.left
        /\ UNCHANGED <<log, torn, index, call, answer, answered, crashes, sent, quarantined, accepted>>
    BY DEF Take, Working
  <1>2. /\ worker \in Passes /\ pending \in [Identities -> Payloads \cup {None}]
        /\ pending[i] # None /\ item \in Items
        /\ \A j \in worker.left : pending[j] # None
        /\ accepted \subseteq Items /\ sent \in Seq(Items)
    BY <1>1 DEF DeliveryInv, OutboxTypeOK, PassInv, Items
  <1>3. /\ worker' \in Passes /\ worker' # None
        /\ worker'.item = i /\ worker'.left = worker.left \ {i}
        /\ worker.left \subseteq Identities
    <2> DEFINE w == [worker EXCEPT !.left = @ \ {i}, !.item = i]
    <2>1. /\ w \in Passes /\ w.item = i /\ w.left = worker.left \ {i}
          /\ worker.left \subseteq Identities
      BY <1>2 DEF Passes
    <2>2. \E pc \in {"scan", "refused", "waiting"} : worker' = [w EXCEPT !.pc = pc]
      <3>1. w = [w EXCEPT !.pc = "scan"]
        BY <1>1, <1>2 DEF Passes
      <3> QED
        BY <3>1 DEF Take
    <2> HIDE DEF w
    <2>3. worker' \in Passes /\ worker'.item = w.item /\ worker'.left = w.left
      BY <2>1, <2>2 DEF Passes
    <2> QED
      BY <2>1, <2>3, DeliveryAssumption
  <1>4. \/ /\ Marked(i) # {} /\ \A k \in Marked(i) : sent[k].payload = pending[i]
           /\ pending' = [pending EXCEPT ![i] = None] /\ requests' = requests
           /\ worker'.pc = "scan"
        \/ /\ pending' = pending /\ requests' = requests /\ worker'.pc = "refused"
        \/ /\ pending' = pending /\ requests' = requests \cup {request}
           /\ worker'.pc = "waiting"
    BY <1>1, <1>2 DEF Take, Passes
  <1>5. /\ Awaited = {} /\ answer = None
        /\ call # None => ~call.request.live
    BY <1>1 DEF DeliveryInv, WaitInv, Working
  <1>6. StoreInv'
    <2>1. requests \subseteq Requests /\ request \in Requests
      BY <1>2 DEF DeliveryInv, StoreInv, StoreTypeOK, Requests
    <2>2. requests' \subseteq Requests
      BY <1>4, <2>1
    <2> QED
      BY <1>1, <2>2, StoreUntouched DEF DeliveryInv
  <1>7. OutboxTypeOK' /\ SentInv'
    BY <1>1, <1>2, <1>3, <1>4 DEF DeliveryInv, OutboxTypeOK, SentInv
  <1>8. AcceptedInv'
    <2>1. CASE pending' = pending
      BY <1>1, <2>1 DEF DeliveryInv, AcceptedInv
    <2>2. CASE /\ Marked(i) # {} /\ \A k \in Marked(i) : sent[k].payload = pending[i]
               /\ pending' = [pending EXCEPT ![i] = None]
      <3>1. PICK k \in Marked(i) : sent[k].payload = pending[i]
        BY <2>2
      <3>2. sent[k] \in answered /\ sent[k] \in Items /\ sent[k].id = i
        BY <1>2, <3>1 DEF DeliveryInv, SentInv, Marked
      <3>3. item \in answered
        BY <3>1, <3>2 DEF Items
      <3>4. \A x \in accepted : x \in Items /\ (x.id = i /\ x.payload = pending[i] => x = item)
        BY <1>2 DEF Items
      <3> QED
        BY <1>1, <1>2, <2>2, <3>3, <3>4 DEF DeliveryInv, AcceptedInv, Items
    <2> QED
      BY <1>4, <2>1, <2>2
  <1>9. PassInv'
    BY <1>1, <1>2, <1>3, <1>4 DEF PassInv
  <1>10. WaitInv'
    <2>1. CASE requests' = requests
      BY <1>1, <1>5, <2>1 DEF WaitInv, Awaited
    <2>2. CASE /\ pending' = pending /\ requests' = requests \cup {request}
               /\ worker'.pc = "waiting"
      <3>1. Awaited' = {request} /\ Item' = item
        BY <1>3, <1>5, <2>2 DEF Awaited
      <3> QED
        BY <1>1, <1>3, <1>5, <2>2, <3>1 DEF WaitInv, Working
    <2> QED
      BY <1>4, <2>1, <2>2
  <1> QED
    BY <1>6, <1>7, <1>8, <1>9, <1>10 DEF DeliveryInv

\* A pass learns, or gives up learning, what became of its request.
LEMMA ReceiveKeeps ==
    ASSUME DeliveryInv, Receive
    PROVE  DeliveryInv'
  <1>1. /\ worker # None /\ worker.pc = "waiting" /\ answer # None /\ answer' = None
        /\ UNCHANGED <<log, torn, index, requests, call, answered, crashes>>
        /\ UNCHANGED <<pending, sent, quarantined, accepted>>
    BY DEF Receive, Working
  <1>2. worker \in Passes
    BY <1>1 DEF DeliveryInv, OutboxTypeOK
  <1>3. /\ worker' \in Passes /\ worker' # None
        /\ worker'.item = worker.item /\ worker'.left = worker.left
        /\ worker'.pc \in {"deliver", "refused", "retained"}
        /\ worker'.pc = "deliver" => answer \in {"stored", "duplicate"}
    BY <1>1, <1>2, DeliveryAssumption DEF Receive, Passes
  <1>4. /\ Awaited = {} /\ (call # None => ~call.request.live)
        /\ answer \in {"stored", "duplicate"} => Item \in answered
    BY <1>1 DEF DeliveryInv, WaitInv
  <1>5. StoreInv'
    <2>1. requests' \subseteq Requests
      BY <1>1 DEF DeliveryInv, StoreInv, StoreTypeOK
    <2> QED
      BY <1>1, <2>1, StoreUntouched DEF DeliveryInv
  <1>6. OutboxTypeOK' /\ SentInv' /\ AcceptedInv'
    BY <1>1, <1>3 DEF DeliveryInv, OutboxTypeOK, SentInv, AcceptedInv
  <1>7. PassInv'
    BY <1>1, <1>3, <1>4 DEF DeliveryInv, PassInv
  <1>8. WaitInv'
    BY <1>1, <1>4 DEF WaitInv, Awaited
  <1> QED
    BY <1>5, <1>6, <1>7, <1>8 DEF DeliveryInv

\* The sender gives up, or the worker dies: nobody waits any more, whatever
\* the service still does with the request.
LEMMA GivingUpKeeps ==
    ASSUME DeliveryInv, Timeout \/ WorkerCrash
    PROVE  DeliveryInv'
  <1>1. /\ worker # None /\ answer' = None
        /\ requests' = {Abandoned(q) : q \in requests}
        /\ call' = IF call = None THEN None ELSE [call EXCEPT !.request = Abandoned(@)]
        /\ UNCHANGED <<log, torn, index, answered, pending, sent, quarantined, accepted>>
    BY DEF Timeout, WorkerCrash, Working
  <1>2. crashes' \in 0..MaxCrashes
    BY StoreAssumption DEF Timeout, WorkerCrash, DeliveryInv, StoreInv, StoreTypeOK
  <1>3. /\ StoreInv' /\ (\A q \in requests' : ~q.live)
        /\ call' # None => ~call'.request.live
    BY <1>1, <1>2, AbandonKeeps DEF DeliveryInv
  <1>4. worker \in Passes
    BY <1>1 DEF DeliveryInv, OutboxTypeOK
  <1>5. \/ worker' = None
        \/ /\ worker' \in Passes /\ worker.pc = "waiting" /\ worker'.pc = "retained"
           /\ worker'.item = worker.item /\ worker'.left = worker.left
    BY <1>1, <1>4 DEF Timeout, WorkerCrash, Working, Passes
  <1>6. OutboxTypeOK' /\ SentInv' /\ AcceptedInv'
    BY <1>1, <1>5 DEF DeliveryInv, OutboxTypeOK, SentInv, AcceptedInv
  <1>7. PassInv'
    BY <1>1, <1>5 DEF DeliveryInv, PassInv
  <1>8. WaitInv'
    BY <1>1, <1>3 DEF WaitInv, Awaited
  <1> QED
    BY <1>3, <1>6, <1>7, <1>8 DEF DeliveryInv

\* What a pass does with the files of the item it holds, once it has learnt
\* what became of it: the marker, the quarantine, the removal.
LEMMA FilingKeeps ==
    ASSUME DeliveryInv, PublishMarker \/ Retain \/ Refuse \/ Unlink
    PROVE  DeliveryInv'
  <1>1. /\ worker # None /\ worker.pc \notin {"scan", "waiting"} /\ ~Working("waiting")
        /\ UNCHANGED storeVars /\ accepted' = accepted
    BY DEF PublishMarker, Retain, Refuse, Unlink, Working
  <1>2. /\ worker \in Passes /\ worker.item \in Identities \ worker.left
        /\ worker.left \subseteq Identities
        /\ pending \in [Identities -> Payloads \cup {None}]
        /\ quarantined \in [Identities -> Payloads \cup {None}]
        /\ pending[worker.item] \in Payloads
        /\ \A i \in worker.left : pending[i] # None
        /\ sent \in Seq(Items) /\ accepted \subseteq Items
        /\ Item \in Items
    BY <1>1 DEF DeliveryInv, OutboxTypeOK, PassInv, Passes, Items
  <1>3. StoreInv' /\ answered' = answered
    <2>1. requests' \subseteq Requests
      BY <1>1 DEF DeliveryInv, StoreInv, StoreTypeOK, storeVars
    <2> QED
      BY <1>1, <2>1, StoreUntouched DEF DeliveryInv, storeVars
  <1>4. WaitInv'
    BY <1>1 DEF DeliveryInv, WaitInv, Awaited, storeVars
  <1>5. \A pc \in {"scan", "unlink"} :
          LET w == [worker EXCEPT !.pc = pc]
          IN  w \in Passes /\ w.pc = pc /\ w.item = worker.item /\ w.left = worker.left
    BY <1>2 DEF Passes
  <1>6. CASE PublishMarker
    <2>1. /\ sent' = Append(sent, Item) /\ worker' = [worker EXCEPT !.pc = "unlink"]
          /\ UNCHANGED <<pending, quarantined>> /\ Item \in answered
      BY <1>6 DEF PublishMarker, Working, DeliveryInv, PassInv
    <2>2. sent' \in Seq(Items) /\ SentInv'
      BY <1>2, <1>3, <2>1, AppendFacts DEF DeliveryInv, SentInv
    <2>3. OutboxTypeOK'
      BY <1>1, <1>2, <1>5, <2>1, <2>2 DEF OutboxTypeOK
    <2>4. AcceptedInv' /\ PassInv'
      BY <1>1, <1>2, <1>3, <1>5, <2>1 DEF DeliveryInv, AcceptedInv, PassInv
    <2> QED
      BY <1>3, <1>4, <2>2, <2>3, <2>4 DEF DeliveryInv
  <1>7. CASE Retain
    <2>1. UNCHANGED <<pending, quarantined, sent>>
      BY <1>7 DEF Retain
    <2>2. worker' = None \/ worker' = [worker EXCEPT !.pc = "scan"]
      BY <1>7 DEF Retain
    <2>3. OutboxTypeOK' /\ SentInv' /\ AcceptedInv' /\ PassInv'
      BY <1>1, <1>2, <1>3, <1>5, <2>1, <2>2
      DEF DeliveryInv, OutboxTypeOK, SentInv, AcceptedInv, PassInv
    <2> QED
      BY <1>3, <1>4, <2>3 DEF DeliveryInv
  <1>8. CASE Refuse
    <2>1. UNCHANGED <<pending, sent>>
      BY <1>8 DEF Refuse
    <2>2. \/ /\ worker' = None \/ worker' = [worker EXCEPT !.pc = "scan"]
             /\ quarantined' = quarantined
          \/ /\ worker' = [worker EXCEPT !.pc = "unlink"] /\ quarantined[worker.item] = None
             /\ quarantined' = [quarantined EXCEPT ![worker.item] = pending[worker.item]]
      BY <1>8, <1>2 DEF Refuse, Passes
    <2>3. OutboxTypeOK' /\ SentInv'
      BY <1>1, <1>2, <1>3, <1>5, <2>1, <2>2 DEF DeliveryInv, OutboxTypeOK, SentInv
    <2>4. AcceptedInv'
      BY <1>1, <1>2, <1>3, <2>1, <2>2, DeliveryAssumption DEF DeliveryInv, AcceptedInv, Items
    <2>5. PassInv'
      BY <1>1, <1>2, <1>5, <2>1, <2>2, DeliveryAssumption DEF PassInv
    <2> QED
      BY <1>3, <1>4, <2>3, <2>4, <2>5 DEF DeliveryInv
  <1>9. CASE Unlink
    <2>1. /\ UNCHANGED <<quarantined, sent>> /\ worker' = [worker EXCEPT !.pc = "scan"]
          /\ pending' = [pending EXCEPT ![worker.item] = None]
          /\ Item \in answered \/ quarantined[worker.item] = pending[worker.item]
      BY <1>9 DEF Unlink, Working, DeliveryInv, PassInv
    <2>2. OutboxTypeOK' /\ SentInv'
      BY <1>1, <1>2, <1>3, <1>5, <2>1 DEF DeliveryInv, OutboxTypeOK, SentInv
    <2>3. AcceptedInv'
      <3>1. \A x \in accepted :
              x \in Items /\ (x.id = worker.item /\ x.payload = pending[worker.item] => x = Item)
        BY <1>2 DEF Items
      <3> QED
        BY <1>1, <1>2, <1>3, <2>1, <3>1 DEF DeliveryInv, AcceptedInv, Items
    <2>4. PassInv'
      BY <1>1, <1>2, <1>5, <2>1 DEF PassInv
    <2> QED
      BY <1>3, <1>4, <2>2, <2>3, <2>4 DEF DeliveryInv
  <1> QED
    BY <1>6, <1>7, <1>8, <1>9

\* Outbox and store start empty.
LEMMA DeliveryInitHolds == DeliveryInit => DeliveryInv
  <1>1. SUFFICES ASSUME DeliveryInit PROVE DeliveryInv
    OBVIOUS
  <1>2. StoreInv
    BY <1>1, StoreInitHolds DEF DeliveryInit
  <1>3. OutboxTypeOK /\ SentInv
    BY <1>1 DEF DeliveryInit, OutboxTypeOK, SentInv
  <1>4. AcceptedInv /\ PassInv /\ WaitInv
    BY <1>1 DEF DeliveryInit, Init, AcceptedInv, PassInv, WaitInv, Awaited
  <1> QED
    BY <1>2, <1>3, <1>4 DEF DeliveryInv

LEMMA DeliveryStepKeeps == DeliveryInv /\ [DeliveryNext]_vars => DeliveryInv'
  <1>1. SUFFICES ASSUME DeliveryInv, [DeliveryNext]_vars
                 PROVE  DeliveryInv'
    OBVIOUS
  <1>2. CASE Next /\ UNCHANGED outboxVars
    BY <1>1, <1>2, StoreSideKeeps
  <1>3. CASE \E i \in Identities, p \in Payloads : Enqueue(i, p)
    BY <1>1, <1>3, EnqueueKeeps
  <1>4. CASE \E resilient \in BOOLEAN : StartPass(resilient)
    BY <1>1, <1>4, PassEndsKeeps
  <1>5. CASE WorkerStep
    BY <1>1, <1>5, TakeKeeps, ReceiveKeeps, FilingKeeps, PassEndsKeeps DEF WorkerStep
  <1>6. CASE Timeout \/ WorkerCrash
    BY <1>1, <1>6, GivingUpKeeps
  <1>7. CASE UNCHANGED vars
    <2>1. UNCHANGED storeVars /\ UNCHANGED outboxVars
      BY <1>7 DEF vars
    <2>2. StoreInv'
      BY <1>1, <2>1, StoreStepKeeps DEF DeliveryInv
    <2> QED
      BY <1>1, <2>1, <2>2 DEF storeVars, outboxVars, DeliveryInv, OutboxTypeOK, SentInv,
                             AcceptedInv, PassInv, WaitInv, Awaited, Working
  <1> QED
    BY <1>1, <1>2, <1>3, <1>4, <1>5, <1>6, <1>7 DEF DeliveryNext, Next

\* The outbox with its store: the invariant holds in every reachable state,
\* whatever is timed out, redelivered, refused, pruned or dies.
THEOREM DeliveryInvariant == DeliverySpec => []DeliveryInv
  BY DeliveryInitHolds, DeliveryStepKeeps, PTL DEF DeliverySpec

\* What enqueue accepted is stored, pending or quarantined for ever: no pass,
\* late answer, pruned marker or death between two files loses it.
THEOREM AcceptedIsKept == DeliverySpec => []NothingIsLost
  <1>1. DeliveryInv => NothingIsLost
    <2>1. SUFFICES ASSUME DeliveryInv, NEW item \in accepted
                   PROVE  \/ Stored(item)
                          \/ pending[item.id] = item.payload
                          \/ quarantined[item.id] = item.payload
      BY DEF NothingIsLost
    <2>2. CASE item \in answered
      <3>1. AnsweredIsStored
        BY <2>1, InvAnswers DEF DeliveryInv
      <3> QED
        BY <2>2, <3>1 DEF AnsweredIsStored, Stored
    <2> QED
      BY <2>1, <2>2 DEF DeliveryInv, AcceptedInv
  <1> QED
    BY <1>1, DeliveryInvariant, PTL

\* Redelivery by the outbox, its timeouts and its deaths never put a run into
\* the history twice, and what the store answered stays true under them.
THEOREM DeliveredOnce == DeliverySpec => [](RunIsUnique /\ AnsweredIsStored)
  <1>1. DeliveryInv => RunIsUnique /\ AnsweredIsStored
    BY InvAnswers, InvUnique DEF DeliveryInv
  <1> QED
    BY <1>1, DeliveryInvariant, PTL

=============================================================================
