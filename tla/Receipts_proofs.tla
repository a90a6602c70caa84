--------------------------- MODULE Receipts_proofs ---------------------------
(***************************************************************************)
(* Proofs about Receipts: its invariants hold, exported is final and a     *)
(* stuck receipt stays stuck, for any number of calls and receipts.        *)
(*                                                                         *)
(* What the invariants rest on is what each request of a call has behind   *)
(* it (Stages, Rows); for receipts outside `overlapped', that one call at  *)
(* most is at work (Alone), which finds the category it wrote (Agreed)     *)
(* and, without faults, a receipt not yet appended (Once).                 *)
(***************************************************************************)
EXTENDS Receipts, TLAPS

Answered == {"extracted", "exported", "failed"}
Exporting == {"appending", "recording", "marking"}

Stages == \A c \in Calls :
  /\ pc[c] # "idle" => target[c] \in Receipts
  /\ pc[c] = "extracting" => status[target[c]] = "pending"
  /\ pc[c] = "setting" => status[target[c]] # "none"
  /\ pc[c] = "setting" /\ seen[c] = "usable" => status[target[c]] \in Answered
  /\ pc[c] \in Exporting \cup {"labelling"} => status[target[c]] \in Answered
  /\ pc[c] \in {"inserting", "extracting"} /\ target[c] \in Manual => chosen[c] \in Categories
  /\ pc[c] \in Exporting \cup {"labelling", "setting"} => chosen[c] \in Categories
  /\ pc[c] = "extracting" => \A b \in Calls : pc[b] = "extracting" /\ target[b] = target[c] => b = c

Rows == \A k \in Receipts :
  /\ status[k] \in {"none", "pending"} => data[k] = "none"
  /\ status[k] = "none" => category[k] = None

\* The ledger row comes after the sheet's, the status after both.
Order ==
  /\ \A c \in Calls : pc[c] \in {"recording", "marking"} => sheet[target[c]] > 0
  /\ \A c \in Calls : pc[c] = "marking" => ledger[target[c]] # None
  /\ \A k \in Receipts : ledger[k] # None => sheet[k] > 0

Alone == \A k \in Receipts \ overlapped :
  /\ \A b, c \in Calls : Busy(b, k) /\ Busy(c, k) => b = c
  /\ \A c \in Calls : Busy(c, k) /\ pc[c] # "inserting" => status[k] # "exported"

Agreed == \A c \in Calls : target[c] \notin overlapped =>
  /\ pc[c] = "extracting" => category[target[c]] = None
  /\ pc[c] \in {"appending", "recording"} => category[target[c]] \in {chosen[c], None}
  /\ pc[c] = "marking" => category[target[c]] \in {ledger[target[c]], None}

Unappended(k) == sheet[k] = 0 /\ ledger[k] = None

Done(k) ==
  /\ sheet[k] = 1
  /\ \/ \E c \in Calls : Busy(c, k) /\ pc[c] = "recording" /\ ledger[k] = None
     \/ \E c \in Calls : Busy(c, k) /\ pc[c] = "marking"
     \/ status[k] = "exported"

Once == faults = 0 => \A k \in Receipts \ overlapped : Unappended(k) \/ Done(k)

IndInv ==
  /\ TypeOK /\ Stages /\ Rows /\ Order /\ Alone /\ Agreed /\ Once
  /\ ExportedIsRecorded /\ LedgerAgrees

-----------------------------------------------------------------------------
\* The inductive invariant holds at the start.
LEMMA Initially == Init => IndInv
BY ReceiptsAssumption DEF Init, IndInv, TypeOK, Stages, Rows, Order, Alone, Agreed, Once,
      Unappended,
   ExportedIsRecorded, LedgerAgrees, Busy, Exporting, Data, CallPc

\* What starting a call does.
Started(c, k, to, g, d) ==
  /\ pc[c] = "idle" /\ Begins(c, k, to, g, d)
  /\ \/ to = "inserting" /\ d = "none" /\ (k \in Manual => g \in Categories)
     \/ to = "setting" /\ d = data[k] /\ g \in Categories /\ status[k] \notin {"none", "exported"}

Starts(c) == \E k \in Receipts, to \in {"inserting", "setting"}, g \in Categories \cup {None}, d \in Data :
  Started(c, k, to, g, d)

Continues(c) ==
  \/ Inserted(c) \/ Extracted(c) \/ Labelled(c) \/ Appended(c) \/ AppendedUnseen(c)
  \/ Recorded(c) \/ Marked(c) \/ Refused(c)

\* Every step belongs to a call, and to one of the groups.
LEMMA StepKinds ==
  ASSUME TypeOK, Next
  PROVE  \E c \in Calls : Starts(c) \/ Continues(c) \/ Fails(c)
<1>1. PICK c \in Calls :
        \/ \E k \in Receipts : LookUp(c, k)
        \/ \E k \in Receipts, g \in Categories : ManualEntry(c, k, g) \/ Read(c, k, g)
        \/ Continues(c) \/ Fails(c)
  BY DEF Next, Continues
<1>2. ASSUME NEW k \in Receipts, LookUp(c, k) PROVE Starts(c)
  <2>1. Started(c, k, "inserting", None, "none")  BY <1>2 DEF LookUp, Started
  <2>. QED  BY <2>1 DEF Starts, Data
<1>3. ASSUME NEW k \in Receipts, NEW g \in Categories, ManualEntry(c, k, g) PROVE Starts(c)
  <2>1. Started(c, k, "inserting", g, "none")  BY <1>3 DEF ManualEntry, Started
  <2>. QED  BY <2>1 DEF Starts, Data
<1>4. ASSUME NEW k \in Receipts, NEW g \in Categories, Read(c, k, g) PROVE Starts(c)
  <2>1. Started(c, k, "setting", g, data[k])  BY <1>4 DEF Read, Started
  <2>2. data[k] \in Data  BY DEF TypeOK
  <2>. QED  BY <2>1, <2>2 DEF Starts
<1>. QED  BY <1>1, <1>2, <1>3, <1>4

\* Every request writes values of the type.
LEMMA TypeStep == ASSUME IndInv, [Next]_vars PROVE TypeOK'
<1>0. TypeOK /\ Stages  BY DEF IndInv
<1>1. ASSUME NEW c \in Calls, Starts(c) PROVE TypeOK'
  <2>1. PICK k \in Receipts, to \in {"inserting", "setting"}, g \in Categories \cup {None}, d \in Data :
           Started(c, k, to, g, d)
    BY <1>1 DEF Starts
  <2>. QED  BY <1>0, <2>1, ReceiptsAssumption DEF Started, Begins, Goes, rows, Stages, Answered,
        Exporting, TypeOK, Data, CallPc
<1>2. ASSUME NEW c \in Calls, Continues(c) PROVE TypeOK'
  <2>1. CASE Inserted(c)
    BY <1>0, <2>1, ReceiptsAssumption DEF Inserted, Insert, Goes, Stages, Answered, Exporting,
          TypeOK, Data, CallPc
  <2>2. CASE Extracted(c)
    BY <1>0, <2>2, ReceiptsAssumption DEF Extracted, Extract, Goes, Stages, Answered, Exporting,
          TypeOK, Data, CallPc
  <2>3. CASE Labelled(c)
    BY <1>0, <2>3, ReceiptsAssumption DEF Labelled, Label, Goes, Stages, Answered, Exporting,
          TypeOK, Data, CallPc
  <2>4. CASE Appended(c)
    BY <1>0, <2>4, ReceiptsAssumption DEF Appended, Append, Goes, Stages, Answered, Exporting,
          TypeOK, Data, CallPc
  <2>5. CASE AppendedUnseen(c)
    BY <1>0, <2>5, ReceiptsAssumption DEF AppendedUnseen, Append, call, Goes, Stages, Answered,
          Exporting, TypeOK, Data, CallPc
  <2>6. CASE Recorded(c)
    BY <1>0, <2>6, ReceiptsAssumption DEF Recorded, Record, Goes, Stages, Answered, Exporting,
          TypeOK, Data, CallPc
  <2>7. CASE Marked(c)
    BY <1>0, <2>7, ReceiptsAssumption DEF Marked, Mark, Goes, Stages, Answered, Exporting,
          TypeOK, Data, CallPc
  <2>8. CASE Refused(c)
    BY <1>0, <2>8, ReceiptsAssumption DEF Refused, KeyTaken, AlreadyRecorded, rows, Goes,
          Stages, Answered, Exporting, TypeOK, Data, CallPc
  <2>. QED  BY <1>2, <2>1, <2>2, <2>3, <2>4, <2>5, <2>6, <2>7, <2>8 DEF Continues
<1>3. ASSUME NEW c \in Calls, Fails(c) PROVE TypeOK'
  <2>1. CASE Insert(c, target[c])
    BY <1>0, <1>3, <2>1, ReceiptsAssumption DEF Fails, Insert, Goes, Stages, Answered,
          Exporting, TypeOK, Data, CallPc
  <2>2. CASE Label(c, target[c])
    BY <1>0, <1>3, <2>2, ReceiptsAssumption DEF Fails, Label, Goes, Stages, Answered, Exporting,
          TypeOK, Data, CallPc
  <2>3. CASE Append(c, target[c])
    BY <1>0, <1>3, <2>3, ReceiptsAssumption DEF Fails, Append, Goes, Stages, Answered,
          Exporting, TypeOK, Data, CallPc
  <2>4. CASE Record(c, target[c])
    BY <1>0, <1>3, <2>4, ReceiptsAssumption DEF Fails, Record, Goes, Stages, Answered,
          Exporting, TypeOK, Data, CallPc
  <2>5. CASE Mark(c, target[c])
    BY <1>0, <1>3, <2>5, ReceiptsAssumption DEF Fails, Mark, Goes, Stages, Answered, Exporting,
          TypeOK, Data, CallPc
  <2>6. CASE \E s \in {"extracted", "failed"}, d \in Data : Extract(c, target[c], s, d)
    BY <1>0, <1>3, <2>6, ReceiptsAssumption DEF Fails, Extract, Goes, Stages, Answered,
          Exporting, TypeOK, Data, CallPc
  <2>7. CASE UNCHANGED rows
    <3>1. faults' \in 0..MaxFaults
      BY <1>0, <1>3, ReceiptsAssumption DEF Fails, TypeOK
    <3>2. pc' \in [Calls -> CallPc]
      BY <1>0, <1>3 DEF Fails, Goes, TypeOK, CallPc
    <3>. QED  BY <1>0, <1>3, <2>7, <3>1, <3>2 DEF Fails, rows, TypeOK
  <2>. QED  BY <1>3, <2>1, <2>2, <2>3, <2>4, <2>5, <2>6, <2>7 DEF Fails
<1>4. CASE UNCHANGED vars
  BY <1>0, <1>4 DEF vars, rows, call, Stages, Answered, Exporting, TypeOK, Data, CallPc
<1>. QED  BY <1>0, <1>1, <1>2, <1>3, <1>4, StepKinds

\* What a call has behind it stays so until it goes on.
LEMMA StagesStep == ASSUME IndInv, [Next]_vars PROVE Stages'
<1>0. TypeOK /\ Stages /\ Rows  BY DEF IndInv
<1>t. TypeOK'  BY TypeStep
<1>1. ASSUME NEW c \in Calls, Starts(c) PROVE Stages'
  <2>1. PICK k \in Receipts, to \in {"inserting", "setting"}, g \in Categories \cup {None}, d \in Data :
           Started(c, k, to, g, d)
    BY <1>1 DEF Starts
  <2>. QED  BY <1>0, <1>t, <2>1, ReceiptsAssumption DEF Started, Begins, Goes, rows, Stages,
        Answered, Exporting, TypeOK, Data, CallPc, Rows
<1>2. ASSUME NEW c \in Calls, Continues(c) PROVE Stages'
  <2>1. CASE Inserted(c)
    BY <1>0, <1>t, <2>1, ReceiptsAssumption DEF Inserted, Insert, Goes, Stages, Answered,
          Exporting, TypeOK, Data, CallPc, Rows
  <2>2. CASE Extracted(c)
    BY <1>0, <1>t, <2>2, ReceiptsAssumption DEF Extracted, Extract, Goes, Stages, Answered,
          Exporting, TypeOK, Data, CallPc, Rows
  <2>3. CASE Labelled(c)
    BY <1>0, <1>t, <2>3, ReceiptsAssumption DEF Labelled, Label, Goes, Stages, Answered,
          Exporting, TypeOK, Data, CallPc, Rows
  <2>4. CASE Appended(c)
    BY <1>0, <1>t, <2>4, ReceiptsAssumption DEF Appended, Append, Goes, Stages, Answered,
          Exporting, TypeOK, Data, CallPc, Rows
  <2>5. CASE AppendedUnseen(c)
    BY <1>0, <1>t, <2>5, ReceiptsAssumption DEF AppendedUnseen, Append, call, Goes, Stages,
          Answered, Exporting, TypeOK, Data, CallPc, Rows
  <2>6. CASE Recorded(c)
    BY <1>0, <1>t, <2>6, ReceiptsAssumption DEF Recorded, Record, Goes, Stages, Answered,
          Exporting, TypeOK, Data, CallPc, Rows
  <2>7. CASE Marked(c)
    BY <1>0, <1>t, <2>7, ReceiptsAssumption DEF Marked, Mark, Goes, Stages, Answered, Exporting,
          TypeOK, Data, CallPc, Rows
  <2>8. CASE Refused(c)
    BY <1>0, <1>t, <2>8, ReceiptsAssumption DEF Refused, KeyTaken, AlreadyRecorded, rows, Goes,
          Stages, Answered, Exporting, TypeOK, Data, CallPc, Rows
  <2>. QED  BY <1>2, <2>1, <2>2, <2>3, <2>4, <2>5, <2>6, <2>7, <2>8 DEF Continues
<1>3. ASSUME NEW c \in Calls, Fails(c) PROVE Stages'
  <2>1. CASE Insert(c, target[c])
    BY <1>0, <1>t, <1>3, <2>1, ReceiptsAssumption DEF Fails, Insert, Goes, Stages, Answered,
          Exporting, TypeOK, Data, CallPc, Rows
  <2>2. CASE Label(c, target[c])
    BY <1>0, <1>t, <1>3, <2>2, ReceiptsAssumption DEF Fails, Label, Goes, Stages, Answered,
          Exporting, TypeOK, Data, CallPc, Rows
  <2>3. CASE Append(c, target[c])
    BY <1>0, <1>t, <1>3, <2>3, ReceiptsAssumption DEF Fails, Append, Goes, Stages, Answered,
          Exporting, TypeOK, Data, CallPc, Rows
  <2>4. CASE Record(c, target[c])
    BY <1>0, <1>t, <1>3, <2>4, ReceiptsAssumption DEF Fails, Record, Goes, Stages, Answered,
          Exporting, TypeOK, Data, CallPc, Rows
  <2>5. CASE Mark(c, target[c])
    BY <1>0, <1>t, <1>3, <2>5, ReceiptsAssumption DEF Fails, Mark, Goes, Stages, Answered,
          Exporting, TypeOK, Data, CallPc, Rows
  <2>6. CASE \E s \in {"extracted", "failed"}, d \in Data : Extract(c, target[c], s, d)
    BY <1>0, <1>t, <1>3, <2>6, ReceiptsAssumption DEF Fails, Extract, Goes, Stages, Answered,
          Exporting, TypeOK, Data, CallPc, Rows
  <2>7. CASE UNCHANGED rows
    BY <1>0, <1>t, <1>3, <2>7 DEF Fails, rows, Goes, Stages, Answered, Exporting, TypeOK, Data,
          CallPc, Rows
  <2>. QED  BY <1>3, <2>1, <2>2, <2>3, <2>4, <2>5, <2>6, <2>7 DEF Fails
<1>4. CASE UNCHANGED vars
  BY <1>0, <1>4 DEF vars, rows, call, Stages, Answered, Exporting, TypeOK, Data, CallPc, Rows
<1>. QED  BY <1>0, <1>1, <1>2, <1>3, <1>4, StepKinds

\* What was not extracted has no data.
LEMMA RowsStep == ASSUME IndInv, [Next]_vars PROVE Rows'
<1>0. TypeOK /\ Stages /\ Rows  BY DEF IndInv
<1>t. TypeOK'  BY TypeStep
<1>1. ASSUME NEW c \in Calls, Starts(c) PROVE Rows'
  <2>1. PICK k \in Receipts, to \in {"inserting", "setting"}, g \in Categories \cup {None}, d \in Data :
           Started(c, k, to, g, d)
    BY <1>1 DEF Starts
  <2>. QED  BY <1>0, <1>t, <2>1, ReceiptsAssumption DEF Started, Begins, Goes, rows, Stages,
        Answered, Exporting, TypeOK, Data, CallPc, Rows
<1>2. ASSUME NEW c \in Calls, Continues(c) PROVE Rows'
  <2>1. CASE Inserted(c)
    BY <1>0, <1>t, <2>1, ReceiptsAssumption DEF Inserted, Insert, Goes, Stages, Answered,
          Exporting, TypeOK, Data, CallPc, Rows
  <2>2. CASE Extracted(c)
    BY <1>0, <1>t, <2>2, ReceiptsAssumption DEF Extracted, Extract, Goes, Stages, Answered,
          Exporting, TypeOK, Data, CallPc, Rows
  <2>3. CASE Labelled(c)
    BY <1>0, <1>t, <2>3, ReceiptsAssumption DEF Labelled, Label, Goes, Stages, Answered,
          Exporting, TypeOK, Data, CallPc, Rows
  <2>4. CASE Appended(c)
    BY <1>0, <1>t, <2>4, ReceiptsAssumption DEF Appended, Append, Goes, Stages, Answered,
          Exporting, TypeOK, Data, CallPc, Rows
  <2>5. CASE AppendedUnseen(c)
    BY <1>0, <1>t, <2>5, ReceiptsAssumption DEF AppendedUnseen, Append, call, Goes, Stages,
          Answered, Exporting, TypeOK, Data, CallPc, Rows
  <2>6. CASE Recorded(c)
    BY <1>0, <1>t, <2>6, ReceiptsAssumption DEF Recorded, Record, Goes, Stages, Answered,
          Exporting, TypeOK, Data, CallPc, Rows
  <2>7. CASE Marked(c)
    BY <1>0, <1>t, <2>7, ReceiptsAssumption DEF Marked, Mark, Goes, Stages, Answered, Exporting,
          TypeOK, Data, CallPc, Rows
  <2>8. CASE Refused(c)
    BY <1>0, <1>t, <2>8, ReceiptsAssumption DEF Refused, KeyTaken, AlreadyRecorded, rows, Goes,
          Stages, Answered, Exporting, TypeOK, Data, CallPc, Rows
  <2>. QED  BY <1>2, <2>1, <2>2, <2>3, <2>4, <2>5, <2>6, <2>7, <2>8 DEF Continues
<1>3. ASSUME NEW c \in Calls, Fails(c) PROVE Rows'
  <2>1. CASE Insert(c, target[c])
    BY <1>0, <1>t, <1>3, <2>1, ReceiptsAssumption DEF Fails, Insert, Goes, Stages, Answered,
          Exporting, TypeOK, Data, CallPc, Rows
  <2>2. CASE Label(c, target[c])
    BY <1>0, <1>t, <1>3, <2>2, ReceiptsAssumption DEF Fails, Label, Goes, Stages, Answered,
          Exporting, TypeOK, Data, CallPc, Rows
  <2>3. CASE Append(c, target[c])
    BY <1>0, <1>t, <1>3, <2>3, ReceiptsAssumption DEF Fails, Append, Goes, Stages, Answered,
          Exporting, TypeOK, Data, CallPc, Rows
  <2>4. CASE Record(c, target[c])
    BY <1>0, <1>t, <1>3, <2>4, ReceiptsAssumption DEF Fails, Record, Goes, Stages, Answered,
          Exporting, TypeOK, Data, CallPc, Rows
  <2>5. CASE Mark(c, target[c])
    BY <1>0, <1>t, <1>3, <2>5, ReceiptsAssumption DEF Fails, Mark, Goes, Stages, Answered,
          Exporting, TypeOK, Data, CallPc, Rows
  <2>6. CASE \E s \in {"extracted", "failed"}, d \in Data : Extract(c, target[c], s, d)
    BY <1>0, <1>t, <1>3, <2>6, ReceiptsAssumption DEF Fails, Extract, Goes, Stages, Answered,
          Exporting, TypeOK, Data, CallPc, Rows
  <2>7. CASE UNCHANGED rows
    BY <1>0, <1>t, <1>3, <2>7 DEF Fails, rows, Goes, Stages, Answered, Exporting, TypeOK, Data,
          CallPc, Rows
  <2>. QED  BY <1>3, <2>1, <2>2, <2>3, <2>4, <2>5, <2>6, <2>7 DEF Fails
<1>4. CASE UNCHANGED vars
  BY <1>0, <1>4 DEF vars, rows, call, Stages, Answered, Exporting, TypeOK, Data, CallPc, Rows
<1>. QED  BY <1>0, <1>1, <1>2, <1>3, <1>4, StepKinds

\* The requests of an export are written in order.
LEMMA OrderStep == ASSUME IndInv, [Next]_vars PROVE Order'
<1>0. TypeOK /\ Stages /\ Order  BY DEF IndInv
<1>t. TypeOK'  BY TypeStep
<1>1. ASSUME NEW c \in Calls, Starts(c) PROVE Order'
  <2>1. PICK k \in Receipts, to \in {"inserting", "setting"}, g \in Categories \cup {None}, d \in Data :
           Started(c, k, to, g, d)
    BY <1>1 DEF Starts
  <2>. QED  BY <1>0, <1>t, <2>1, ReceiptsAssumption DEF Started, Begins, Goes, rows, Stages,
        Answered, Exporting, TypeOK, Data, CallPc, Order
<1>2. ASSUME NEW c \in Calls, Continues(c) PROVE Order'
  <2>1. CASE Inserted(c)
    BY <1>0, <1>t, <2>1, ReceiptsAssumption DEF Inserted, Insert, Goes, Stages, Answered,
          Exporting, TypeOK, Data, CallPc, Order
  <2>2. CASE Extracted(c)
    BY <1>0, <1>t, <2>2, ReceiptsAssumption DEF Extracted, Extract, Goes, Stages, Answered,
          Exporting, TypeOK, Data, CallPc, Order
  <2>3. CASE Labelled(c)
    BY <1>0, <1>t, <2>3, ReceiptsAssumption DEF Labelled, Label, Goes, Stages, Answered,
          Exporting, TypeOK, Data, CallPc, Order
  <2>4. CASE Appended(c)
    BY <1>0, <1>t, <2>4, ReceiptsAssumption DEF Appended, Append, Goes, Stages, Answered,
          Exporting, TypeOK, Data, CallPc, Order
  <2>5. CASE AppendedUnseen(c)
    BY <1>0, <1>t, <2>5, ReceiptsAssumption DEF AppendedUnseen, Append, call, Goes, Stages,
          Answered, Exporting, TypeOK, Data, CallPc, Order
  <2>6. CASE Recorded(c)
    BY <1>0, <1>t, <2>6, ReceiptsAssumption DEF Recorded, Record, Goes, Stages, Answered,
          Exporting, TypeOK, Data, CallPc, Order
  <2>7. CASE Marked(c)
    BY <1>0, <1>t, <2>7, ReceiptsAssumption DEF Marked, Mark, Goes, Stages, Answered, Exporting,
          TypeOK, Data, CallPc, Order
  <2>8. CASE Refused(c)
    BY <1>0, <1>t, <2>8, ReceiptsAssumption DEF Refused, KeyTaken, AlreadyRecorded, rows, Goes,
          Stages, Answered, Exporting, TypeOK, Data, CallPc, Order
  <2>. QED  BY <1>2, <2>1, <2>2, <2>3, <2>4, <2>5, <2>6, <2>7, <2>8 DEF Continues
<1>3. ASSUME NEW c \in Calls, Fails(c) PROVE Order'
  <2>1. CASE Insert(c, target[c])
    BY <1>0, <1>t, <1>3, <2>1, ReceiptsAssumption DEF Fails, Insert, Goes, Stages, Answered,
          Exporting, TypeOK, Data, CallPc, Order
  <2>2. CASE Label(c, target[c])
    BY <1>0, <1>t, <1>3, <2>2, ReceiptsAssumption DEF Fails, Label, Goes, Stages, Answered,
          Exporting, TypeOK, Data, CallPc, Order
  <2>3. CASE Append(c, target[c])
    BY <1>0, <1>t, <1>3, <2>3, ReceiptsAssumption DEF Fails, Append, Goes, Stages, Answered,
          Exporting, TypeOK, Data, CallPc, Order
  <2>4. CASE Record(c, target[c])
    BY <1>0, <1>t, <1>3, <2>4, ReceiptsAssumption DEF Fails, Record, Goes, Stages, Answered,
          Exporting, TypeOK, Data, CallPc, Order
  <2>5. CASE Mark(c, target[c])
    BY <1>0, <1>t, <1>3, <2>5, ReceiptsAssumption DEF Fails, Mark, Goes, Stages, Answered,
          Exporting, TypeOK, Data, CallPc, Order
  <2>6. CASE \E s \in {"extracted", "failed"}, d \in Data : Extract(c, target[c], s, d)
    BY <1>0, <1>t, <1>3, <2>6, ReceiptsAssumption DEF Fails, Extract, Goes, Stages, Answered,
          Exporting, TypeOK, Data, CallPc, Order
  <2>7. CASE UNCHANGED rows
    BY <1>0, <1>t, <1>3, <2>7 DEF Fails, rows, Goes, Stages, Answered, Exporting, TypeOK, Data,
          CallPc, Order
  <2>. QED  BY <1>3, <2>1, <2>2, <2>3, <2>4, <2>5, <2>6, <2>7 DEF Fails
<1>4. CASE UNCHANGED vars
  BY <1>0, <1>4 DEF vars, rows, call, Stages, Answered, Exporting, TypeOK, Data, CallPc, Order
<1>. QED  BY <1>0, <1>1, <1>2, <1>3, <1>4, StepKinds

\* Hence what is exported is recorded.
LEMMA ExportedStep == ASSUME IndInv, [Next]_vars PROVE ExportedIsRecorded'
<1>0. TypeOK /\ Stages /\ Order /\ ExportedIsRecorded  BY DEF IndInv
<1>t. TypeOK'  BY TypeStep
<1>1. ASSUME NEW c \in Calls, Starts(c) PROVE ExportedIsRecorded'
  <2>1. PICK k \in Receipts, to \in {"inserting", "setting"}, g \in Categories \cup {None}, d \in Data :
           Started(c, k, to, g, d)
    BY <1>1 DEF Starts
  <2>. QED  BY <1>0, <1>t, <2>1, ReceiptsAssumption DEF Started, Begins, Goes, rows, Stages,
        Answered, Exporting, TypeOK, Data, CallPc, Order, ExportedIsRecorded
<1>2. ASSUME NEW c \in Calls, Continues(c) PROVE ExportedIsRecorded'
  <2>1. CASE Inserted(c)
    BY <1>0, <1>t, <2>1, ReceiptsAssumption DEF Inserted, Insert, Goes, Stages, Answered,
          Exporting, TypeOK, Data, CallPc, Order, ExportedIsRecorded
  <2>2. CASE Extracted(c)
    BY <1>0, <1>t, <2>2, ReceiptsAssumption DEF Extracted, Extract, Goes, Stages, Answered,
          Exporting, TypeOK, Data, CallPc, Order, ExportedIsRecorded
  <2>3. CASE Labelled(c)
    BY <1>0, <1>t, <2>3, ReceiptsAssumption DEF Labelled, Label, Goes, Stages, Answered,
          Exporting, TypeOK, Data, CallPc, Order, ExportedIsRecorded
  <2>4. CASE Appended(c)
    BY <1>0, <1>t, <2>4, ReceiptsAssumption DEF Appended, Append, Goes, Stages, Answered,
          Exporting, TypeOK, Data, CallPc, Order, ExportedIsRecorded
  <2>5. CASE AppendedUnseen(c)
    BY <1>0, <1>t, <2>5, ReceiptsAssumption DEF AppendedUnseen, Append, call, Goes, Stages,
          Answered, Exporting, TypeOK, Data, CallPc, Order, ExportedIsRecorded
  <2>6. CASE Recorded(c)
    BY <1>0, <1>t, <2>6, ReceiptsAssumption DEF Recorded, Record, Goes, Stages, Answered,
          Exporting, TypeOK, Data, CallPc, Order, ExportedIsRecorded
  <2>7. CASE Marked(c)
    BY <1>0, <1>t, <2>7, ReceiptsAssumption DEF Marked, Mark, Goes, Stages, Answered, Exporting,
          TypeOK, Data, CallPc, Order, ExportedIsRecorded
  <2>8. CASE Refused(c)
    BY <1>0, <1>t, <2>8, ReceiptsAssumption DEF Refused, KeyTaken, AlreadyRecorded, rows, Goes,
          Stages, Answered, Exporting, TypeOK, Data, CallPc, Order, ExportedIsRecorded
  <2>. QED  BY <1>2, <2>1, <2>2, <2>3, <2>4, <2>5, <2>6, <2>7, <2>8 DEF Continues
<1>3. ASSUME NEW c \in Calls, Fails(c) PROVE ExportedIsRecorded'
  <2>1. CASE Insert(c, target[c])
    BY <1>0, <1>t, <1>3, <2>1, ReceiptsAssumption DEF Fails, Insert, Goes, Stages, Answered,
          Exporting, TypeOK, Data, CallPc, Order, ExportedIsRecorded
  <2>2. CASE Label(c, target[c])
    BY <1>0, <1>t, <1>3, <2>2, ReceiptsAssumption DEF Fails, Label, Goes, Stages, Answered,
          Exporting, TypeOK, Data, CallPc, Order, ExportedIsRecorded
  <2>3. CASE Append(c, target[c])
    BY <1>0, <1>t, <1>3, <2>3, ReceiptsAssumption DEF Fails, Append, Goes, Stages, Answered,
          Exporting, TypeOK, Data, CallPc, Order, ExportedIsRecorded
  <2>4. CASE Record(c, target[c])
    BY <1>0, <1>t, <1>3, <2>4, ReceiptsAssumption DEF Fails, Record, Goes, Stages, Answered,
          Exporting, TypeOK, Data, CallPc, Order, ExportedIsRecorded
  <2>5. CASE Mark(c, target[c])
    BY <1>0, <1>t, <1>3, <2>5, ReceiptsAssumption DEF Fails, Mark, Goes, Stages, Answered,
          Exporting, TypeOK, Data, CallPc, Order, ExportedIsRecorded
  <2>6. CASE \E s \in {"extracted", "failed"}, d \in Data : Extract(c, target[c], s, d)
    BY <1>0, <1>t, <1>3, <2>6, ReceiptsAssumption DEF Fails, Extract, Goes, Stages, Answered,
          Exporting, TypeOK, Data, CallPc, Order, ExportedIsRecorded
  <2>7. CASE UNCHANGED rows
    BY <1>0, <1>t, <1>3, <2>7 DEF Fails, rows, Goes, Stages, Answered, Exporting, TypeOK, Data,
          CallPc, Order, ExportedIsRecorded
  <2>. QED  BY <1>3, <2>1, <2>2, <2>3, <2>4, <2>5, <2>6, <2>7 DEF Fails
<1>4. CASE UNCHANGED vars
  BY <1>0, <1>4 DEF vars, rows, call, Stages, Answered, Exporting, TypeOK, Data, CallPc, Order,
        ExportedIsRecorded
<1>. QED  BY <1>0, <1>1, <1>2, <1>3, <1>4, StepKinds

\* A second call at work on a receipt is in `overlapped'.
LEMMA AloneStep == ASSUME IndInv, [Next]_vars PROVE Alone'
<1>0. TypeOK /\ Stages /\ Rows /\ Alone  BY DEF IndInv
<1>t. TypeOK'  BY TypeStep
<1>1. ASSUME NEW c \in Calls, Starts(c) PROVE Alone'
  <2>1. PICK k \in Receipts, to \in {"inserting", "setting"}, g \in Categories \cup {None}, d \in Data :
           Started(c, k, to, g, d)
    BY <1>1 DEF Starts
  <2>. QED  BY <1>0, <1>t, <2>1, ReceiptsAssumption DEF Started, Begins, Goes, rows, Stages,
        Answered, Exporting, TypeOK, Data, CallPc, Rows, Alone, Busy
<1>2. ASSUME NEW c \in Calls, Continues(c) PROVE Alone'
  <2>1. CASE Inserted(c)
    <3>1. /\ pc' = [pc EXCEPT ![c] = "extracting"] /\ pc[c] = "inserting"
          /\ status' = [status EXCEPT ![target[c]] = "pending"]
          /\ status[target[c]] = "none" /\ UNCHANGED <<target, overlapped>>
      BY <2>1 DEF Inserted, Insert, Goes
    <3>2. target[c] \in Receipts
      BY <1>0, <3>1 DEF Stages
    <3>3. \A b \in Calls, k \in Receipts : Busy(b, k)' => Busy(b, k)
      BY <1>0, <3>1 DEF TypeOK, Busy
    <3>4. \A k \in Receipts : status'[k] = "exported" => status[k] = "exported" /\ k # target[c]
      BY <1>0, <3>1, <3>2 DEF TypeOK
    <3>5. \A b \in Calls \ {c} : pc'[b] = pc[b]
      BY <1>0, <3>1 DEF TypeOK
    <3>6. \A k \in Receipts : Busy(c, k)' => k = target[c]
      BY <3>1 DEF Busy
    <3>. QED  BY <1>0, <3>1, <3>3, <3>4, <3>5, <3>6 DEF Alone
  <2>2. CASE Extracted(c)
    <3>1. PICK s \in {"extracted", "failed"}, d \in Data : Extract(c, target[c], s, d)
      BY <2>2 DEF Extracted
    <3>2. /\ UNCHANGED <<target, overlapped>>
          /\ \E to \in {"labelling", "appending", "done"} : Goes(c, to)
      BY <2>2 DEF Extracted
    <3>3. PICK to \in {"labelling", "appending", "done"} : pc' = [pc EXCEPT ![c] = to]
      BY <3>2 DEF Goes
    <3>4. pc[c] = "extracting" /\ status' = [status EXCEPT ![target[c]] = s]
      BY <3>1 DEF Extract
    <3>5. target[c] \in Receipts
      BY <1>0, <3>4 DEF Stages
    <3>6. \A b \in Calls, k \in Receipts : Busy(b, k)' => Busy(b, k)
      BY <1>0, <3>2, <3>3, <3>4 DEF TypeOK, Busy
    <3>7. \A k \in Receipts : status'[k] = "exported" => status[k] = "exported" /\ k # target[c]
      BY <1>0, <3>4, <3>5 DEF TypeOK
    <3>8. \A b \in Calls \ {c} : pc'[b] = pc[b]
      BY <1>0, <3>3 DEF TypeOK
    <3>9. \A k \in Receipts : Busy(c, k)' => k = target[c]
      BY <3>2 DEF Busy
    <3>. QED  BY <1>0, <3>2, <3>6, <3>7, <3>8, <3>9 DEF Alone
  <2>3. CASE Labelled(c)
    <3>1. /\ pc[c] \in {"labelling", "setting"} /\ UNCHANGED <<status, target, overlapped>>
          /\ \E to \in {"appending", "done"} : pc' = [pc EXCEPT ![c] = to]
      BY <2>3 DEF Labelled, Label, Goes
    <3>2. \A b \in Calls, k \in Receipts : Busy(b, k)' => Busy(b, k)
      BY <1>0, <3>1 DEF TypeOK, Busy
    <3>3. \A b \in Calls \ {c} : pc'[b] = pc[b]
      BY <1>0, <3>1 DEF TypeOK
    <3>. QED  BY <1>0, <3>1, <3>2, <3>3 DEF Alone
  <2>4. CASE Appended(c)
    BY <1>0, <1>t, <2>4, ReceiptsAssumption DEF Appended, Append, Goes, Stages, Answered,
          Exporting, TypeOK, Data, CallPc, Rows, Alone, Busy
  <2>5. CASE AppendedUnseen(c)
    BY <1>0, <1>t, <2>5, ReceiptsAssumption DEF AppendedUnseen, Append, call, Goes, Stages,
          Answered, Exporting, TypeOK, Data, CallPc, Rows, Alone, Busy
  <2>6. CASE Recorded(c)
    BY <1>0, <1>t, <2>6, ReceiptsAssumption DEF Recorded, Record, Goes, Stages, Answered,
          Exporting, TypeOK, Data, CallPc, Rows, Alone, Busy
  <2>7. CASE Marked(c)
    BY <1>0, <1>t, <2>7, ReceiptsAssumption DEF Marked, Mark, Goes, Stages, Answered, Exporting,
          TypeOK, Data, CallPc, Rows, Alone, Busy
  <2>8. CASE Refused(c)
    BY <1>0, <1>t, <2>8, ReceiptsAssumption DEF Refused, KeyTaken, AlreadyRecorded, rows, Goes,
          Stages, Answered, Exporting, TypeOK, Data, CallPc, Rows, Alone, Busy
  <2>. QED  BY <1>2, <2>1, <2>2, <2>3, <2>4, <2>5, <2>6, <2>7, <2>8 DEF Continues
<1>3. ASSUME NEW c \in Calls, Fails(c) PROVE Alone'
  <2>1. CASE Insert(c, target[c])
    BY <1>0, <1>t, <1>3, <2>1, ReceiptsAssumption DEF Fails, Insert, Goes, Stages, Answered,
          Exporting, TypeOK, Data, CallPc, Rows, Alone, Busy
  <2>2. CASE Label(c, target[c])
    BY <1>0, <1>t, <1>3, <2>2, ReceiptsAssumption DEF Fails, Label, Goes, Stages, Answered,
          Exporting, TypeOK, Data, CallPc, Rows, Alone, Busy
  <2>3. CASE Append(c, target[c])
    BY <1>0, <1>t, <1>3, <2>3, ReceiptsAssumption DEF Fails, Append, Goes, Stages, Answered,
          Exporting, TypeOK, Data, CallPc, Rows, Alone, Busy
  <2>4. CASE Record(c, target[c])
    BY <1>0, <1>t, <1>3, <2>4, ReceiptsAssumption DEF Fails, Record, Goes, Stages, Answered,
          Exporting, TypeOK, Data, CallPc, Rows, Alone, Busy
  <2>5. CASE Mark(c, target[c])
    BY <1>0, <1>t, <1>3, <2>5, ReceiptsAssumption DEF Fails, Mark, Goes, Stages, Answered,
          Exporting, TypeOK, Data, CallPc, Rows, Alone, Busy
  <2>6. CASE \E s \in {"extracted", "failed"}, d \in Data : Extract(c, target[c], s, d)
    BY <1>0, <1>t, <1>3, <2>6, ReceiptsAssumption DEF Fails, Extract, Goes, Stages, Answered,
          Exporting, TypeOK, Data, CallPc, Rows, Alone, Busy
  <2>7. CASE UNCHANGED rows
    BY <1>0, <1>t, <1>3, <2>7 DEF Fails, rows, Goes, Stages, Answered, Exporting, TypeOK, Data,
          CallPc, Rows, Alone, Busy
  <2>. QED  BY <1>3, <2>1, <2>2, <2>3, <2>4, <2>5, <2>6, <2>7 DEF Fails
<1>4. CASE UNCHANGED vars
  BY <1>0, <1>4 DEF vars, rows, call, Stages, Answered, Exporting, TypeOK, Data, CallPc, Rows,
        Alone, Busy
<1>. QED  BY <1>0, <1>1, <1>2, <1>3, <1>4, StepKinds

\* One call alone finds the category it wrote.
LEMMA AgreedStep == ASSUME IndInv, [Next]_vars PROVE Agreed'
<1>0. TypeOK /\ Stages /\ Rows /\ Alone /\ Agreed  BY DEF IndInv
<1>t. TypeOK'  BY TypeStep
<1>1. ASSUME NEW c \in Calls, Starts(c) PROVE Agreed'
  <2>1. PICK k \in Receipts, to \in {"inserting", "setting"}, g \in Categories \cup {None}, d \in Data :
           Started(c, k, to, g, d)
    BY <1>1 DEF Starts
  <2>. QED  BY <1>0, <1>t, <2>1, ReceiptsAssumption DEF Started, Begins, Goes, rows, Stages,
        Answered, Exporting, TypeOK, Data, CallPc, Rows, Alone, Agreed, Busy
<1>2. ASSUME NEW c \in Calls, Continues(c) PROVE Agreed'
  <2>1. CASE Inserted(c)
    BY <1>0, <1>t, <2>1, ReceiptsAssumption DEF Inserted, Insert, Goes, Stages, Answered,
          Exporting, TypeOK, Data, CallPc, Rows, Alone, Agreed, Busy
  <2>2. CASE Extracted(c)
    BY <1>0, <1>t, <2>2, ReceiptsAssumption DEF Extracted, Extract, Goes, Stages, Answered,
          Exporting, TypeOK, Data, CallPc, Rows, Alone, Agreed, Busy
  <2>3. CASE Labelled(c)
    BY <1>0, <1>t, <2>3, ReceiptsAssumption DEF Labelled, Label, Goes, Stages, Answered,
          Exporting, TypeOK, Data, CallPc, Rows, Alone, Agreed, Busy
  <2>4. CASE Appended(c)
    BY <1>0, <1>t, <2>4, ReceiptsAssumption DEF Appended, Append, Goes, Stages, Answered,
          Exporting, TypeOK, Data, CallPc, Rows, Alone, Agreed, Busy
  <2>5. CASE AppendedUnseen(c)
    BY <1>0, <1>t, <2>5, ReceiptsAssumption DEF AppendedUnseen, Append, call, Goes, Stages,
          Answered, Exporting, TypeOK, Data, CallPc, Rows, Alone, Agreed, Busy
  <2>6. CASE Recorded(c)
    BY <1>0, <1>t, <2>6, ReceiptsAssumption DEF Recorded, Record, Goes, Stages, Answered,
          Exporting, TypeOK, Data, CallPc, Rows, Alone, Agreed, Busy
  <2>7. CASE Marked(c)
    BY <1>0, <1>t, <2>7, ReceiptsAssumption DEF Marked, Mark, Goes, Stages, Answered, Exporting,
          TypeOK, Data, CallPc, Rows, Alone, Agreed, Busy
  <2>8. CASE Refused(c)
    BY <1>0, <1>t, <2>8, ReceiptsAssumption DEF Refused, KeyTaken, AlreadyRecorded, rows, Goes,
          Stages, Answered, Exporting, TypeOK, Data, CallPc, Rows, Alone, Agreed, Busy
  <2>. QED  BY <1>2, <2>1, <2>2, <2>3, <2>4, <2>5, <2>6, <2>7, <2>8 DEF Continues
<1>3. ASSUME NEW c \in Calls, Fails(c) PROVE Agreed'
  <2>1. CASE Insert(c, target[c])
    BY <1>0, <1>t, <1>3, <2>1, ReceiptsAssumption DEF Fails, Insert, Goes, Stages, Answered,
          Exporting, TypeOK, Data, CallPc, Rows, Alone, Agreed, Busy
  <2>2. CASE Label(c, target[c])
    BY <1>0, <1>t, <1>3, <2>2, ReceiptsAssumption DEF Fails, Label, Goes, Stages, Answered,
          Exporting, TypeOK, Data, CallPc, Rows, Alone, Agreed, Busy
  <2>3. CASE Append(c, target[c])
    BY <1>0, <1>t, <1>3, <2>3, ReceiptsAssumption DEF Fails, Append, Goes, Stages, Answered,
          Exporting, TypeOK, Data, CallPc, Rows, Alone, Agreed, Busy
  <2>4. CASE Record(c, target[c])
    BY <1>0, <1>t, <1>3, <2>4, ReceiptsAssumption DEF Fails, Record, Goes, Stages, Answered,
          Exporting, TypeOK, Data, CallPc, Rows, Alone, Agreed, Busy
  <2>5. CASE Mark(c, target[c])
    BY <1>0, <1>t, <1>3, <2>5, ReceiptsAssumption DEF Fails, Mark, Goes, Stages, Answered,
          Exporting, TypeOK, Data, CallPc, Rows, Alone, Agreed, Busy
  <2>6. CASE \E s \in {"extracted", "failed"}, d \in Data : Extract(c, target[c], s, d)
    BY <1>0, <1>t, <1>3, <2>6, ReceiptsAssumption DEF Fails, Extract, Goes, Stages, Answered,
          Exporting, TypeOK, Data, CallPc, Rows, Alone, Agreed, Busy
  <2>7. CASE UNCHANGED rows
    BY <1>0, <1>t, <1>3, <2>7 DEF Fails, rows, Goes, Stages, Answered, Exporting, TypeOK, Data,
          CallPc, Rows, Alone, Agreed, Busy
  <2>. QED  BY <1>3, <2>1, <2>2, <2>3, <2>4, <2>5, <2>6, <2>7 DEF Fails
<1>4. CASE UNCHANGED vars
  BY <1>0, <1>4 DEF vars, rows, call, Stages, Answered, Exporting, TypeOK, Data, CallPc, Rows,
        Alone, Agreed, Busy
<1>. QED  BY <1>0, <1>1, <1>2, <1>3, <1>4, StepKinds

\* Hence the ledger has the category of the receipt.
LEMMA LedgerStep == ASSUME IndInv, [Next]_vars PROVE LedgerAgrees'
<1>0. TypeOK /\ Stages /\ Alone /\ Agreed /\ LedgerAgrees  BY DEF IndInv
<1>t. TypeOK'  BY TypeStep
<1>1. ASSUME NEW c \in Calls, Starts(c) PROVE LedgerAgrees'
  <2>1. PICK k \in Receipts, to \in {"inserting", "setting"}, g \in Categories \cup {None}, d \in Data :
           Started(c, k, to, g, d)
    BY <1>1 DEF Starts
  <2>. QED  BY <1>0, <1>t, <2>1, ReceiptsAssumption DEF Started, Begins, Goes, rows, Stages,
        Answered, Exporting, TypeOK, Data, CallPc, Alone, Agreed, LedgerAgrees, Busy
<1>2. ASSUME NEW c \in Calls, Continues(c) PROVE LedgerAgrees'
  <2>1. CASE Inserted(c)
    BY <1>0, <1>t, <2>1, ReceiptsAssumption DEF Inserted, Insert, Goes, Stages, Answered,
          Exporting, TypeOK, Data, CallPc, Alone, Agreed, LedgerAgrees, Busy
  <2>2. CASE Extracted(c)
    BY <1>0, <1>t, <2>2, ReceiptsAssumption DEF Extracted, Extract, Goes, Stages, Answered,
          Exporting, TypeOK, Data, CallPc, Alone, Agreed, LedgerAgrees, Busy
  <2>3. CASE Labelled(c)
    BY <1>0, <1>t, <2>3, ReceiptsAssumption DEF Labelled, Label, Goes, Stages, Answered,
          Exporting, TypeOK, Data, CallPc, Alone, Agreed, LedgerAgrees, Busy
  <2>4. CASE Appended(c)
    BY <1>0, <1>t, <2>4, ReceiptsAssumption DEF Appended, Append, Goes, Stages, Answered,
          Exporting, TypeOK, Data, CallPc, Alone, Agreed, LedgerAgrees, Busy
  <2>5. CASE AppendedUnseen(c)
    BY <1>0, <1>t, <2>5, ReceiptsAssumption DEF AppendedUnseen, Append, call, Goes, Stages,
          Answered, Exporting, TypeOK, Data, CallPc, Alone, Agreed, LedgerAgrees, Busy
  <2>6. CASE Recorded(c)
    BY <1>0, <1>t, <2>6, ReceiptsAssumption DEF Recorded, Record, Goes, Stages, Answered,
          Exporting, TypeOK, Data, CallPc, Alone, Agreed, LedgerAgrees, Busy
  <2>7. CASE Marked(c)
    BY <1>0, <1>t, <2>7, ReceiptsAssumption DEF Marked, Mark, Goes, Stages, Answered, Exporting,
          TypeOK, Data, CallPc, Alone, Agreed, LedgerAgrees, Busy
  <2>8. CASE Refused(c)
    BY <1>0, <1>t, <2>8, ReceiptsAssumption DEF Refused, KeyTaken, AlreadyRecorded, rows, Goes,
          Stages, Answered, Exporting, TypeOK, Data, CallPc, Alone, Agreed, LedgerAgrees, Busy
  <2>. QED  BY <1>2, <2>1, <2>2, <2>3, <2>4, <2>5, <2>6, <2>7, <2>8 DEF Continues
<1>3. ASSUME NEW c \in Calls, Fails(c) PROVE LedgerAgrees'
  <2>1. CASE Insert(c, target[c])
    BY <1>0, <1>t, <1>3, <2>1, ReceiptsAssumption DEF Fails, Insert, Goes, Stages, Answered,
          Exporting, TypeOK, Data, CallPc, Alone, Agreed, LedgerAgrees, Busy
  <2>2. CASE Label(c, target[c])
    BY <1>0, <1>t, <1>3, <2>2, ReceiptsAssumption DEF Fails, Label, Goes, Stages, Answered,
          Exporting, TypeOK, Data, CallPc, Alone, Agreed, LedgerAgrees, Busy
  <2>3. CASE Append(c, target[c])
    BY <1>0, <1>t, <1>3, <2>3, ReceiptsAssumption DEF Fails, Append, Goes, Stages, Answered,
          Exporting, TypeOK, Data, CallPc, Alone, Agreed, LedgerAgrees, Busy
  <2>4. CASE Record(c, target[c])
    BY <1>0, <1>t, <1>3, <2>4, ReceiptsAssumption DEF Fails, Record, Goes, Stages, Answered,
          Exporting, TypeOK, Data, CallPc, Alone, Agreed, LedgerAgrees, Busy
  <2>5. CASE Mark(c, target[c])
    BY <1>0, <1>t, <1>3, <2>5, ReceiptsAssumption DEF Fails, Mark, Goes, Stages, Answered,
          Exporting, TypeOK, Data, CallPc, Alone, Agreed, LedgerAgrees, Busy
  <2>6. CASE \E s \in {"extracted", "failed"}, d \in Data : Extract(c, target[c], s, d)
    BY <1>0, <1>t, <1>3, <2>6, ReceiptsAssumption DEF Fails, Extract, Goes, Stages, Answered,
          Exporting, TypeOK, Data, CallPc, Alone, Agreed, LedgerAgrees, Busy
  <2>7. CASE UNCHANGED rows
    BY <1>0, <1>t, <1>3, <2>7 DEF Fails, rows, Goes, Stages, Answered, Exporting, TypeOK, Data,
          CallPc, Alone, Agreed, LedgerAgrees, Busy
  <2>. QED  BY <1>3, <2>1, <2>2, <2>3, <2>4, <2>5, <2>6, <2>7 DEF Fails
<1>4. CASE UNCHANGED vars
  BY <1>0, <1>4 DEF vars, rows, call, Stages, Answered, Exporting, TypeOK, Data, CallPc, Alone,
        Agreed, LedgerAgrees, Busy
<1>. QED  BY <1>0, <1>1, <1>2, <1>3, <1>4, StepKinds

\* Without faults a receipt that one call at a time works on is appended once.
LEMMA OnceStep == ASSUME IndInv, [Next]_vars PROVE Once'
<1>0. TypeOK /\ Stages /\ Order /\ Alone /\ Once  BY DEF IndInv
<1>t. TypeOK'  BY TypeStep
<1>f. ASSUME faults < MaxFaults, faults' = faults + 1 PROVE Once'
  <2>1. faults' # 0  BY <1>0, <1>f DEF TypeOK
  <2>. QED  BY <2>1 DEF Once
<1>1. ASSUME NEW c \in Calls, Starts(c) PROVE Once'
  <2>1. PICK k \in Receipts, to \in {"inserting", "setting"}, g \in Categories \cup {None}, d \in Data :
           Started(c, k, to, g, d)
    BY <1>1 DEF Starts
  <2>. QED  BY <1>0, <2>1 DEF Started, Begins, Goes, rows, Once, Unappended, Done, Busy, TypeOK
<1>2. ASSUME NEW c \in Calls, Inserted(c) \/ Extracted(c) \/ Labelled(c) PROVE Once'
  <2>1. /\ UNCHANGED <<sheet, ledger, target, overlapped, faults>>
        /\ pc[c] \notin {"recording", "marking"}
        /\ \A b \in Calls \ {c} : pc'[b] = pc[b]
        /\ \A k \in Receipts : status[k] = "exported" => status'[k] = "exported"
    <3>1. CASE Inserted(c)
      BY <1>0, <3>1 DEF Inserted, Insert, Goes, Stages, TypeOK
    <3>2. CASE Extracted(c)
      <4>1. PICK s \in {"extracted", "failed"}, d \in Data : Extract(c, target[c], s, d)
        BY <3>2 DEF Extracted
      <4>2. /\ UNCHANGED <<target, overlapped, faults>>
            /\ \E to \in {"labelling", "appending", "done"} : Goes(c, to)
        BY <3>2 DEF Extracted
      <4>3. /\ UNCHANGED <<sheet, ledger>> /\ pc[c] = "extracting"
            /\ status' = [status EXCEPT ![target[c]] = s]
        BY <4>1 DEF Extract
      <4>4. target[c] \in Receipts /\ status[target[c]] # "exported"
        BY <1>0, <4>3 DEF Stages
      <4>5. \A k \in Receipts : status[k] = "exported" => status'[k] = "exported"
        BY <1>0, <4>3, <4>4 DEF TypeOK
      <4>6. \A b \in Calls \ {c} : pc'[b] = pc[b]
        BY <1>0, <4>2 DEF Goes, TypeOK
      <4>. QED  BY <4>2, <4>3, <4>5, <4>6
    <3>3. CASE Labelled(c)
      BY <1>0, <3>3 DEF Labelled, Label, Goes, Stages, TypeOK
    <3>. QED  BY <1>2, <3>1, <3>2, <3>3
  <2>. QED  BY <1>0, <2>1 DEF Once, Unappended, Done, Busy
<1>3. ASSUME NEW c \in Calls, Appended(c) PROVE Once'
  <2>1. /\ pc[c] = "appending" /\ target[c] \in Receipts /\ Busy(c, target[c])
        /\ pc' = [pc EXCEPT ![c] = "recording"]
        /\ UNCHANGED <<status, ledger, target, overlapped, faults>>
    BY <1>0, <1>3 DEF Appended, Append, Goes, Stages, Busy
  <2>2. ASSUME faults = 0, NEW k \in Receipts \ overlapped
        PROVE  Unappended(k)' \/ Done(k)'
    <3>1. CASE k = target[c]
      <4>1. status[k] # "exported" /\ \A b \in Calls : Busy(b, k) => b = c
        BY <1>0, <2>1, <3>1 DEF Alone
      <4>2. sheet[k] = 0 /\ ledger[k] = None
        BY <1>0, <2>1, <2>2, <4>1 DEF Once, Unappended, Done
      <4>3. sheet'[k] = 1
        BY <1>0, <1>3, <3>1, <4>2 DEF Appended, Append, TypeOK
      <4>4. Busy(c, k)' /\ pc'[c] = "recording" /\ ledger'[k] = None
        BY <1>0, <2>1, <3>1, <4>2 DEF Busy, TypeOK
      <4>. QED  BY <4>3, <4>4 DEF Done
    <3>2. CASE k # target[c]
      <4>1. sheet'[k] = sheet[k]
        BY <1>0, <1>3, <3>2 DEF Appended, Append, TypeOK
      <4>. QED  BY <1>0, <2>1, <2>2, <3>2, <4>1 DEF Once, Unappended, Done, Busy, TypeOK
    <3>. QED  BY <3>1, <3>2
  <2>. QED  BY <2>1, <2>2 DEF Once
<1>4. ASSUME NEW c \in Calls, Recorded(c) PROVE Once'
  <2>1. target[c] \in Receipts /\ sheet[target[c]] # 0
    BY <1>0, <1>4 DEF Recorded, Record, Stages, Order
  <2>. QED  BY <1>0, <1>4, <2>1 DEF Recorded, Record, Goes, Once, Unappended, Done, Busy, TypeOK
<1>5. ASSUME NEW c \in Calls, Marked(c) PROVE Once'
  BY <1>0, <1>5 DEF Marked, Mark, Goes, Once, Unappended, Done, Busy, Stages, TypeOK
<1>6. ASSUME NEW c \in Calls, Refused(c) PROVE Once'
  <2>1. /\ UNCHANGED <<rows, target, overlapped, faults>>
        /\ pc' = [pc EXCEPT ![c] = "done"]
        /\ \/ pc[c] = "inserting"
           \/ pc[c] = "recording" /\ ledger[target[c]] # None
    BY <1>6 DEF Refused, KeyTaken, AlreadyRecorded, Goes
  <2>. QED  BY <1>0, <2>1 DEF rows, Once, Unappended, Done, Busy, TypeOK
<1>7. ASSUME NEW c \in Calls, AppendedUnseen(c) \/ Fails(c) PROVE Once'
  BY <1>f, <1>7 DEF AppendedUnseen, Fails
<1>8. CASE UNCHANGED vars
  BY <1>0, <1>8 DEF vars, rows, call, Once, Unappended, Done, Busy
<1>9. ASSUME NEW c \in Calls, Continues(c) PROVE Once'
  BY <1>2, <1>3, <1>4, <1>5, <1>6, <1>7, <1>9 DEF Continues
<1>. QED  BY <1>0, <1>1, <1>7, <1>8, <1>9, StepKinds

-----------------------------------------------------------------------------
\* Hence the inductive invariant holds throughout.
LEMMA Inductive == Spec => []IndInv
<1>1. IndInv /\ [Next]_vars => IndInv'
  BY TypeStep, StagesStep, RowsStep, OrderStep, AloneStep, AgreedStep, OnceStep, ExportedStep,
        LedgerStep DEF IndInv
<1>. QED  BY Initially, <1>1, PTL DEF Spec

\* Every variable keeps its type: no call writes a status there is none of.
THEOREM TypeCorrect == Spec => []TypeOK
<1>1. IndInv => TypeOK  BY DEF IndInv
<1>. QED  BY Inductive, <1>1, PTL

\* What says exported is in the ledger and on the sheet.
THEOREM ExportedRecorded == Spec => []ExportedIsRecorded
<1>1. IndInv => ExportedIsRecorded  BY DEF IndInv
<1>. QED  BY Inductive, <1>1, PTL

\* Without faults and overlapping calls a receipt is appended at most once.
THEOREM AppendedOnceAlone == Spec => []AppendedOnceApart
<1>1. IndInv => AppendedOnceApart
  BY DEF IndInv, Once, Unappended, Done, AppendedOnceApart, TypeOK
<1>. QED  BY Inductive, <1>1, PTL

\* The ledger agrees with the receipt on the category it was exported with.
THEOREM LedgerAgreed == Spec => []LedgerAgrees
<1>1. IndInv => LedgerAgrees  BY DEF IndInv
<1>. QED  BY Inductive, <1>1, PTL

-----------------------------------------------------------------------------
\* What a call of any kind does to the status and the ledger of a receipt.
LEMMA StatusStep ==
  ASSUME IndInv, [Next]_vars, NEW k \in Receipts
  PROVE  /\ status[k] = "exported" => status'[k] = "exported"
         /\ Stuck(k) => Stuck(k)'
<1>0. TypeOK /\ Stages  BY DEF IndInv
<1>1. ASSUME NEW c \in Calls, Starts(c)
      PROVE  (status[k] = "exported" => status'[k] = "exported") /\ (Stuck(k) => Stuck(k)')
  <2>1. PICK q \in Receipts, to \in {"inserting", "setting"}, g \in Categories \cup {None}, d \in Data :
           Started(c, q, to, g, d)
    BY <1>1 DEF Starts
  <2>. QED  BY <1>0, <2>1 DEF Started, Begins, Goes, rows, Stuck, Busy, TypeOK
<1>2. ASSUME NEW c \in Calls, Continues(c)
      PROVE  (status[k] = "exported" => status'[k] = "exported") /\ (Stuck(k) => Stuck(k)')
  <2>1. CASE Inserted(c) \/ Labelled(c)
    BY <1>0, <2>1 DEF Inserted, Insert, Labelled, Label, Goes, Stages, Stuck, Busy, TypeOK
  <2>2. CASE Extracted(c)
    <3>1. PICK s \in {"extracted", "failed"}, d \in Data : Extract(c, target[c], s, d)
      BY <2>2 DEF Extracted
    <3>2. PICK to \in {"labelling", "appending", "done"} : Goes(c, to)
      BY <2>2 DEF Extracted
    <3>3. target' = target
      BY <2>2 DEF Extracted
    <3>. QED  BY <1>0, <3>1, <3>2, <3>3 DEF Extract, Goes, Stages, Stuck, Busy, TypeOK
  <2>3. CASE Appended(c) \/ AppendedUnseen(c)
    BY <1>0, <2>3 DEF Appended, AppendedUnseen, Append, call, Goes, Stages, Stuck, Busy, TypeOK
  <2>4. CASE Recorded(c) \/ Marked(c)
    BY <1>0, <2>4 DEF Recorded, Record, Marked, Mark, Goes, Stages, Stuck, Busy, TypeOK
  <2>5. CASE Refused(c)
    BY <1>0, <2>5 DEF Refused, rows, Goes, Stuck, Busy, TypeOK
  <2>. QED  BY <1>2, <2>1, <2>2, <2>3, <2>4, <2>5 DEF Continues
<1>3. ASSUME NEW c \in Calls, Fails(c)
      PROVE  (status[k] = "exported" => status'[k] = "exported") /\ (Stuck(k) => Stuck(k)')
  <2>1. pc' = [pc EXCEPT ![c] = "done"] /\ target' = target
    BY <1>3 DEF Fails, Goes
  <2>2. CASE UNCHANGED rows \/ Append(c, target[c]) \/ Label(c, target[c])
    BY <1>0, <2>1, <2>2 DEF rows, Append, Label, Stuck, Busy, TypeOK
  <2>3. CASE Insert(c, target[c]) \/ \E s \in {"extracted", "failed"}, d \in Data : Extract(c, target[c], s, d)
    BY <1>0, <2>1, <2>3 DEF Insert, Extract, Stages, Stuck, Busy, TypeOK
  <2>4. CASE Record(c, target[c])
    BY <1>0, <1>3, <2>1, <2>4 DEF Fails, Record, Stages, Stuck, Busy, TypeOK
  <2>5. CASE Mark(c, target[c])
    BY <1>0, <1>3, <2>1, <2>5 DEF Fails, Mark, Stages, Stuck, Busy, TypeOK
  <2>. QED  BY <1>3, <2>2, <2>3, <2>4, <2>5 DEF Fails
<1>4. CASE UNCHANGED vars
  BY <1>4 DEF vars, rows, call, Stuck, Busy
<1>. QED  BY <1>0, <1>1, <1>2, <1>3, <1>4, StepKinds

ExportedKept == \A k \in Receipts : status[k] = "exported" => status'[k] = "exported"
StuckKept == \A k \in Receipts : Stuck(k) => Stuck(k)'

\* No call takes back the status of an exported receipt.
THEOREM ExportedForGood == Spec => ExportedStays
<1>1. IndInv /\ [Next]_vars => [ExportedKept]_vars  BY StatusStep DEF ExportedKept
<1>2. [][ExportedKept]_vars => ExportedStays  BY PTL DEF ExportedKept, ExportedStays
<1>. QED  BY Inductive, <1>1, <1>2, PTL DEF Spec

\* No call frees a receipt whose export stopped after its ledger row.
THEOREM StuckStays == Spec => StuckForGood
<1>1. IndInv /\ [Next]_vars => [StuckKept]_vars  BY StatusStep DEF StuckKept
<1>2. [][StuckKept]_vars => StuckForGood  BY PTL DEF StuckKept, StuckForGood
<1>. QED  BY Inductive, <1>1, <1>2, PTL DEF Spec

==============================================================================
