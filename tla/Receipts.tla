------------------------------ MODULE Receipts ------------------------------
(***************************************************************************)
(* The bookkeeping sub-agent (services/subagents/bookkeeping and           *)
(* receipt-extraction.repository.ts): receipts are extracted by a vision   *)
(* model, given a category, and appended as a row to a Google Sheet.       *)
(*                                                                         *)
(* A call is one tool call of the assistant.  Those of one inbound event   *)
(* run one after the other, those of different events interleave at every  *)
(* await; nothing locks a receipt.  Every database or sheet request may    *)
(* fail, applied or not, and ends the call: so does a crash of the server. *)
(* get_pending only reads.                                                 *)
(***************************************************************************)
EXTENDS Naturals

CONSTANTS
  Calls,       \* tool calls, each made once (a bound)
  Receipts,    \* idempotency keys, hence receipts
  Manual,      \* those of manual entries
  Categories,
  None,        \* no category, no receipt
  MaxFaults    \* bound: failed requests

ASSUME ReceiptsAssumption ==
  /\ Manual \subseteq Receipts
  /\ None \notin Receipts \cup Categories
  /\ MaxFaults \in Nat

VARIABLES
  status,    \* ReceiptExtraction.status; "none" without a row
  data,      \* extractedData: does it hold an amount that validateAmount takes?
  category,  \* ReceiptExtraction.category
  ledger,    \* the category in the receipt's LedgerExport row, unique per receipt
  sheet,     \* sheet[k]: rows of the sheet with this receiptTaskId
  pc, target, chosen, seen,   \* a call: its next request, its receipt, the
             \* category it goes by, the data it read
  overlapped,  \* history: the receipts two calls have worked on at once
  faults

rows == <<status, data, category, ledger, sheet>>
call == <<pc, target, chosen, seen>>
vars == <<rows, call, overlapped, faults>>

Data   == {"none", "unusable", "usable"}
CallPc == {"idle", "inserting", "extracting", "labelling", "setting",
           "appending", "recording", "marking", "done"}

Busy(c, k) == target[c] = k /\ pc[c] \notin {"idle", "done"}

Goes(c, to) == pc' = [pc EXCEPT ![c] = to]

\* A call that goes on to work on receipt k, with category g and data d in hand.
Begins(c, k, to, g, d) ==
  /\ Goes(c, to)
  /\ target' = [target EXCEPT ![c] = k]
  /\ chosen' = [chosen EXCEPT ![c] = g]
  /\ seen' = [seen EXCEPT ![c] = d]
  /\ overlapped' = IF \E b \in Calls : Busy(b, k) THEN overlapped \cup {k} ELSE overlapped
  /\ UNCHANGED <<rows, faults>>

-----------------------------------------------------------------------------
Init ==
  /\ status = [k \in Receipts |-> "none"]
  /\ data = [k \in Receipts |-> "none"]
  /\ category = [k \in Receipts |-> None]
  /\ ledger = [k \in Receipts |-> None]
  /\ sheet = [k \in Receipts |-> 0]
  /\ pc = [c \in Calls |-> "idle"]
  /\ target = [c \in Calls |-> None]
  /\ chosen = [c \in Calls |-> None]
  /\ seen = [c \in Calls |-> "none"]
  /\ overlapped = {}
  /\ faults = 0

\* process_receipt looks the key up; what is exported or waits for a category is
\* reported as it is and ends the call.
LookUp(c, k) ==
  /\ pc[c] = "idle" /\ k \notin Manual
  /\ status[k] # "exported"
  /\ ~(status[k] = "extracted" /\ category[k] = None)
  /\ Begins(c, k, "inserting", None, "none")

ManualEntry(c, k, g) ==
  /\ pc[c] = "idle" /\ k \in Manual
  /\ Begins(c, k, "inserting", g, "none")

\* Mutants (M...): the definition that follows, with a plausible bug.
MReadExported(c, k, g) ==
  /\ pc[c] = "idle" /\ status[k] # "none"
  /\ Begins(c, k, "setting", g, data[k])

\* set_category reads the receipt: the newest of the conversation that has no
\* category, or any the call names.  An exported one is left alone.
Read(c, k, g) ==
  /\ pc[c] = "idle" /\ status[k] \notin {"none", "exported"}
  /\ Begins(c, k, "setting", g, data[k])

-----------------------------------------------------------------------------
(* The requests of a call under way: what each writes, and what follows.   *)

\* An insert whose key exists throws and ends the call.
Insert(c, k) ==
  /\ pc[c] = "inserting" /\ status[k] = "none"
  /\ status' = [status EXCEPT ![k] = "pending"]
  /\ UNCHANGED <<data, category, ledger, sheet>>

KeyTaken(c, k) == pc[c] = "inserting" /\ status[k] # "none"

\* The vision model answers and the answer is stored, or there is no receipt in
\* the image: then the data may be stored too, with an amount of 0 at best.
Extract(c, k, s, d) ==
  /\ pc[c] = "extracting"
  /\ IF k \in Manual THEN s = "extracted" /\ d = "usable"
     ELSE <<s, d>> \in ({"extracted"} \X {"usable", "unusable"}) \cup ({"failed"} \X Data)
  /\ status' = [status EXCEPT ![k] = s]
  /\ data' = [data EXCEPT ![k] = d]
  /\ UNCHANGED <<category, ledger, sheet>>

\* setCategory, in process_receipt and manual_entry (labelling) or set_category.
MLabelKeeps(c, k) ==
  /\ pc[c] \in {"labelling", "setting"}
  /\ category' = [category EXCEPT ![k] = IF @ = None THEN chosen[c] ELSE @]
  /\ UNCHANGED <<status, data, ledger, sheet>>

MLabelReopens(c, k) ==
  /\ pc[c] \in {"labelling", "setting"}
  /\ category' = [category EXCEPT ![k] = chosen[c]]
  /\ status' = [status EXCEPT ![k] = "extracted"]
  /\ UNCHANGED <<data, ledger, sheet>>

Label(c, k) ==
  /\ pc[c] \in {"labelling", "setting"}
  /\ category' = [category EXCEPT ![k] = chosen[c]]
  /\ UNCHANGED <<status, data, ledger, sheet>>

Append(c, k) ==
  /\ pc[c] = "appending"
  /\ sheet' = [sheet EXCEPT ![k] = @ + 1]
  /\ UNCHANGED <<status, data, category, ledger>>

MRecordAgain(c, k) ==
  /\ pc[c] = "recording"
  /\ ledger' = [ledger EXCEPT ![k] = chosen[c]]
  /\ UNCHANGED <<status, data, category, sheet>>

\* createLedgerExport; a second row for the receipt throws and ends the call.
Record(c, k) ==
  /\ pc[c] = "recording" /\ ledger[k] = None
  /\ ledger' = [ledger EXCEPT ![k] = chosen[c]]
  /\ UNCHANGED <<status, data, category, sheet>>

AlreadyRecorded(c, k) == pc[c] = "recording" /\ ledger[k] # None

Mark(c, k) ==
  /\ pc[c] = "marking"
  /\ status' = [status EXCEPT ![k] = "exported"]
  /\ UNCHANGED <<data, category, ledger, sheet>>

-----------------------------------------------------------------------------
Inserted(c) ==
  /\ Insert(c, target[c]) /\ Goes(c, "extracting")
  /\ UNCHANGED <<target, chosen, seen, overlapped, faults>>

\* With a category the model is sure of, it is stored next; with an unsure one
\* the row is appended without it; without one, or without a vendor or amount,
\* the user is asked and the call ends.
Extracted(c) == \E s \in {"extracted", "failed"}, d \in Data, g \in Categories \cup {None} :
  /\ Extract(c, target[c], s, d)
  /\ IF target[c] \in Manual THEN g = chosen[c] /\ Goes(c, "labelling")
     ELSE \/ s = "extracted" /\ g # None /\ Goes(c, "labelling")
          \/ s = "extracted" /\ g # None /\ d = "usable" /\ Goes(c, "appending")
          \/ Goes(c, "done")
  /\ chosen' = [chosen EXCEPT ![c] = g]
  /\ seen' = [seen EXCEPT ![c] = d]
  /\ UNCHANGED <<target, overlapped, faults>>

\* finalizeAndAppend needs a valid amount; process_receipt, a vendor as well.
Labelled(c) ==
  /\ Label(c, target[c])
  /\ \/ seen[c] = "usable" /\ Goes(c, "appending")
     \/ seen[c] # "usable" /\ Goes(c, "done")
     \/ pc[c] = "labelling" /\ target[c] \notin Manual /\ Goes(c, "done")
  /\ UNCHANGED <<target, chosen, seen, overlapped, faults>>

MAppended(c) ==
  /\ Append(c, target[c]) /\ Goes(c, "marking")
  /\ UNCHANGED <<target, chosen, seen, overlapped, faults>>

Appended(c) ==
  /\ Append(c, target[c]) /\ Goes(c, "recording")
  /\ UNCHANGED <<target, chosen, seen, overlapped, faults>>

\* sheetsRequest repeats a request that timed out, whether or not it took effect.
AppendedUnseen(c) ==
  /\ Append(c, target[c])
  /\ faults < MaxFaults /\ faults' = faults + 1
  /\ UNCHANGED <<call, overlapped>>

Recorded(c) ==
  /\ Record(c, target[c]) /\ Goes(c, "marking")
  /\ UNCHANGED <<target, chosen, seen, overlapped, faults>>

Marked(c) ==
  /\ Mark(c, target[c]) /\ Goes(c, "done")
  /\ UNCHANGED <<target, chosen, seen, overlapped, faults>>

Refused(c) ==
  /\ KeyTaken(c, target[c]) \/ AlreadyRecorded(c, target[c])
  /\ Goes(c, "done")
  /\ UNCHANGED <<rows, target, chosen, seen, overlapped, faults>>

\* A request fails, or the server dies: the write took effect or not.
Fails(c) ==
  /\ pc[c] \notin {"idle", "done"}
  /\ \/ UNCHANGED rows
     \/ Insert(c, target[c])
     \/ \E s \in {"extracted", "failed"}, d \in Data : Extract(c, target[c], s, d)
     \/ Label(c, target[c])
     \/ Append(c, target[c])
     \/ Record(c, target[c])
     \/ Mark(c, target[c])
  /\ faults < MaxFaults /\ faults' = faults + 1
  /\ Goes(c, "done")
  /\ UNCHANGED <<target, chosen, seen, overlapped>>

Next == \E c \in Calls :
  \/ \E k \in Receipts : LookUp(c, k)
  \/ \E k \in Receipts, g \in Categories : ManualEntry(c, k, g) \/ Read(c, k, g)
  \/ Inserted(c) \/ Extracted(c) \/ Labelled(c)
  \/ Appended(c) \/ AppendedUnseen(c) \/ Recorded(c) \/ Marked(c)
  \/ Refused(c) \/ Fails(c)

Spec == Init /\ [][Next]_vars

-----------------------------------------------------------------------------
(* Correctness.                                                            *)

TypeOK ==
  /\ status \in [Receipts -> {"none", "pending", "extracted", "exported", "failed"}]
  /\ data \in [Receipts -> Data]
  /\ category \in [Receipts -> Categories \cup {None}]
  /\ ledger \in [Receipts -> Categories \cup {None}]
  /\ sheet \in [Receipts -> Nat]
  /\ pc \in [Calls -> CallPc]
  /\ target \in [Calls -> Receipts \cup {None}]
  /\ chosen \in [Calls -> Categories \cup {None}]
  /\ seen \in [Calls -> Data]
  /\ overlapped \subseteq Receipts
  /\ faults \in 0..MaxFaults

\* A receipt that says exported has a ledger row and is on the sheet, whatever
\* fails and however calls overlap.
ExportedIsRecorded ==
  \A k \in Receipts : status[k] = "exported" => ledger[k] # None /\ sheet[k] > 0

\* Exported is final: no extraction or category of another call takes it back.
ExportedStays ==
  [][\A k \in Receipts : status[k] = "exported" => status'[k] = "exported"]_vars

\* Without faults, and if no two calls work on it at once, a receipt is appended
\* at most once, however many calls and categories it is given.
AppendedOnceApart ==
  faults = 0 => \A k \in Receipts \ overlapped : sheet[k] <= 1

\* If no two calls work on it at once, the category of an exported receipt is the
\* one in the ledger, or it never got one of its own, even after failed requests.
LedgerAgrees ==
  \A k \in Receipts \ overlapped :
    status[k] = "exported" => category[k] \in {ledger[k], None}

\* A receipt whose ledger row was written but whose status was not is stuck: every
\* later call appends another row to the sheet and is refused by the ledger.
Stuck(k) ==
  /\ ledger[k] # None /\ status[k] # "exported"
  /\ \A c \in Calls : Busy(c, k) => pc[c] # "marking"

StuckForGood == [][\A k \in Receipts : Stuck(k) => Stuck(k)']_vars

=============================================================================
