------------------------- MODULE MCInvoicingParts -------------------------
(***************************************************************************)
(* Invoicing in two small parts, each for itself: corrections of invoices  *)
(* without parts, and parts on the shelf without corrections.              *)
(***************************************************************************)
EXTENDS MCInvoicing

VARIABLE part

Asked(what) == \E t \in Txs : tx[t].req.does \in what
LinesFrom(O) == /\ \A j \in Jobs, i \in 1 .. MaxLines : i \in DOMAIN lines[j] => lines[j][i] \in O
                /\ \A t \in Txs : Does(t, "add line") => tx[t].req.line \in O

\* The part whose shelf is counted: a job on the shelf has one line, so that
\* nobody there moves both, and the two are alike.
Counted == Min(Parts)

\* The last document is of the one job that has others.
OneBilled == \E j \in Jobs : state[j] = "open"

Fits ==
  \/ /\ part = "corrections" /\ LinesFrom(OddLine) /\ ~Asked({"take out", "put back", "count"})
     /\ next <= MaxDocs \/ OneBilled
  \/ /\ part = "shelf" /\ LinesFrom(PartLines) /\ ~Asked({"credit", "rebill"})
     /\ next <= 3 /\ \A t \in Txs : tx[t].number <= 2
     /\ \A t \in Txs : Does(t, "count") => tx[t].req.part = Counted

InPart == part' = part /\ Fits'
\* A line on the shelf's jobs is asked for while there is none.
FirstLine(r) == part = "shelf" /\ r.does = "add line" => lines[r.job] = <<>>

NextOfParts ==
  \E t \in Txs :
    \/ OpenOrder(t) /\ FirstLine(tx'[t].req) /\ InPart
    \/ Refer(t) /\ InPart
    \/ Reserve(t) /\ InPart
    \/ HoldCredited(t) /\ InPart
    \/ HoldRebilled(t) /\ InPart
    \/ TakeNumber(t) /\ InPart
    \/ HoldCounted(t) /\ InPart
    \/ Move(t) /\ InPart
    \/ CommitInvoice(t) /\ InPart
    \/ CommitCorrection(t) /\ InPart
    \/ CommitLine(t) /\ InPart
    \/ CommitTakeOut(t) /\ InPart
    \/ CommitPutBack(t) /\ InPart
    \/ CommitCount(t) /\ InPart
    \/ RollBack(t) /\ InPart

InitOfParts == Init /\ part \in {"corrections", "shelf"}

SpecOfParts == InitOfParts /\ [][NextOfParts]_<<vars, part>>
============================================================================
