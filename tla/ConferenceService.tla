-------------------------- MODULE ConferenceService -------------------------
(***************************************************************************)
(* ConferenceService.check_invoice: read the order through the cache,      *)
(* check the invoice against it, and save the conference on the same       *)
(* session (PostgresConferenceRepository.save).                            *)
(***************************************************************************)
EXTENDS OrderRepository

CONSTANTS
    PriceTolerance,
    Registered,  \* the orders whose client_id has a row in table clients
    Invoices     \* [order, vendor_tax_id, items]

ASSUME InvoicesAssumption ==
    \A i \in Invoices : i.order \in Orders /\ DOMAIN i.items \subseteq Nat

INSTANCE InvoiceChecker WITH NotFound <- None

\* The position in the invoice, 0 for the whole order, and what is wrong.
Divergence ==
    Nat \X {"order_not_found", "order_not_open", "vendor_mismatch",
            "material_not_found", "quantity_exceeded", "price_mismatch"}

\* "find", then "flush" and "commit" of save, then 201 or 500.
VARIABLES
    check,       \* check[s]: the conference request of session s
    conferences  \* the rows of table conferences

CheckStages == {"find", "flush", "commit", "answered", "aborted"}

\* found stands for purchase_order_id not null.
NoCheck == [stage |-> "none", invoice |-> None, found |-> FALSE, divergences |-> {}]

Conference(s) ==
    [order |-> check[s].invoice.order, found |-> check[s].found,
     divergences |-> check[s].divergences]

CheckInvoice(s, invoice) ==
    /\ call[s] = NoCall
    /\ check[s] = NoCheck
    /\ StartFind(s, invoice.order)
    /\ check' = [check EXCEPT ![s] = [NoCheck EXCEPT !.stage = "find", !.invoice = invoice]]
    /\ UNCHANGED conferences

\* Mutation of Verify: purchase_order_id is set without looking at the order.
VerifyAlwaysFound(s) ==
    /\ check[s].stage = "find"
    /\ call[s].at \in {"found", "missing"}
    /\ \E result \in Check(call[s].seen, check[s].invoice) :
         check' = [check EXCEPT ![s].stage = "flush",
                                ![s].found = TRUE,
                                ![s].divergences = result]
    /\ UNCHANGED <<vars, conferences>>

Verify(s) ==
    /\ check[s].stage = "find"
    /\ call[s].at \in {"found", "missing"}
    /\ \E result \in Check(call[s].seen, check[s].invoice) :
         check' = [check EXCEPT ![s].stage = "flush",
                                ![s].found = (call[s].seen # None),
                                ![s].divergences = result]
    /\ UNCHANGED <<vars, conferences>>

FindFails(s) ==
    /\ check[s].stage = "find"
    /\ At(s, "failed")
    /\ check' = [check EXCEPT ![s].stage = "aborted"]
    /\ UNCHANGED <<vars, conferences>>

\* Mutation of InsertConference: the commit after the flush is forgotten.
InsertConferenceOnly(s) ==
    /\ check[s].stage = "flush"
    /\ check' = [check EXCEPT ![s].stage =
                   IF check[s].invoice.order \in Registered THEN "answered" ELSE "aborted"]
    /\ UNCHANGED <<vars, conferences>>

\* The INSERT into conferences: its foreign key wants a registered client.
InsertConference(s) ==
    /\ check[s].stage = "flush"
    /\ check' = [check EXCEPT ![s].stage =
                   IF check[s].invoice.order \in Registered THEN "commit" ELSE "aborted"]
    /\ UNCHANGED <<vars, conferences>>

CommitConference(s) ==
    /\ check[s].stage = "commit"
    /\ conferences' = conferences \cup {Conference(s)}
    /\ \E answer \in {"answered"} \cup {"aborted" : f \in Faults \cap {"database"}} :
         check' = [check EXCEPT ![s].stage = answer]
    /\ UNCHANGED vars

SaveFails(s) ==
    /\ "database" \in Faults
    /\ check[s].stage \in {"flush", "commit"}
    /\ check' = [check EXCEPT ![s].stage = "aborted"]
    /\ UNCHANGED <<vars, conferences>>

EndCheck(s) ==
    /\ check[s].stage \in {"answered", "aborted"}
    /\ EndRequest(s)
    /\ check' = [check EXCEPT ![s] = NoCheck]
    /\ UNCHANGED conferences

CheckProgress(s) ==
    Verify(s) \/ FindFails(s) \/ InsertConference(s) \/ CommitConference(s)

CheckStep(s) ==
    \/ \E invoice \in Invoices : CheckInvoice(s, invoice)
    \/ CheckProgress(s)
    \/ SaveFails(s)
    \/ EndCheck(s)
=============================================================================
