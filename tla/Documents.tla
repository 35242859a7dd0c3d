---------------------------- MODULE Documents -----------------------------
(***************************************************************************)
(* Sending customers their documents: after a webhook has put its customer *)
(* into groups (dispatchCustomerDocumentsEmail in webhooks.ts), and when   *)
(* an operator sends them again (resend-documents in idoxxyAdmin.ts).      *)
(*                                                                         *)
(* Both list the documents of the shop's account, pick those for the       *)
(* customer's groups, assign them at iDoxxy one by one, look up their      *)
(* links and hand them to emailService.  Every call may fail, the          *)
(* documents may change between any two, and what was mailed cannot be     *)
(* taken back.                                                             *)
(***************************************************************************)
EXTENDS Naturals, FiniteSets

CONSTANTS
    None, Docs, Groups, Customers, Requests,
    Provider    \* EMAIL_PROVIDER: "sendgrid" mails documents one by one

ASSUME DocumentsAssumption ==
    Provider \in {"sendgrid", "smtp"} /\ None \notin Customers \cup {"sent", "error", "due"}

VARIABLES
    documents,  \* iDoxxy: the groups a document is for, None when it is gone
    request,    \* what a request is doing, None before it arrives
    letters     \* how often a request has mailed a document to a customer

documentsVars == <<documents, request, letters>>

Documents == [Docs -> {None} \cup SUBSET Groups]

Request ==
    [kind : {"webhook", "resend"},
     step : {"list", "next", "assign", "links", "mail", "ended"},
     groups : [Customers -> SUBSET Groups],  \* as resolved, or as the panel posts them
     todo : SUBSET Customers,                \* customers whose turn is still to come
     customer : Customers \cup {None},
     listed : Documents,                     \* allDocuments
     left : SUBSET Docs,                     \* what the current loop has still to do
     results : [Customers -> {"sent", "error", "due", None}]]

ASSUME NoRequestAssumption == None \notin Request

DocumentsTypeOK ==
    /\ documents \in Documents
    /\ request \in [Requests -> Request \cup {None}]
    /\ letters \in [Requests \X Customers \X Docs -> Nat]

DocumentsInit ==
    /\ documents \in Documents
    /\ request = [r \in Requests |-> None]
    /\ letters = [rcd \in Requests \X Customers \X Docs |-> 0]

---------------------------------------------------------------------------
Present(listed) == {d \in Docs : listed[d] # None}

\* The documents for one of the customer's groups, or all when there are none.
Picked(listed, groups) ==
    LET matched == {d \in Present(listed) : listed[d] \cap groups # {}}
    IN  IF matched # {} THEN matched ELSE Present(listed)

At(r, step) == request[r] # None /\ request[r].step = step

Becomes(r, new) == request' = [request EXCEPT ![r] = new]

\* A webhook has one customer; the panel posts several, each once.
Begin(r) ==
    /\ request[r] = None
    /\ \E k \in {"webhook", "resend"}, g \in [Customers -> SUBSET Groups],
          todo \in (SUBSET Customers) \ {{}} :
         /\ k = "webhook" => Cardinality(todo) = 1
         /\ Becomes(r, [kind |-> k, step |-> "list", groups |-> g, todo |-> todo,
                        customer |-> None, listed |-> documents, left |-> {},
                        results |-> [c \in Customers |-> IF c \in todo THEN "due" ELSE None]])
    /\ UNCHANGED <<documents, letters>>

\* listDocuments; an account without documents ends the request.
List(r) ==
    /\ At(r, "list")
    /\ Becomes(r, [request[r] EXCEPT !.listed = documents,
                     !.step = IF Present(documents) = {} THEN "ended" ELSE "next"])
    /\ UNCHANGED <<documents, letters>>

\* Caught: logged by the webhook, a 500 from the panel.
ListFails(r) ==
    /\ At(r, "list")
    /\ Becomes(r, [request[r] EXCEPT !.step = "ended"])
    /\ UNCHANGED <<documents, letters>>

TakeCustomer(r, c) ==
    /\ At(r, "next") /\ c \in request[r].todo
    /\ Becomes(r, [request[r] EXCEPT !.step = "assign", !.customer = c, !.todo = @ \ {c},
                     !.left = Picked(request[r].listed, request[r].groups[c])])
    /\ UNCHANGED <<documents, letters>>

\* The panel posted no e-mail address for this one; a webhook always has one.
SkipCustomer(r, c) ==
    /\ At(r, "next") /\ request[r].kind = "resend" /\ c \in request[r].todo
    /\ Becomes(r, [request[r] EXCEPT !.todo = @ \ {c}, !.results[c] = "error"])
    /\ UNCHANGED <<documents, letters>>

AllTaken(r) ==
    /\ At(r, "next") /\ request[r].todo = {}
    /\ Becomes(r, [request[r] EXCEPT !.step = "ended"])
    /\ UNCHANGED <<documents, letters>>

\* Seeded fault: the failure is not caught and ends the request.
AssignOrThrow(r, d) ==
    /\ At(r, "assign") /\ d \in request[r].left
    /\ \/ Becomes(r, [request[r] EXCEPT !.left = @ \ {d}])
       \/ Becomes(r, [request[r] EXCEPT !.step = "ended"])
    /\ UNCHANGED <<documents, letters>>

\* assignDocumentToGroup: whether it fails, which is caught for each document,
\* makes no difference to what follows.
Assign(r, d) ==
    /\ At(r, "assign") /\ d \in request[r].left
    /\ Becomes(r, [request[r] EXCEPT !.left = @ \ {d}])
    /\ UNCHANGED <<documents, letters>>

AllAssigned(r) ==
    /\ At(r, "assign") /\ request[r].left = {}
    /\ Becomes(r, [request[r] EXCEPT !.step = "links"])
    /\ UNCHANGED <<documents, letters>>

\* getCustomerDocuments, and the links that the list itself brought: documents
\* without a link are dropped. When the call fails only the latter are left.
LookUpLinks(r) ==
    LET q == request[r] IN
    /\ At(r, "links")
    /\ \E linked \in SUBSET Picked(q.listed, q.groups[q.customer]) :
         Becomes(r, [q EXCEPT !.step = "mail", !.left = linked])
    /\ UNCHANGED <<documents, letters>>

\* Seeded fault: the whole list again after every failure.
RestOrAll(r, mailed, ok) ==
    IF ok THEN request[r].left \ mailed
    ELSE Picked(request[r].listed, request[r].groups[request[r].customer])

\* One letter, or one per document; a failure is not repeated.
Rest(r, mailed, ok) == request[r].left \ mailed

\* sendDocumentsEmail; what a failed call reports may have been delivered.
Mail(r, mailed) ==
    LET q == request[r] IN
    /\ At(r, "mail") /\ mailed \subseteq q.left /\ mailed # {}
    /\ IF Provider = "smtp" THEN mailed = q.left ELSE Cardinality(mailed) = 1
    /\ \E ok, delivered \in BOOLEAN :
         /\ ok => delivered
         /\ letters' = [rcd \in DOMAIN letters |->
                          IF delivered /\ rcd[1] = r /\ rcd[2] = q.customer /\ rcd[3] \in mailed
                          THEN letters[rcd] + 1 ELSE letters[rcd]]
         /\ Becomes(r, [q EXCEPT !.left = Rest(r, mailed, ok)])
    /\ UNCHANGED documents

\* The result of sendDocumentsEmail is not looked at; a webhook keeps none.
Sent(r) ==
    LET q == request[r] IN
    IF q.kind = "resend" THEN [q.results EXCEPT ![q.customer] = "sent"] ELSE q.results

AllMailed(r) ==
    /\ At(r, "mail") /\ request[r].left = {}
    /\ Becomes(r, [request[r] EXCEPT !.step = "next", !.customer = None, !.results = Sent(r)])
    /\ UNCHANGED <<documents, letters>>

\* In iDoxxy's own panel.
EditDocuments ==
    /\ \E d \in Docs, g \in {None} \cup SUBSET Groups : documents' = [documents EXCEPT ![d] = g]
    /\ UNCHANGED <<request, letters>>

Proceeds(r) ==
    \/ List(r) \/ ListFails(r) \/ AllTaken(r) \/ AllAssigned(r) \/ LookUpLinks(r) \/ AllMailed(r)
    \/ \E c \in Customers : TakeCustomer(r, c) \/ SkipCustomer(r, c)
    \/ \E d \in Docs : Assign(r, d)
    \/ \E mailed \in SUBSET Docs : Mail(r, mailed)

DocumentsNext ==
    \/ \E r \in Requests : Begin(r) \/ Proceeds(r)
    \/ EditDocuments

DocumentsSpec == DocumentsInit /\ [][DocumentsNext]_documentsVars

---------------------------------------------------------------------------
\* One request mails a document to a customer at most once, whatever fails on
\* the way (emailService.ts repeats nothing, the loops are over distinct items).
MailedOnce == \A rcd \in DOMAIN letters : letters[rcd] <= 1

\* A panel's request that got its list ends with a result for every customer,
\* and nobody a letter went to is reported as failed, so the operator who
\* repeats the failed ones mails nobody twice (the per-customer try).
ResultsComplete ==
    \A r \in Requests : At(r, "ended") /\ request[r].kind = "resend" =>
        /\ \/ \A c \in Customers : request[r].results[c] \in {"due", None}
           \/ \A c \in Customers : request[r].results[c] # "due"
        /\ \A c \in Customers : (\E d \in Docs : letters[<<r, c, d>>] > 0)
                                  => request[r].results[c] = "sent"
=============================================================================
