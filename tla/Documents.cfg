SPECIFICATION DocumentsSpec
CONSTANTS
    None = None
    Docs = {a, b}
    Groups = {g, h}
    Customers = {c1, c2}
    Requests = {r}
    Provider = "sendgrid"
SYMMETRY Symmetry
INVARIANTS MailedOnce ResultsComplete
