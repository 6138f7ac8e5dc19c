---------------------------- MODULE ArtifactCatalog ----------------------------
(***************************************************************************)
(* What the catalogue of artifacts promises to those who create, supersede,*)
(* review and promote: an accepted call has had its effect once, at one    *)
(* instant and whole, on the rows as they were then; every other call has  *)
(* had none.  There is no slug inserted and uncommitted, no row read early *)
(* and no rollback here: ArtifactLifecycle is the code, and implements it. *)
(*                                                                         *)
(* Not promised, because a handler decides it before its transaction has   *)
(* the row: that a title is not taken, that what is superseded is not in   *)
(* the archive, and that what is reviewed still waits for a review.        *)
(***************************************************************************)
EXTENDS Integers

CONSTANTS Calls, Seeds, NoArtifact, NoRow, Requests, SeedRows

Artifacts == Calls \cup Seeds

VARIABLES rows,
          clock,     \* how many artifacts have been made
          req,       \* what a call asks for
          status     \* what its caller can know of it

vars == <<rows, clock, req, status>>

Named(s) == {a \in Artifacts : rows[a].status # "none" /\ rows[a].slug = s}

Init ==
    /\ \E given \in [Seeds -> SeedRows] :
         /\ \A a, b \in Seeds : a # b => given[a].slug # given[b].slug
         /\ rows = [a \in Artifacts |-> IF a \in Seeds THEN given[a] ELSE NoRow]
    /\ clock = 0
    /\ req = [c \in Calls |-> [op |-> "none"]]
    /\ status = [c \in Calls |-> "open"]

Ask(c) ==
    /\ status[c] = "open" /\ req[c].op = "none"
    /\ \E r \in Requests : req' = [req EXCEPT ![c] = r]
    /\ UNCHANGED <<rows, clock, status>>

-----------------------------------------------------------------------------
\* Only a sensitive operation can be sent to the inbox.
Reviews(sensitive) == {"auto_published"} \cup (IF sensitive THEN {"pending_review"} ELSE {})

New(r, review) ==
    [slug |-> r.slug, title |-> r.title, author |-> r.author, settled |-> r.settled,
     status |-> "published", review |-> review,
     superseded_by |-> NoArtifact, born |-> clock + 1]

\* A slug is given once.
Create(c, r) ==
    /\ r.op = "create" /\ Named(r.slug) = {}
    /\ \E review \in Reviews(r.settled) : rows' = [rows EXCEPT ![c] = New(r, review)]
    /\ clock' = clock + 1

\* The new artifact and the mark on the one it replaces appear together.
Replace(c, r) ==
    /\ r.op = "supersede" /\ Named(r.slug) = {}
    /\ \E a \in Named(r.of), review \in Reviews(TRUE) :
         rows' = [rows EXCEPT ![c] = New(r, review),
                              ![a].status = "superseded", ![a].superseded_by = c]
    /\ clock' = clock + 1

Decide(r) ==
    /\ r.op = "review"
    /\ \E a \in Named(r.of) :
         rows' = [rows EXCEPT
                    ![a].review = IF r.decision = "approve" THEN "approved" ELSE "rejected",
                    ![a].status = IF r.decision = "approve" THEN "published" ELSE "archived"]
    /\ UNCHANGED clock

\* The inbox sees only the first promotion of an artifact, and keeps what it
\* has decided unless that promotion waits for it.
Settle(r) ==
    /\ r.op = "settle"
    /\ \E a \in Named(r.of) :
         \E review \in {rows[a].review}
                         \cup (IF rows[a].settled THEN {} ELSE {"pending_review"}) :
            rows' = [rows EXCEPT ![a].settled = TRUE, ![a].author = r.author,
                                 ![a].review = review]
    /\ UNCHANGED clock

Apply(c, r) ==
    /\ status[c] = "open"
    /\ Create(c, r) \/ Replace(c, r) \/ Decide(r) \/ Settle(r)
    /\ status' = [status EXCEPT ![c] = "accepted"]
    /\ UNCHANGED req

\* Calls are given up, several at once when the server stops: nothing stays.
Fail(S) ==
    /\ \A c \in S : status[c] = "open" /\ req[c].op # "none"
    /\ status' = [c \in Calls |-> IF c \in S THEN "failed" ELSE status[c]]
    /\ UNCHANGED <<rows, clock, req>>

Next ==
    \/ \E c \in Calls : Ask(c) \/ Apply(c, req[c])
    \/ \E S \in SUBSET Calls : Fail(S)

Spec == Init /\ [][Next]_vars

=============================================================================
