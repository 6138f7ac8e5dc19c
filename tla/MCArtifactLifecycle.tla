------------------------- MODULE MCArtifactLifecycle -------------------------
(***************************************************************************)
(* Instances of ArtifactLifecycle for TLC.                                 *)
(***************************************************************************)
EXTENDS ArtifactLifecycle

CONSTANTS old, new, newer, t1, t2, t3, ann, bob, once, none, nil

Create(s, t, w, b, r) ==
    [op |-> "create", slug |-> s, title |-> t, author |-> w, settled |-> b, receipt |-> r]
Replace(s, a) ==
    [op |-> "supersede", slug |-> s, title |-> t1, author |-> ann, settled |-> FALSE, of |-> a]
Review(a, d) == [op |-> "review", of |-> a, decision |-> d]
Settle(a) == [op |-> "settle", of |-> a, author |-> bob]

\* One artifact, published or waiting in the inbox.
OneSeed ==
    {[slug |-> old, title |-> t1, author |-> ann, settled |-> FALSE, status |-> "published",
      review |-> r, superseded_by |-> nil, born |-> 0] : r \in {"auto_published", "pending_review"}}

\* Three calls that meet in all they share: slugs, a title, the one-use
\* receipt, the row of the seed and the row one of them makes.
MeetingRequests ==
    {Create(new, t2, bob, TRUE, once), Create(newer, t3, ann, FALSE, once),
     Create(newer, t1, ann, FALSE, none),
     Replace(new, old), Replace(newer, new), Settle(old)}
      \cup {Review(old, d) : d \in {"approve", "reject"}}

=============================================================================
