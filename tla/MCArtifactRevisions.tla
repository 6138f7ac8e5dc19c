------------------------- MODULE MCArtifactRevisions -------------------------
(***************************************************************************)
(* Instances of ArtifactRevisions for TLC: what the tasks are at the start *)
(* and what the callers may ask, for each run.                             *)
(***************************************************************************)
EXTENDS ArtifactRevisions, TLC

CONSTANT MaxVer   \* bound on the expected_version a request carries

Vers == 1 .. MaxVer

Box(m) == [i \in Items |-> m]

Status(s) == [status |-> s, assignee |-> Keep]
Assign(u) == [status |-> Keep, assignee |-> u]

Task(body, status, area) ==
    [body |-> body, meta |-> [status |-> status, assignee |-> ""],
     area |-> area, life |-> "active"]

Body(a, v, b, p, m, d) ==
    [op |-> "body", art |-> a, ver |-> v, body |-> b, patched |-> p, meta |-> m, dry |-> d]
Meta(a, v, m, d) == [op |-> "meta", art |-> a, ver |-> v, meta |-> m, dry |-> d]
Http(a, v, m) == [op |-> "http", art |-> a, ver |-> v, meta |-> m]
AcceptOf(a, v, i, m) == [op |-> "accept", art |-> a, ver |-> v, item |-> i, marker |-> m]
Claim(a) == [op |-> "claim", art |-> a]
Area(a, v, x) == [op |-> "area", art |-> a, ver |-> v, area |-> x]
Sweep == [op |-> "sweep"]
Supersede(a) == [op |-> "supersede", art |-> a]

AnyArea == CHOOSE x \in Areas : TRUE

-----------------------------------------------------------------------------
\* One task, every kind of writer.
OneTaskInitial ==
    {Task(Box(m), s, AnyArea) : m \in {Open, Done}, s \in {"open", "cancelled"}}

OneTaskRequests ==
    LET bodies == {Box(Open), Box(Done)}
        metas == {NoPatch, Status("cancelled"), Status("claimed_done")}
    IN  {Body(a, v, b, TRUE, m, FALSE) : a \in Artifacts, v \in Vers, b \in bodies,
                                         m \in metas}
        \* `patched' makes a difference to the claimed_done gate only.
        \cup {Body(a, v, b, FALSE, Status("claimed_done"), FALSE) :
                 a \in Artifacts, v \in Vers, b \in bodies}
        \cup {Body(a, v, Box(Done), TRUE, NoPatch, TRUE) : a \in Artifacts, v \in Vers}
        \cup {AcceptOf(a, v, i, m) : a \in Artifacts, v \in Vers, i \in Items,
                                     m \in {Open, Partial}}
        \cup {Meta(a, v, Assign(u), FALSE) : a \in Artifacts, v \in Vers, u \in Agents}
        \cup {Http(a, v, m) : a \in Artifacts, v \in {0} \cup Vers,
                              m \in {Status("open"), Status("claimed_done"), Assign("")}}
        \cup {Claim(a) : a \in Artifacts}
        \cup {Area(a, v, x) : a \in Artifacts, v \in {0, 1}, x \in Areas}
        \cup {Sweep}
        \cup {Supersede(a) : a \in Artifacts}

\* Two tasks and the writers that take locks in different orders.
TwoTasksInitial == {Task(Box(Done), "open", x) : x \in Areas}

TwoTasksRequests ==
    {AcceptOf(a, 1, i, Partial) : a \in Artifacts, i \in Items}
    \cup {Claim(a) : a \in Artifacts}
    \cup {Area(a, 0, x) : a \in Artifacts, x \in Areas}
    \cup {Sweep}

Symmetry == Permutations(Callers)

=============================================================================
