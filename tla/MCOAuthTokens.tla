---------------------------- MODULE MCOAuthTokens ----------------------------
(***************************************************************************)
(* Instances of OAuthTokens for TLC.                                       *)
(***************************************************************************)
EXTENDS OAuthTokens, TLC

CONSTANTS ann, nobody, c1, c2, c3, fresh, used, web, old

On(o, x) == [op |-> o, of |-> x]
Ask(o, s, b) == [op |-> o, who |-> ann, client |-> web, scopes |-> s, bootstrap |-> b]
Confirm(n, s, b) ==
    [op |-> "confirm", who |-> ann, client |-> web, scopes |-> s, of |-> n, approve |-> b]
Client(o, b) == [op |-> o, client |-> web, suppress |-> b]
Plain(o) == [op |-> o]

\* A code that nobody has redeemed, and a session at work.
Granted(k, s) == [who |-> ann, client |-> k, scopes |-> s, bootstrap |-> FALSE]
TwoFamilies ==
    fresh :> [grant |-> Granted(web, {"pindoc"}), code |-> "active", pkce |-> TRUE,
              access |-> FALSE, refresh |-> "none"]
 @@ used :> [grant |-> Granted(web, {"pindoc"}), code |-> "spent", pkce |-> FALSE,
             access |-> TRUE, refresh |-> "active"]

Consented == [u \in Users |-> [k \in Clients |-> IF k = web THEN {"pindoc"} ELSE {}]]

\* The client of the environment, and one that has registered.
TwoClients ==
    web :> [there |-> TRUE, deleted |-> FALSE, suppressed |-> FALSE, via |-> "env_seed",
            expired |-> FALSE]
 @@ old :> [there |-> TRUE, deleted |-> FALSE, suppressed |-> FALSE, via |-> "dcr",
            expired |-> FALSE]

\* Each call meets the others at a code, a session, a consent or the clients.
MeetingRequests ==
    c1 :> {On("exchange", fresh), On("refresh", used), Ask("info", {"offline_access"}, FALSE),
           Plain("register"), Client("seed", FALSE)}
 @@ c2 :> {On("exchange", fresh), On("exchange", used), On("refresh", used), On("revoke", used),
           On("revoke", c1), Confirm(c1, {"offline_access"}, TRUE), Plain("register"),
           Client("delete", TRUE), Ask("authorize", {"offline_access"}, TRUE)}
 @@ c3 :> {On("exchange", fresh), On("exchange", c2), On("refresh", c1), On("refresh", used),
           Confirm(c1, {"offline_access"}, TRUE), Confirm(c1, {"pindoc"}, TRUE),
           Ask("authorize", {"pindoc", "offline_access"}, FALSE),
           Plain("register"), Plain("prune"), Client("delete", FALSE)}

=============================================================================
