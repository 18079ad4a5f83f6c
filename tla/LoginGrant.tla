----------------------------- MODULE LoginGrant -----------------------------
(***************************************************************************)
(* What a browser login promises to the CLI that waits for it: somebody    *)
(* who has an account grants it at most once, it yields at most one        *)
(* session token, the token is for whoever granted it, and a login that is *)
(* closed yields nothing more.  It is closed with the account of whoever   *)
(* granted it, or by a sign-in that failed; that one had to find it open,  *)
(* but may close it later, when it has been granted or spent meanwhile.    *)
(* Identity implements it.                                                 *)
(***************************************************************************)
EXTENDS Sequences

CONSTANTS
    Users,
    Nobody

VARIABLES
    state,     \* "open", "granted", "spent" or "closed"
    holder,    \* who granted it
    tokens,    \* whom session tokens were issued for, one after the other
    accounts,  \* who has an account
    failing    \* TRUE: a sign-in has failed and may yet close the login

vars == <<state, holder, tokens, accounts, failing>>

Init ==
    /\ state = "open" /\ holder = Nobody /\ tokens = <<>>
    /\ accounts = {} /\ failing = FALSE

Grant ==
    /\ state = "open" /\ state' = "granted"
    /\ holder' \in accounts
    /\ UNCHANGED <<tokens, accounts, failing>>

Issue ==
    /\ state = "granted" /\ state' = "spent"
    /\ tokens' = Append(tokens, holder)
    /\ UNCHANGED <<holder, accounts, failing>>

SignInFails ==
    /\ state = "open" /\ failing' = TRUE
    /\ UNCHANGED <<state, holder, tokens, accounts>>

\* The failure is recorded, or lost; other sign-ins may be failing too.
Close ==
    /\ failing /\ failing' \in BOOLEAN
    /\ state' \in {state, "closed"}
    /\ UNCHANGED <<holder, tokens, accounts>>

Joins(u) ==
    /\ accounts' = accounts \cup {u}
    /\ UNCHANGED <<state, holder, tokens, failing>>

\* The login of somebody who goes is closed.
Goes(u) ==
    /\ accounts' = accounts \ {u}
    /\ state' = IF u = holder THEN "closed" ELSE state
    /\ UNCHANGED <<holder, tokens, failing>>

Next == Grant \/ Issue \/ SignInFails \/ Close \/ \E u \in Users : Joins(u) \/ Goes(u)

Spec == Init /\ [][Next]_vars
=============================================================================
