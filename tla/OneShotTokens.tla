--------------------------- MODULE OneShotTokens ---------------------------
(***************************************************************************)
(* What the refresh-token endpoints promise, without requests, workers or  *)
(* transactions.  A login opens a session with one live token; a refresh   *)
(* trades the live token of a session for a new one in a single step; a    *)
(* logout, or the deletion of an account, spends tokens.  A spent token    *)
(* never comes back, and a session never has two live tokens.              *)
(***************************************************************************)
CONSTANTS
    Token,      \* every token that may ever be minted
    NoToken     \* the session of a token that nobody was granted yet

VARIABLES
    status,     \* status[t]: "unknown", then "live", then "spent"
    session     \* session[t]: the first token of the login t descends from

vars == <<status, session>>

Status == {"unknown", "live", "spent"}

TypeOK ==
    /\ status \in [Token -> Status]
    /\ session \in [Token -> Token \cup {NoToken}]

Live(s) == {t \in Token : status[t] = "live" /\ session[t] = s}

Init ==
    /\ status = [t \in Token |-> "unknown"]
    /\ session = [t \in Token |-> NoToken]

\* A registration or a login: a new session whose first token is t.
Grant(t) ==
    /\ status[t] = "unknown"
    /\ status' = [status EXCEPT ![t] = "live"]
    /\ session' = [session EXCEPT ![t] = t]

\* A refresh: old is spent and new lives, in one step.
Rotate(old, new) ==
    /\ status[old] = "live"
    /\ status[new] = "unknown"
    /\ status' = [status EXCEPT ![old] = "spent", ![new] = "live"]
    /\ session' = [session EXCEPT ![new] = session[old]]

\* A logout, or a deleted account: the tokens of S are spent.
Spend(S) ==
    /\ \A t \in S : status[t] = "live"
    /\ status' = [t \in Token |-> IF t \in S THEN "spent" ELSE status[t]]
    /\ UNCHANGED session

Next ==
    \/ \E t \in Token : Grant(t)
    \/ \E old, new \in Token : Rotate(old, new)
    \/ \E S \in SUBSET Token : Spend(S)

Spec == Init /\ [][Next]_vars

-----------------------------------------------------------------------------

\* A session never has two live tokens, however long its chain of rotations:
\* the one-shot rotation of auth.py's refresh_handler.
AtMostOneLive == \A s \in Token : \A t, u \in Live(s) : t = u

\* A session whose tokens are all spent is over: a later grant, or the
\* rotation of another session, does not revive it.
Over(s) == status[s] # "unknown" /\ Live(s) = {}

OverIsOver == [][\A s \in Token : Over(s) => Over(s)']_vars

\* What makes AtMostOneLive inductive: a token has a session exactly when it
\* was granted, and the session is named after a granted token.
SessionsGranted ==
    \A t \in Token : IF status[t] = "unknown"
                     THEN session[t] = NoToken
                     ELSE session[t] \in Token /\ status[session[t]] # "unknown"

TokenInv == TypeOK /\ SessionsGranted /\ AtMostOneLive
=============================================================================
