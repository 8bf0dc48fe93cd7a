---------------------------- MODULE TokenService ----------------------------
(***************************************************************************)
(* What a token manager promises to those who ask it, whatever tasks,      *)
(* channels, clocks and failures are behind it: it has one current token,  *)
(* which only ever gets newer, and a call is answered with the token that  *)
(* is current at that moment, newer than the one the caller complained of, *)
(* or with an error.                                                       *)
(***************************************************************************)
EXTENDS Naturals

CONSTANTS Callers, Tokens    \* tokens are numbered in the order of their fetching

VARIABLES
    current,        \* the token in use; 0 before the first
    asked           \* each caller's call: where it is, the complaint, the answer

service == <<current, asked>>

NotAsked     == [st |-> "idle", stale |-> 0, token |-> 0]
Waits(stale) == [st |-> "waiting", stale |-> stale, token |-> 0]
HasToken(c)  == [st |-> "ok", stale |-> asked[c].stale, token |-> current]
IsRefused(c) == [asked[c] EXCEPT !.st = "error"]

Init == current = 0 /\ asked = [c \in Callers |-> NotAsked]

\* A newer token arrives.
Renew ==
    /\ \E token \in Tokens : token > current /\ current' = token
    /\ UNCHANGED asked

\* A call; stale is the token that was rejected, or 0.
Ask(c) ==
    /\ asked[c].st # "waiting"
    /\ \E stale \in Tokens \cup {0} : asked' = [asked EXCEPT ![c] = Waits(stale)]
    /\ UNCHANGED current

Grant(c) ==
    /\ asked[c].st = "waiting" /\ current > asked[c].stale
    /\ asked' = [asked EXCEPT ![c] = HasToken(c)]
    /\ UNCHANGED current

Refuse(c) ==
    /\ asked[c].st = "waiting"
    /\ asked' = [asked EXCEPT ![c] = IsRefused(c)]
    /\ UNCHANGED current

\* The caller goes on, or gives up.
Leave(c) ==
    /\ asked' = [asked EXCEPT ![c] = NotAsked]
    /\ UNCHANGED current

Next == Renew \/ \E c \in Callers : Ask(c) \/ Grant(c) \/ Refuse(c) \/ Leave(c)

Spec == Init /\ [][Next]_service
=============================================================================
