----------------------------- MODULE MCServices -----------------------------
(* Services that share no state: one run picks one of them in its initial    *)
(* state and lets that one move.                                             *)
EXTENDS RateLimiter, Ingest, Sessions, TwoFactor, Accounts, Tunnels,
  OAuthCodes, Base32, TLC

VARIABLE part

\* The configuration gives the requests, processes and streams of all parts the
\* same names, as only one part moves.
Sym == Permutations(Requests)

TwoWindows == {"minute", "hour"}
ShortFirst == <<"minute", "hour">>
Lengths == [minute |-> 2, hour |-> 5]
Caps == [minute |-> 2, hour |-> 3]

AllKeys == {"a", "b", "c"}
Payloads == {"same", "other"}
SameOrOther == [k \in AllKeys |-> IF k = "c" THEN "other" ELSE "same"]
WithWindow == {"a", "b"}

Rest1 == <<limiterVars, ingestVars>>
Rest2 == <<authVars, factorVars, accountVars, tunnelVars>>
Rest3 == <<oauthVars, base32Vars>>
vars == <<part, Rest1, Rest2, Rest3>>

Init ==
  /\ part \in {"limiter", "intake", "sessions", "factor", "accounts", "tunnels",
              "oauth", "base32"}
  /\ LimiterInit /\ IngestInit /\ SessionInit /\ FactorInit /\ AccountInit /\ TunnelInit
  /\ OAuthInit /\ Base32Init
  /\ part # "intake" => key = [r \in Requests |-> "a"]

Next ==
  /\ UNCHANGED part
  /\ \/ part = "limiter" /\ LimiterNext /\ UNCHANGED <<ingestVars, Rest2, Rest3>>
     \/ part = "intake" /\ IngestNext /\ UNCHANGED <<limiterVars, Rest2, Rest3>>
     \/ /\ part = "sessions" /\ SessionNext
        /\ UNCHANGED <<Rest1, factorVars, accountVars, tunnelVars, Rest3>>
     \/ /\ part = "factor" /\ FactorNext
        /\ UNCHANGED <<Rest1, authVars, accountVars, tunnelVars, Rest3>>
     \/ /\ part = "accounts" /\ AccountNext
        /\ UNCHANGED <<Rest1, authVars, factorVars, tunnelVars, Rest3>>
     \/ /\ part = "tunnels" /\ TunnelNext
        /\ UNCHANGED <<Rest1, authVars, factorVars, accountVars, Rest3>>
     \/ part = "oauth" /\ OAuthNext /\ UNCHANGED <<Rest1, Rest2, base32Vars>>
     \/ part = "base32" /\ Base32Next /\ UNCHANGED <<Rest1, Rest2, oauthVars>>
Spec == Init /\ [][Next]_vars

=============================================================================
