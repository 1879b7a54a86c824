----------------------------- MODULE OAuthCodes -----------------------------
(***************************************************************************)
(* The codes a login with Google is redirected with (AuthService): each    *)
(* stands for tokens in the memory of the process that made it, is good    *)
(* for sixty seconds, and is taken by the first request that shows it.     *)
(***************************************************************************)
EXTENDS Naturals, FiniteSets

CONSTANTS
  Grants,      \* codes that can be drawn
  Processes,  \* processes of the API
  Life,       \* 60 seconds, in clock ticks
  Sweep,      \* the size above which old codes are swept out
  MaxClock    \* bound: time

ASSUME OAuthAssumption == Life \in Nat \ {0} /\ Sweep \in Nat \ {0} /\ MaxClock \in Nat \ {0}

VARIABLES
  clock,
  oauthCodes, \* per process: the codes it holds
  expiresAt,  \* per code, 0 for one that was not drawn
  home,       \* history: the process that drew it
  taken,      \* history: per code, how often tokens were handed out for it
  spoiled     \* history: codes shown to the process that held them, or lost by its restart

oauthVars == <<clock, oauthCodes, expiresAt, home, taken, spoiled>>

OAuthTypeOK ==
  /\ clock \in 1..MaxClock /\ oauthCodes \in [Processes -> SUBSET Grants]
  /\ expiresAt \in [Grants -> 0..(MaxClock + Life)] /\ home \in [Grants -> Processes \cup {"none"}]
  /\ taken \in [Grants -> Nat] /\ spoiled \subseteq Grants

OAuthInit ==
  /\ clock = 1 /\ oauthCodes = [p \in Processes |-> {}] /\ expiresAt = [c \in Grants |-> 0]
  /\ home = [c \in Grants |-> "none"] /\ taken = [c \in Grants |-> 0] /\ spoiled = {}

Held == UNION {oauthCodes[p] : p \in Processes}
Old(c) == expiresAt[c] < clock

\* Mutant: all codes are swept out, the new one excepted.
SweepAll(codes) == IF Cardinality(codes) > Sweep THEN codes \ Held ELSE codes

\* When there are too many, those whose time is over go.
SweepOld(codes) ==
  IF Cardinality(codes) > Sweep THEN {c \in codes : expiresAt[c] = 0 \/ ~Old(c)} ELSE codes

\* googleCallback: a new code for the tokens of the login.
CreateOAuthCode(p, c) ==
  /\ expiresAt[c] = 0
  /\ expiresAt' = [expiresAt EXCEPT ![c] = clock + Life] /\ home' = [home EXCEPT ![c] = p]
  /\ oauthCodes' = [oauthCodes EXCEPT ![p] = SweepOld(@ \cup {c})]
  /\ UNCHANGED <<clock, taken, spoiled>>

\* Mutant: the code stays until it expires.
KeepCode(p, c) ==
  /\ expiresAt[c] # 0
  /\ taken' = IF c \in oauthCodes[p] /\ clock <= expiresAt[c]
              THEN [taken EXCEPT ![c] = @ + 1] ELSE taken
  /\ UNCHANGED <<clock, expiresAt, home, oauthCodes, spoiled>>

\* The code is removed first; if its time is over the request fails all the same.
\* A process does not know the codes of another.
ExchangeOAuthCode(p, c) ==
  /\ expiresAt[c] # 0
  /\ oauthCodes' = [oauthCodes EXCEPT ![p] = @ \ {c}]
  /\ taken' = IF c \in oauthCodes[p] /\ clock <= expiresAt[c]
              THEN [taken EXCEPT ![c] = @ + 1] ELSE taken
  /\ spoiled' = spoiled \cup ({c} \cap oauthCodes[p])
  /\ UNCHANGED <<clock, expiresAt, home>>

\* A process that is restarted has no codes.
RestartProcess(p) ==
  /\ oauthCodes[p] # {} /\ oauthCodes' = [oauthCodes EXCEPT ![p] = {}]
  /\ spoiled' = spoiled \cup oauthCodes[p]
  /\ UNCHANGED <<clock, expiresAt, home, taken>>

OAuthTick ==
  /\ clock < MaxClock /\ clock' = clock + 1
  /\ UNCHANGED <<oauthCodes, expiresAt, home, taken, spoiled>>

OAuthNext ==
  \/ \E p \in Processes, c \in Grants : CreateOAuthCode(p, c) \/ ExchangeOAuthCode(p, c)
  \/ \E p \in Processes : RestartProcess(p)
  \/ OAuthTick

-----------------------------------------------------------------------------
(* Properties *)

\* Tokens are handed out once for a code, whatever is shown when and where.
TokensOnce == \A c \in Grants : taken[c] <= 1

\* A code is lost in its sixty seconds only by being shown to the process that
\* made it, or by a restart of that process: no sweep takes it, nor does a
\* request that another process cannot serve.
LiveCodeHeld ==
  \A c \in Grants :
    expiresAt[c] # 0 /\ ~Old(c) /\ c \notin spoiled => c \in oauthCodes[home[c]]

\* A code is good once, and for its time (createOAuthCode, exchangeOAuthCode).
CodesSafe ==
  /\ OAuthTypeOK /\ TokensOnce /\ LiveCodeHeld
=============================================================================
