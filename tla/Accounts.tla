------------------------------ MODULE Accounts ------------------------------
(***************************************************************************)
(* How accounts come to be (AuthService): by registration with a password, *)
(* or by the first login with Google; each gets a trial subscription.      *)
(* The unique index on googleId is sparse, but an account without one      *)
(* stores null, which is indexed too.                                      *)
(***************************************************************************)
EXTENDS Naturals, FiniteSets

CONSTANTS
  Emails,     \* addresses; each has a Google account of its own
  Clerks,     \* requests served at a time
  MaxTokens,  \* bound: verification mails
  MaxStops    \* bound: crashes

ASSUME AccountAssumption == MaxTokens \in Nat /\ MaxStops \in Nat

VARIABLES
  account,  \* per address: the user document, or none
  trials,   \* addresses whose account has a subscription
  clerk,    \* per request
  tokens, stops,  \* bounds
  vouched,  \* history: addresses whose owner was seen: a mail was answered, or Google
  cutShort  \* history: accounts whose request was stopped before the trial

accountVars == <<account, trials, clerk, tokens, stops, vouched, cutShort>>

NoAccount == [google |-> "none", verified |-> FALSE, token |-> 0, exists |-> FALSE]
Docs == [google : {"none", "null", "id"}, verified : BOOLEAN, token : 0..MaxTokens,
         exists : BOOLEAN]
Off == [task |-> "none"]
Tasks == {"register", "google", "trial", "sub", "link", "verify", "resend"}

AccountTypeOK ==
  /\ account \in [Emails -> Docs] /\ trials \subseteq Emails
  /\ \A e \in Emails : account[e].exists <=> account[e].google # "none"
  /\ clerk \in [Clerks -> [task : Tasks, email : Emails] \cup {Off}]
  /\ tokens \in 0..MaxTokens /\ stops \in 0..MaxStops
  /\ vouched \subseteq Emails /\ cutShort \subseteq Emails

AccountInit ==
  /\ account = [e \in Emails |-> NoAccount] /\ trials = {}
  /\ clerk = [c \in Clerks |-> Off] /\ tokens = 0 /\ stops = 0
  /\ vouched = {} /\ cutShort = {}

Exists(e) == account[e].exists
Handles(c, task) == clerk[c].task = task
Receive(c, task, e) ==
  /\ Handles(c, "none")
  /\ clerk' = [clerk EXCEPT ![c] = [task |-> task, email |-> e]]
  /\ UNCHANGED <<account, trials, tokens, stops, vouched, cutShort>>
Pass(c, task) == clerk' = [clerk EXCEPT ![c].task = task]
Drop(c) == clerk' = [clerk EXCEPT ![c] = Off]

-----------------------------------------------------------------------------
(* New accounts *)

\* The unique indexes: may this document be created?
NullTaken == \E e \in Emails : account[e].google = "null"
Unique(e, google) == ~Exists(e) /\ (google = "null" => ~NullTaken)

\* register: the address is looked up, then the document is created.  An index
\* refuses it with an error the request fails with.
Register(c, e) == ~Exists(e) /\ Receive(c, "register", e)
CreateWithPassword(c) ==
  /\ Handles(c, "register")
  /\ LET e == clerk[c].email
     IN  \/ /\ Unique(e, "null") /\ tokens < MaxTokens /\ tokens' = tokens + 1
            /\ account' = [account EXCEPT ![e] =
                 [google |-> "null", verified |-> FALSE, token |-> tokens + 1, exists |-> TRUE]]
            /\ Pass(c, "trial")
         \/ /\ ~Unique(e, "null") /\ Drop(c)
            /\ UNCHANGED <<account, tokens>>
  /\ UNCHANGED <<trials, stops, vouched, cutShort>>

\* loginWithGoogle: a new account, or the account of the address is linked.
GoogleLogin(c, e) ==
  \/ ~Exists(e) /\ Receive(c, "google", e)
  \/ account[e].google = "null" /\ Receive(c, "link", e)

\* Mutant: an account made by Google gets no trial.
GoogleWithoutTrial(c) ==
  /\ Handles(c, "google")
  /\ LET e == clerk[c].email
     IN  /\ Unique(e, "id")
         /\ account' = [account EXCEPT ![e] =
              [google |-> "id", verified |-> TRUE, token |-> 0, exists |-> TRUE]]
         /\ vouched' = vouched \cup {e} /\ Drop(c)
  /\ UNCHANGED <<trials, tokens, stops, cutShort>>

CreateWithGoogle(c) ==
  /\ Handles(c, "google")
  /\ LET e == clerk[c].email
     IN  \/ /\ Unique(e, "id")
            /\ account' = [account EXCEPT ![e] =
                 [google |-> "id", verified |-> TRUE, token |-> 0, exists |-> TRUE]]
            /\ vouched' = vouched \cup {e} /\ Pass(c, "trial")
         \/ /\ ~Unique(e, "id") /\ Drop(c) /\ UNCHANGED <<account, vouched>>
  /\ UNCHANGED <<trials, tokens, stops, cutShort>>

LinkGoogle(c) ==
  /\ Handles(c, "link")
  /\ account' = [account EXCEPT ![clerk[c].email].google = "id",
                                ![clerk[c].email].verified = TRUE]
  /\ vouched' = vouched \cup {clerk[c].email} /\ Drop(c)
  /\ UNCHANGED <<trials, tokens, stops, cutShort>>

\* startTrial looks for a subscription, then creates one; the index uq_user
\* refuses a second.
FindTrial(c) ==
  /\ Handles(c, "trial")
  /\ IF clerk[c].email \in trials THEN Drop(c) ELSE Pass(c, "sub")
  /\ UNCHANGED <<account, trials, tokens, stops, vouched, cutShort>>
CreateTrial(c) ==
  /\ Handles(c, "sub")
  /\ trials' = trials \cup {clerk[c].email}
  /\ Drop(c)
  /\ UNCHANGED <<account, tokens, stops, vouched, cutShort>>

-----------------------------------------------------------------------------
(* Addresses *)

\* verifyEmail: the mail's token is found, then the address is marked.
VerifyEmail(c, e) ==
  /\ account[e].token # 0 /\ Handles(c, "none")
  /\ clerk' = [clerk EXCEPT ![c] = [task |-> "verify", email |-> e]]
  /\ vouched' = vouched \cup {e}
  /\ UNCHANGED <<account, trials, tokens, stops, cutShort>>
MarkVerified(c) ==
  /\ Handles(c, "verify")
  /\ account' = [account EXCEPT ![clerk[c].email].verified = TRUE,
                                ![clerk[c].email].token = 0]
  /\ Drop(c)
  /\ UNCHANGED <<trials, tokens, stops, vouched, cutShort>>

\* Mutant: a new mail marks the address.
StoreAndMark(c) ==
  /\ Handles(c, "resend") /\ tokens < MaxTokens /\ tokens' = tokens + 1
  /\ account' = [account EXCEPT ![clerk[c].email].verified = TRUE]
  /\ Drop(c)
  /\ UNCHANGED <<trials, stops, vouched, cutShort>>

\* resendVerification: unless it is verified, a new token replaces the old.
ResendVerification(c, e) == Exists(e) /\ ~account[e].verified /\ Receive(c, "resend", e)
StoreToken(c) ==
  /\ Handles(c, "resend") /\ tokens < MaxTokens /\ tokens' = tokens + 1
  /\ account' = [account EXCEPT ![clerk[c].email].token = tokens + 1]
  /\ Drop(c)
  /\ UNCHANGED <<trials, stops, vouched, cutShort>>

\* purgeStaleVerifyTokens: the token of an address nobody verified.
PurgeStaleVerifyToken(e) ==
  /\ ~account[e].verified /\ account[e].token # 0
  /\ account' = [account EXCEPT ![e].token = 0]
  /\ UNCHANGED <<trials, clerk, tokens, stops, vouched, cutShort>>

\* The process stops under its requests.
StopAccounts ==
  /\ stops < MaxStops /\ stops' = stops + 1
  /\ cutShort' = cutShort \cup
       {clerk[c].email : c \in {c \in Clerks : Handles(c, "trial") \/ Handles(c, "sub")}}
  /\ clerk' = [c \in Clerks |-> Off]
  /\ UNCHANGED <<account, trials, tokens, vouched>>

AccountNext ==
  \/ \E c \in Clerks :
       \/ \E e \in Emails : Register(c, e) \/ GoogleLogin(c, e) \/ VerifyEmail(c, e)
                            \/ ResendVerification(c, e)
       \/ CreateWithPassword(c) \/ CreateWithGoogle(c) \/ LinkGoogle(c)
       \/ FindTrial(c) \/ CreateTrial(c) \/ MarkVerified(c) \/ StoreToken(c)
  \/ \E e \in Emails : PurgeStaleVerifyToken(e)
  \/ StopAccounts

-----------------------------------------------------------------------------
(* Properties *)

\* Each account gets its trial, whichever way and however often its address signs
\* up at once, unless its request was stopped before: nobody tries again.
TrialUnlessCut ==
  \A e \in Emails :
    Exists(e) => \/ e \in trials \cup cutShort
                 \/ \E c \in Clerks :
                      clerk[c].task \in {"trial", "sub"} /\ clerk[c].email = e

\* An address is verified only after its owner answered a mail, or Google vouched
\* for it, however verification, a new mail and the sweeper overlap.
VerifiedIsVouched == \A e \in Emails : account[e].verified => e \in vouched

\* What an account has from its start (register, loginWithGoogle, verifyEmail).
AccountsSafe ==
  /\ AccountTypeOK /\ TrialUnlessCut /\ VerifiedIsVouched
=============================================================================
