---------------------------- MODULE Identity_proofs ----------------------------
(* Codes of a login, second factors and how their secrets are written down,  *)
(* new accounts and keys at rest, for any number of processes, requests,     *)
(* users, addresses, codes and keys, and secrets of any length.              *)
EXTENDS OAuthCodes, TwoFactor, Accounts, KeyRotation, Base32, SequenceTheorems, TLAPS

-----------------------------------------------------------------------------
(* Codes of a login with Google *)

CodesSpec == OAuthInit /\ [][OAuthNext]_oauthVars

\* A code that is held was drawn by its holder and has not been taken yet: that
\* is why taking it once more hands out nothing.
HeldIsFresh ==
  \A p \in Processes : \A c \in oauthCodes[p] :
    expiresAt[c] # 0 /\ home[c] = p /\ taken[c] = 0
\* A code that was not drawn has no history; one that was has a home.
DrawnHasHome ==
  \A c \in Grants :
    IF expiresAt[c] = 0 THEN taken[c] = 0 /\ c \notin spoiled ELSE home[c] \in Processes
CodesInv == CodesSafe /\ HeldIsFresh /\ DrawnHasHome

LEMMA CodesInvInit == OAuthInit => CodesInv
BY OAuthAssumption
   DEF OAuthInit, CodesInv, CodesSafe, OAuthTypeOK, TokensOnce, LiveCodeHeld, HeldIsFresh,
       DrawnHasHome, Old

LEMMA SweepKeepsLive ==
  ASSUME NEW codes
  PROVE  /\ SweepOld(codes) \subseteq codes
         /\ \A c \in codes : expiresAt[c] = 0 \/ ~Old(c) => c \in SweepOld(codes)
BY DEF SweepOld

LEMMA CreatePreserves ==
  ASSUME CodesInv, NEW p \in Processes, NEW c \in Grants, CreateOAuthCode(p, c)
  PROVE  CodesInv'
<1> DEFINE new == SweepOld(oauthCodes[p] \cup {c})
<1> USE DEF CodesInv, CodesSafe
<1>1. new \subseteq oauthCodes[p] \cup {c}
      /\ \A g \in oauthCodes[p] \cup {c} : expiresAt[g] = 0 \/ ~Old(g) => g \in new
  BY SweepKeepsLive
<1>2. oauthCodes' = [oauthCodes EXCEPT ![p] = new] /\ c \in new
  BY <1>1 DEF CreateOAuthCode
<1> HIDE DEF new
<1>3. OAuthTypeOK'
  BY <1>1, <1>2, OAuthAssumption DEF OAuthTypeOK, CreateOAuthCode
<1>4. TokensOnce'
  BY DEF TokensOnce, CreateOAuthCode
<1>5. HeldIsFresh'
  BY <1>1, <1>2, OAuthAssumption
     DEF OAuthTypeOK, HeldIsFresh, DrawnHasHome, CreateOAuthCode
<1>6. DrawnHasHome'
  BY OAuthAssumption DEF OAuthTypeOK, DrawnHasHome, CreateOAuthCode
<1>7. LiveCodeHeld'
  <2> SUFFICES ASSUME NEW g \in Grants, expiresAt'[g] # 0, ~Old(g)', g \notin spoiled'
               PROVE  g \in oauthCodes'[home'[g]]
    BY DEF LiveCodeHeld
  <2>1. CASE g = c
    BY <2>1, <1>2 DEF OAuthTypeOK, CreateOAuthCode
  <2>2. CASE g # c
    <3>1. expiresAt[g] # 0 /\ ~Old(g) /\ g \notin spoiled /\ home'[g] = home[g]
      BY <2>2 DEF OAuthTypeOK, Old, CreateOAuthCode
    <3>2. g \in oauthCodes[home[g]] /\ home[g] \in Processes
      BY <3>1 DEF LiveCodeHeld, DrawnHasHome
    <3> QED
      BY <3>1, <3>2, <1>1, <1>2 DEF OAuthTypeOK
  <2> QED
    BY <2>1, <2>2
<1> QED
  BY <1>3, <1>4, <1>5, <1>6, <1>7

LEMMA ExchangePreserves ==
  ASSUME CodesInv, NEW p \in Processes, NEW c \in Grants, ExchangeOAuthCode(p, c)
  PROVE  CodesInv'
<1> USE DEF CodesInv, CodesSafe
<1>1. OAuthTypeOK'
  BY DEF OAuthTypeOK, ExchangeOAuthCode
<1>2. TokensOnce'
  BY DEF OAuthTypeOK, TokensOnce, HeldIsFresh, ExchangeOAuthCode
<1>3. HeldIsFresh'
  BY DEF OAuthTypeOK, HeldIsFresh, ExchangeOAuthCode
<1>4. DrawnHasHome'
  BY DEF OAuthTypeOK, DrawnHasHome, ExchangeOAuthCode
<1>5. LiveCodeHeld'
  BY DEF OAuthTypeOK, LiveCodeHeld, DrawnHasHome, Old, ExchangeOAuthCode
<1> QED
  BY <1>1, <1>2, <1>3, <1>4, <1>5

LEMMA RestartPreserves ==
  ASSUME CodesInv, NEW p \in Processes, RestartProcess(p)
  PROVE  CodesInv'
<1> USE DEF CodesInv, CodesSafe
<1>1. OAuthTypeOK' /\ TokensOnce'
  BY DEF OAuthTypeOK, TokensOnce, RestartProcess
<1>2. HeldIsFresh' /\ DrawnHasHome'
  BY DEF OAuthTypeOK, HeldIsFresh, DrawnHasHome, RestartProcess
<1>3. LiveCodeHeld'
  BY DEF OAuthTypeOK, LiveCodeHeld, DrawnHasHome, Old, RestartProcess
<1> QED
  BY <1>1, <1>2, <1>3

LEMMA TickPreserves == ASSUME CodesInv, OAuthTick PROVE CodesInv'
BY OAuthAssumption
   DEF CodesInv, CodesSafe, OAuthTypeOK, TokensOnce, HeldIsFresh, DrawnHasHome, LiveCodeHeld,
       Old, OAuthTick

\* However many processes share the logins and whenever they sweep or restart,
\* a code hands out its tokens once, and is good for its sixty seconds where it
\* was made (createOAuthCode, exchangeOAuthCode).
THEOREM CodesAreSafe == CodesSpec => []CodesSafe
<1>1. OAuthInit => CodesInv
  BY CodesInvInit
<1>2. CodesInv /\ [OAuthNext]_oauthVars => CodesInv'
  <2> SUFFICES ASSUME CodesInv, [OAuthNext]_oauthVars PROVE CodesInv'
    OBVIOUS
  <2>1. CASE OAuthNext
    BY <2>1, CreatePreserves, ExchangePreserves, RestartPreserves, TickPreserves DEF OAuthNext
  <2>2. CASE UNCHANGED oauthVars
    BY <2>2 DEF oauthVars, CodesInv, CodesSafe, OAuthTypeOK, TokensOnce, HeldIsFresh,
                DrawnHasHome, LiveCodeHeld, Old
  <2> QED
    BY <2>1, <2>2
<1>3. CodesInv => CodesSafe
  BY DEF CodesInv
<1> QED
  BY <1>1, <1>2, <1>3, PTL DEF CodesSpec

-----------------------------------------------------------------------------
(* Second factors *)

FactorSpec == FactorInit /\ [][FactorNext]_factorVars

\* A code that still counts has served no login, and one of a lot that was not
\* drawn is neither stored nor spent.
StoredIsUnspent == \A c \in recoveryCodes : spent[c] = 0
DrawnOnly == \A c \in Codes : c[1] > lots => c \notin recoveryCodes /\ spent[c] = 0

\* As long as no two changes overlapped, the one under way still stands on what
\* it has read.
ChangeIsAlone ==
  ~crossed =>
    /\ \A d, e \in Changing : d = e
    /\ \A d \in Desks : On(d, "setup") \/ On(d, "enable") => ~twoFactorEnabled
    /\ \A d \in Desks : On(d, "enable") => twoFactorSecret # 0 /\ desk[d].secret = twoFactorSecret

FactorInv == FactorSafe /\ StoredIsUnspent /\ DrawnOnly /\ ChangeIsAlone

LEMMA CodesTyped == \A c \in Codes : c[1] \in 1..MaxLots
BY DEF Codes

LEMMA FactorInvInit == FactorInit => FactorInv
<1> SUFFICES ASSUME FactorInit PROVE FactorInv
  OBVIOUS
<1>1. FactorTypeOK
  <2>1. twoFactorEnabled \in BOOLEAN /\ crossed \in BOOLEAN /\ recoveryCodes \subseteq Codes
    BY Zenon DEF FactorInit
  <2>2. 0 \in 0..MaxLots
    BY TwoFactorAssumption
  <2>3. desk \in [Desks -> [job : Jobs, secret : 0..MaxLots, code : Codes \cup {NoCode}]
                         \cup {FreeDesk}]
    BY Zenon DEF FactorInit
  <2>4. spent \in [Codes -> Nat]
    BY DEF FactorInit
  <2> QED
    BY <2>1, <2>2, <2>3, <2>4, Zenon DEF FactorInit, FactorTypeOK
<1>2. EnabledIsProven /\ CodeSpentOnce /\ StoredIsUnspent /\ DrawnOnly
  BY DEF FactorInit, EnabledIsProven, CodeSpentOnce, StoredIsUnspent, DrawnOnly
<1>3. ChangeIsAlone
  BY DEF FactorInit, ChangeIsAlone, Changing, On, FreeDesk
<1> QED
  BY <1>1, <1>2, <1>3 DEF FactorInv, FactorSafe

\* A request that only reads.
LEMMA SeatPreserves ==
  ASSUME FactorInv, NEW d \in Desks, NEW job \in Jobs, NEW code \in Codes \cup {NoCode},
         Seat(d, job, code),
         job = "setup" \/ job = "enable" => ~twoFactorEnabled,
         job = "enable" => twoFactorSecret # 0
  PROVE  FactorInv'
<1> USE DEF FactorInv, FactorSafe
<1>1. FactorTypeOK'
  BY DEF FactorTypeOK, Seat, factorDoc
<1>2. StoredIsUnspent' /\ DrawnOnly' /\ EnabledIsProven' /\ CodeSpentOnce'
  BY DEF StoredIsUnspent, DrawnOnly, EnabledIsProven, CodeSpentOnce, Seat, factorDoc
<1>3. ChangeIsAlone'
  BY DEF FactorTypeOK, ChangeIsAlone, Changing, On, Seat, factorDoc, FreeDesk
<1> QED
  BY <1>1, <1>2, <1>3

LEMMA ReadsPreserve ==
  ASSUME FactorInv, NEW d \in Desks,
         \/ ReadForSetup(d) \/ CheckCode(d) \/ CheckToDisable(d) \/ CheckToRenew(d)
         \/ \E c \in Codes : ReadForLogin(d, c)
  PROVE  FactorInv'
BY SeatPreserves DEF ReadForSetup, CheckCode, CheckToDisable, CheckToRenew, ReadForLogin, Jobs

\* A secret or a lot of codes is drawn: its codes are new.
LEMMA StorePreserves ==
  ASSUME FactorInv, NEW d \in Desks, StoreSecret(d) \/ StoreCodes(d)
  PROVE  FactorInv'
<1> USE DEF FactorInv, FactorSafe
<1>1. lots' = lots + 1 /\ recoveryCodes' = Lot(lots + 1) /\ lots' \in 0..MaxLots
  BY TwoFactorAssumption DEF FactorTypeOK, StoreSecret, StoreCodes
<1>2. FactorTypeOK'
  BY <1>1, TwoFactorAssumption DEF FactorTypeOK, StoreSecret, StoreCodes, Rise, Lot
<1>3. StoredIsUnspent' /\ CodeSpentOnce'
  BY <1>1, CodesTyped
     DEF FactorTypeOK, StoredIsUnspent, DrawnOnly, CodeSpentOnce, Lot, StoreSecret, StoreCodes
<1>4. DrawnOnly'
  BY <1>1, CodesTyped DEF FactorTypeOK, DrawnOnly, Lot, StoreSecret, StoreCodes
<1>5. EnabledIsProven' /\ ChangeIsAlone'
  BY TwoFactorAssumption
     DEF FactorTypeOK, EnabledIsProven, ChangeIsAlone, Changing, On, StoreSecret, StoreCodes,
         Rise, FreeDesk
<1> QED
  BY <1>2, <1>3, <1>4, <1>5

LEMMA SwitchPreserves ==
  ASSUME FactorInv, NEW d \in Desks, Enable(d) \/ Disable(d)
  PROVE  FactorInv'
<1> USE DEF FactorInv, FactorSafe
<1>1. FactorTypeOK'
  <2>1. On(d, "enable") => desk[d].secret \in 0..MaxLots
    BY DEF FactorTypeOK, On, FreeDesk
  <2>2. desk' = [desk EXCEPT ![d] = FreeDesk]
    BY DEF Enable, Disable, Rise
  <2>3. CASE Enable(d)
    BY <2>1, <2>2, <2>3 DEF FactorTypeOK, Enable
  <2>4. CASE Disable(d)
    <3>1. 0 \in 0..MaxLots
      BY TwoFactorAssumption
    <3>2. twoFactorEnabled' \in BOOLEAN /\ recoveryCodes' \subseteq Codes
      BY <2>4, Zenon DEF Disable
    <3>3. desk' \in [Desks -> [job : Jobs, secret : 0..MaxLots, code : Codes \cup {NoCode}]
                            \cup {FreeDesk}]
      BY <2>2 DEF FactorTypeOK
    <3> QED
      BY <2>4, <3>1, <3>2, <3>3, Zenon DEF FactorTypeOK, Disable
  <2> QED
    BY <2>3, <2>4
<1>2. StoredIsUnspent' /\ DrawnOnly' /\ CodeSpentOnce'
  BY DEF StoredIsUnspent, DrawnOnly, CodeSpentOnce, Enable, Disable
<1>3. EnabledIsProven' /\ ChangeIsAlone'
  BY DEF FactorTypeOK, EnabledIsProven, ChangeIsAlone, Changing, On, Enable, Disable, Rise,
         FreeDesk
<1> QED
  BY <1>1, <1>2, <1>3

LEMMA SpendPreserves ==
  ASSUME FactorInv, NEW d \in Desks, SpendCode(d)
  PROVE  FactorInv'
<1> USE DEF FactorInv, FactorSafe
<1>1. FactorTypeOK'
  BY DEF FactorTypeOK, SpendCode, Rise
<1>2. StoredIsUnspent' /\ DrawnOnly' /\ CodeSpentOnce'
  BY DEF FactorTypeOK, StoredIsUnspent, DrawnOnly, CodeSpentOnce, SpendCode
<1>3. EnabledIsProven' /\ ChangeIsAlone'
  BY DEF FactorTypeOK, EnabledIsProven, ChangeIsAlone, Changing, On, SpendCode, Rise, FreeDesk
<1> QED
  BY <1>1, <1>2, <1>3

\* In every interleaving of setups, logins and changes a recovery code lets its
\* user in once, and unless two changes overlap the user is only asked for a
\* factor that worked once (TwoFactorService).
THEOREM FactorIsSafe == FactorSpec => []FactorSafe
<1>1. FactorInit => FactorInv
  BY FactorInvInit
<1>2. FactorInv /\ [FactorNext]_factorVars => FactorInv'
  <2> SUFFICES ASSUME FactorInv, [FactorNext]_factorVars PROVE FactorInv'
    OBVIOUS
  <2>1. CASE FactorNext
    BY <2>1, ReadsPreserve, StorePreserves, SwitchPreserves, SpendPreserves DEF FactorNext
  <2>2. CASE UNCHANGED factorVars
    BY <2>2 DEF factorVars, factorDoc, FactorInv, FactorSafe, FactorTypeOK, EnabledIsProven,
                CodeSpentOnce, StoredIsUnspent, DrawnOnly, ChangeIsAlone, Changing, On
  <2> QED
    BY <2>1, <2>2
<1>3. FactorInv => FactorSafe
  BY DEF FactorInv
<1> QED
  BY <1>1, <1>2, <1>3, PTL DEF FactorSpec

-----------------------------------------------------------------------------
(* New accounts *)

AccountsSpec == AccountInit /\ [][AccountNext]_accountVars

\* A mail was sent to an account; what a request does to an account, it does to one
\* that is there, and whoever marks an address has seen its owner.
MailsToAccounts == \A e \in Emails : account[e].token # 0 => Exists(e)
ClerksKnow ==
  \A c \in Clerks :
    /\ clerk[c].task \in {"link", "verify", "resend", "trial", "sub"} => Exists(clerk[c].email)
    /\ clerk[c].task = "verify" => clerk[c].email \in vouched
AccountsInv == AccountsSafe /\ MailsToAccounts /\ ClerksKnow

LEMMA AccountsInvInit == AccountInit => AccountsInv
BY AccountAssumption
   DEF AccountInit, AccountsInv, AccountsSafe, AccountTypeOK, TrialUnlessCut, VerifiedIsVouched,
       MailsToAccounts, ClerksKnow, Exists, NoAccount, Docs, Off

\* A request that has looked at an account, and done nothing yet.
LEMMA ReceivePreserves ==
  ASSUME AccountsInv, NEW c \in Clerks, NEW e \in Emails, NEW task \in Tasks,
         Handles(c, "none"), clerk' = [clerk EXCEPT ![c] = [task |-> task, email |-> e]],
         vouched \subseteq vouched', vouched' \subseteq Emails, task = "verify" => e \in vouched',
         task \in {"link", "verify", "resend", "trial", "sub"} => Exists(e),
         UNCHANGED <<account, trials, tokens, stops, cutShort>>
  PROVE  AccountsInv'
<1> USE DEF AccountsInv, AccountsSafe
<1>1. AccountTypeOK'
  BY DEF AccountTypeOK
<1>2. \A d \in Clerks \ {c} : clerk'[d] = clerk[d]
  BY DEF AccountTypeOK
<1>3. clerk'[c].task = task /\ clerk'[c].email = e
  BY DEF AccountTypeOK
<1>4. VerifiedIsVouched' /\ MailsToAccounts'
  BY DEF VerifiedIsVouched, MailsToAccounts, Exists
<1>5. ClerksKnow'
  BY <1>2, <1>3 DEF ClerksKnow, Exists
<1>6. TrialUnlessCut'
  BY <1>2 DEF TrialUnlessCut, Exists, Handles
<1> QED
  BY <1>1, <1>4, <1>5, <1>6

\* A request that changes an account that is there, and is done with it.
LEMMA ChangePreserves ==
  ASSUME AccountsInv, NEW c \in Clerks, NEW e \in Emails, NEW doc \in Docs, Exists(e),
         doc.exists, doc.google # "none", account' = [account EXCEPT ![e] = doc],
         doc.verified => e \in vouched', vouched \subseteq vouched', vouched' \subseteq Emails,
         clerk' = clerk \/ (clerk[c].task \notin {"trial", "sub"} /\ Drop(c)),
         tokens' \in 0..MaxTokens, UNCHANGED <<trials, stops, cutShort>>
  PROVE  AccountsInv'
<1> USE DEF AccountsInv, AccountsSafe
<1>1. AccountTypeOK'
  BY DEF AccountTypeOK, Drop
<1>2. \A d \in Clerks : clerk'[d] = clerk[d] \/ (d = c /\ clerk'[d].task = "none")
  BY DEF AccountTypeOK, Drop, Off
<1>3. \A f \in Emails : /\ account'[f].exists = account[f].exists
                        /\ account'[f] = account[f] \/ (f = e /\ account'[f] = doc)
  BY DEF AccountTypeOK, Exists, Docs
<1>4. VerifiedIsVouched' /\ MailsToAccounts'
  BY <1>3 DEF VerifiedIsVouched, MailsToAccounts, Exists
<1>5. ClerksKnow'
  BY <1>2, <1>3 DEF ClerksKnow, Exists, AccountTypeOK, Off
<1>6. TrialUnlessCut'
  <2>1. \A d \in Clerks : clerk[d].task \in {"trial", "sub"} => clerk'[d] = clerk[d]
    BY <1>2 DEF AccountTypeOK, Drop
  <2> QED
    BY <1>3, <2>1 DEF TrialUnlessCut, Exists
<1> QED
  BY <1>1, <1>4, <1>5, <1>6

\* A new account goes on to its trial.
LEMMA NewPreserves ==
  ASSUME AccountsInv, NEW c \in Clerks, NEW e \in Emails, e = clerk[c].email,
         Handles(c, "register") \/ Handles(c, "google"),
         ~Exists(e), NEW doc \in Docs, doc.exists, doc.google # "none",
         account' = [account EXCEPT ![e] = doc], doc.verified => e \in vouched',
         vouched \subseteq vouched', vouched' \subseteq Emails,
         Pass(c, "trial"), tokens' \in 0..MaxTokens, UNCHANGED <<trials, stops, cutShort>>
  PROVE  AccountsInv'
<1> USE DEF AccountsInv, AccountsSafe
<1>1. AccountTypeOK'
  BY DEF AccountTypeOK, Pass, Handles, Off, Tasks
<1>2. /\ clerk'[c].task = "trial" /\ clerk'[c].email = e
      /\ \A d \in Clerks \ {c} : clerk'[d] = clerk[d]
  BY DEF AccountTypeOK, Pass, Handles, Off
<1>3. account'[e] = doc /\ \A f \in Emails \ {e} : account'[f] = account[f]
  BY DEF AccountTypeOK
<1>4. VerifiedIsVouched' /\ MailsToAccounts'
  BY <1>3 DEF VerifiedIsVouched, MailsToAccounts, Exists
<1>5. ClerksKnow'
  BY <1>2, <1>3 DEF ClerksKnow, Exists, AccountTypeOK
<1>6. TrialUnlessCut'
  BY <1>2, <1>3 DEF TrialUnlessCut, Exists, Handles
<1> QED
  BY <1>1, <1>4, <1>5, <1>6

\* A request that the index refuses, or that finds the trial there.
LEMMA DropPreserves ==
  ASSUME AccountsInv, NEW c \in Clerks, Drop(c), UNCHANGED <<account, tokens, stops, vouched, cutShort>>,
         trials \subseteq trials', trials' \subseteq Emails,
         clerk[c].task \in {"trial", "sub"} => clerk[c].email \in trials'
  PROVE  AccountsInv'
<1> USE DEF AccountsInv, AccountsSafe
<1>1. AccountTypeOK'
  BY DEF AccountTypeOK, Drop
<1>2. clerk'[c].task = "none" /\ \A d \in Clerks \ {c} : clerk'[d] = clerk[d]
  BY DEF AccountTypeOK, Drop, Off
<1>3. VerifiedIsVouched' /\ MailsToAccounts'
  BY DEF VerifiedIsVouched, MailsToAccounts, Exists
<1>4. ClerksKnow'
  BY <1>2 DEF ClerksKnow, Exists
<1>5. TrialUnlessCut'
  BY <1>2 DEF TrialUnlessCut, Exists
<1> QED
  BY <1>1, <1>3, <1>4, <1>5

LEMMA ClerkHas ==
  ASSUME AccountTypeOK, NEW c \in Clerks, NEW task \in Tasks, Handles(c, task)
  PROVE  clerk[c].email \in Emails /\ clerk[c].task = task
BY DEF AccountTypeOK, Handles, Off, Tasks

LEMMA ReceivesPreserve ==
  ASSUME AccountsInv, NEW c \in Clerks, NEW e \in Emails,
         Register(c, e) \/ GoogleLogin(c, e) \/ VerifyEmail(c, e) \/ ResendVerification(c, e)
  PROVE  AccountsInv'
<1>1. vouched \subseteq Emails /\ (account[e].google = "null" => Exists(e))
  BY DEF AccountsInv, AccountsSafe, AccountTypeOK, Exists
<1>2. account[e].token # 0 => Exists(e)
  BY DEF AccountsInv, MailsToAccounts
<1>3. "register" \in Tasks /\ "google" \in Tasks /\ "link" \in Tasks /\ "verify" \in Tasks
      /\ "resend" \in Tasks
  BY DEF Tasks
<1>4. CASE Register(c, e)
  BY <1>1, <1>3, <1>4, ReceivePreserves DEF Register, Receive
<1>5. CASE GoogleLogin(c, e)
  BY <1>1, <1>3, <1>5, ReceivePreserves DEF GoogleLogin, Receive
<1>6. CASE VerifyEmail(c, e)
  BY <1>1, <1>2, <1>3, <1>6, ReceivePreserves DEF VerifyEmail
<1>7. CASE ResendVerification(c, e)
  BY <1>1, <1>3, <1>7, ReceivePreserves DEF ResendVerification, Receive
<1> QED
  BY <1>4, <1>5, <1>6, <1>7

LEMMA CreatesPreserve ==
  ASSUME AccountsInv, NEW c \in Clerks, CreateWithPassword(c) \/ CreateWithGoogle(c)
  PROVE  AccountsInv'
<1>1. AccountTypeOK /\ "register" \in Tasks /\ "google" \in Tasks /\ MaxTokens \in Nat
  BY AccountAssumption DEF AccountsInv, AccountsSafe, Tasks
<1>2. CASE CreateWithPassword(c)
  <2>1. PICK e \in Emails : e = clerk[c].email /\ clerk[c].task = "register"
    BY <1>1, <1>2, ClerkHas DEF CreateWithPassword
  <2>2. CASE Unique(e, "null")
    <3> DEFINE doc == [google |-> "null", verified |-> FALSE, token |-> tokens + 1, exists |-> TRUE]
    <3>1. tokens' = tokens + 1 /\ tokens' \in 0..MaxTokens /\ account' = [account EXCEPT ![e] = doc]
          /\ Pass(c, "trial") /\ UNCHANGED <<trials, stops, vouched, cutShort>>
      BY <1>1, <1>2, <2>1, <2>2 DEF CreateWithPassword, AccountTypeOK
    <3>2. doc \in Docs /\ doc.exists /\ doc.google # "none" /\ ~doc.verified
      BY <1>1, <3>1 DEF Docs, AccountTypeOK
    <3> HIDE DEF doc
    <3> QED
      BY <1>1, <1>2, <2>1, <2>2, <3>1, <3>2, NewPreserves
         DEF CreateWithPassword, Unique, AccountTypeOK
  <2>3. CASE ~Unique(e, "null")
    BY <1>1, <1>2, <2>1, <2>3, DropPreserves DEF CreateWithPassword, AccountTypeOK
  <2> QED
    BY <2>2, <2>3
<1>3. CASE CreateWithGoogle(c)
  <2>1. PICK e \in Emails : e = clerk[c].email /\ clerk[c].task = "google"
    BY <1>1, <1>3, ClerkHas DEF CreateWithGoogle
  <2>2. CASE Unique(e, "id")
    <3> DEFINE doc == [google |-> "id", verified |-> TRUE, token |-> 0, exists |-> TRUE]
    <3>1. account' = [account EXCEPT ![e] = doc] /\ vouched' = vouched \cup {e}
          /\ Pass(c, "trial") /\ UNCHANGED <<trials, tokens, stops, cutShort>>
      BY <1>3, <2>1, <2>2 DEF CreateWithGoogle
    <3>2. doc \in Docs /\ doc.exists /\ doc.google # "none"
      BY <1>1 DEF Docs
    <3>3. /\ vouched \subseteq vouched' /\ vouched' \subseteq Emails /\ e \in vouched'
          /\ tokens' \in 0..MaxTokens
      BY <1>1, <3>1 DEF AccountTypeOK
    <3>4. ~Exists(e) /\ Handles(c, "google")
      BY <1>3, <2>2 DEF CreateWithGoogle, Unique
    <3> HIDE DEF doc
    <3> QED
      BY <2>1, <3>1, <3>2, <3>3, <3>4, NewPreserves
  <2>3. CASE ~Unique(e, "id")
    BY <1>1, <1>3, <2>1, <2>3, DropPreserves DEF CreateWithGoogle, AccountTypeOK
  <2> QED
    BY <2>2, <2>3
<1> QED
  BY <1>2, <1>3

LEMMA ChangesPreserve ==
  ASSUME AccountsInv, NEW c \in Clerks, LinkGoogle(c) \/ MarkVerified(c) \/ StoreToken(c)
  PROVE  AccountsInv'
<1>1. /\ AccountTypeOK /\ "link" \in Tasks /\ "verify" \in Tasks /\ "resend" \in Tasks
      /\ MaxTokens \in Nat /\ 0 \in 0..MaxTokens /\ VerifiedIsVouched
  BY AccountAssumption DEF AccountsInv, AccountsSafe, Tasks
<1>2. CASE LinkGoogle(c)
  <2>1. PICK e \in Emails : e = clerk[c].email /\ clerk[c].task = "link"
    BY <1>1, <1>2, ClerkHas DEF LinkGoogle
  <2>2. Exists(e) /\ account[e] \in Docs
    BY <1>1, <2>1 DEF AccountsInv, ClerksKnow, AccountTypeOK
  <2> DEFINE doc == [account[e] EXCEPT !.google = "id", !.verified = TRUE]
  <2>3. account' = [account EXCEPT ![e] = doc] /\ vouched' = vouched \cup {e} /\ Drop(c)
        /\ UNCHANGED <<trials, tokens, stops, cutShort>>
    BY <1>1, <1>2, <2>1 DEF LinkGoogle, AccountTypeOK
  <2>4. doc \in Docs /\ doc.exists /\ doc.google # "none"
    BY <2>2 DEF Docs, Exists
  <2> HIDE DEF doc
  <2> QED
    BY <1>1, <2>1, <2>2, <2>3, <2>4, ChangePreserves DEF AccountTypeOK
<1>3. CASE MarkVerified(c)
  <2>1. PICK e \in Emails : e = clerk[c].email /\ clerk[c].task = "verify"
    BY <1>1, <1>3, ClerkHas DEF MarkVerified
  <2>2. Exists(e) /\ e \in vouched /\ account[e] \in Docs
    BY <1>1, <2>1 DEF AccountsInv, ClerksKnow, AccountTypeOK
  <2> DEFINE doc == [account[e] EXCEPT !.verified = TRUE, !.token = 0]
  <2>3. account' = [account EXCEPT ![e] = doc] /\ Drop(c)
        /\ UNCHANGED <<trials, tokens, stops, vouched, cutShort>>
    BY <1>1, <1>3, <2>1 DEF MarkVerified, AccountTypeOK
  <2>4. doc \in Docs /\ doc.exists /\ doc.google # "none"
    BY <1>1, <2>2 DEF Docs, Exists, AccountTypeOK
  <2> HIDE DEF doc
  <2> QED
    BY <1>1, <2>1, <2>2, <2>3, <2>4, ChangePreserves DEF AccountTypeOK
<1>4. CASE StoreToken(c)
  <2>1. PICK e \in Emails : e = clerk[c].email /\ clerk[c].task = "resend"
    BY <1>1, <1>4, ClerkHas DEF StoreToken
  <2>2. Exists(e) /\ account[e] \in Docs
    BY <1>1, <2>1 DEF AccountsInv, ClerksKnow, AccountTypeOK
  <2> DEFINE doc == [account[e] EXCEPT !.token = tokens + 1]
  <2>3. account' = [account EXCEPT ![e] = doc] /\ Drop(c) /\ tokens' \in 0..MaxTokens
        /\ tokens + 1 \in 0..MaxTokens /\ UNCHANGED <<trials, stops, vouched, cutShort>>
    BY <1>1, <1>4, <2>1 DEF StoreToken, AccountTypeOK
  <2>4. doc \in Docs /\ doc.exists /\ doc.google # "none" /\ doc.verified = account[e].verified
    BY <1>1, <2>2, <2>3 DEF Docs, Exists, AccountTypeOK
  <2>5. doc.verified => e \in vouched'
    BY <1>1, <2>3, <2>4 DEF VerifiedIsVouched
  <2> HIDE DEF doc
  <2> QED
    BY <1>1, <2>1, <2>2, <2>3, <2>4, <2>5, ChangePreserves DEF AccountTypeOK
<1> QED
  BY <1>2, <1>3, <1>4

LEMMA TrialsPreserve ==
  ASSUME AccountsInv, NEW c \in Clerks, FindTrial(c) \/ CreateTrial(c)
  PROVE  AccountsInv'
<1>1. /\ AccountTypeOK /\ "trial" \in Tasks /\ "sub" \in Tasks
  BY DEF AccountsInv, AccountsSafe, Tasks
<1>2. PICK e \in Emails : e = clerk[c].email /\ clerk[c].task \in {"trial", "sub"}
  BY <1>1, ClerkHas DEF FindTrial, CreateTrial
<1>3. CASE CreateTrial(c)
  BY <1>1, <1>2, <1>3, DropPreserves DEF CreateTrial, AccountTypeOK
<1>4. CASE FindTrial(c) /\ e \in trials
  BY <1>1, <1>2, <1>4, DropPreserves DEF FindTrial, AccountTypeOK
<1>5. CASE FindTrial(c) /\ e \notin trials
  <2>1. Pass(c, "sub") /\ UNCHANGED <<account, trials, tokens, stops, vouched, cutShort>>
    BY <1>2, <1>5 DEF FindTrial
  <2>2. AccountTypeOK'
    BY <1>1, <1>2, <2>1 DEF AccountTypeOK, Pass, Off
  <2>3. /\ clerk'[c].task = "sub" /\ clerk'[c].email = e
        /\ \A d \in Clerks \ {c} : clerk'[d] = clerk[d]
    BY <1>1, <1>2, <2>1 DEF AccountTypeOK, Pass, Off
  <2>4. VerifiedIsVouched' /\ MailsToAccounts'
    BY <2>1 DEF AccountsInv, AccountsSafe, VerifiedIsVouched, MailsToAccounts, Exists
  <2>5. ClerksKnow'
    BY <1>2, <2>1, <2>3 DEF AccountsInv, ClerksKnow, Exists
  <2>6. TrialUnlessCut'
    BY <1>2, <2>1, <2>3 DEF AccountsInv, AccountsSafe, TrialUnlessCut, Exists
  <2> QED
    BY <2>2, <2>4, <2>5, <2>6 DEF AccountsInv, AccountsSafe
<1> QED
  BY <1>3, <1>4, <1>5 DEF FindTrial

LEMMA StopPreserves ==
  ASSUME AccountsInv, StopAccounts
  PROVE  AccountsInv'
<1> USE DEF AccountsInv, AccountsSafe
<1> DEFINE cut == {clerk[c].email : c \in {c \in Clerks : Handles(c, "trial") \/ Handles(c, "sub")}}
<1>1. /\ cutShort' = cutShort \cup cut /\ clerk' = [c \in Clerks |-> Off]
      /\ UNCHANGED <<account, trials, tokens, vouched>>
  BY DEF StopAccounts
<1>2. \A c \in Clerks : clerk[c].task \in {"trial", "sub"} => clerk[c].email \in cut
  BY DEF Handles
<1>3. cut \subseteq Emails
  BY DEF AccountTypeOK, Handles, Off
<1> HIDE DEF cut
<1>4. \A c \in Clerks : clerk'[c].task = "none"
  BY <1>1 DEF Off
<1>5. AccountTypeOK'
  BY <1>1, <1>3, AccountAssumption DEF AccountTypeOK, StopAccounts
<1>6. VerifiedIsVouched' /\ MailsToAccounts' /\ ClerksKnow'
  BY <1>1, <1>4 DEF VerifiedIsVouched, MailsToAccounts, ClerksKnow, Exists
<1>7. TrialUnlessCut'
  BY <1>1, <1>2 DEF TrialUnlessCut, Exists
<1> QED
  BY <1>5, <1>6, <1>7

LEMMA PurgePreserves ==
  ASSUME AccountsInv, NEW e \in Emails, PurgeStaleVerifyToken(e)
  PROVE  AccountsInv'
<1> USE DEF AccountsInv, AccountsSafe
<1>1. /\ account' = [account EXCEPT ![e].token = 0]
      /\ UNCHANGED <<trials, clerk, tokens, stops, vouched, cutShort>>
  BY DEF PurgeStaleVerifyToken
<1>2. account[e] \in Docs /\ 0 \in 0..MaxTokens
  BY AccountAssumption DEF AccountTypeOK
<1>3. \A f \in Emails : /\ account'[f].exists = account[f].exists
                        /\ account'[f].google = account[f].google
                        /\ account'[f].verified = account[f].verified
                        /\ account'[f].token \in {0, account[f].token}
  BY <1>1, <1>2 DEF AccountTypeOK, Docs
<1>4. AccountTypeOK'
  <2>1. [account[e] EXCEPT !.token = 0] \in Docs
    BY <1>2 DEF Docs
  <2>2. account' \in [Emails -> Docs]
    BY <1>1, <2>1 DEF AccountTypeOK
  <2> QED
    BY <1>1, <1>3, <2>2 DEF AccountTypeOK
<1>5. VerifiedIsVouched' /\ MailsToAccounts' /\ ClerksKnow'
  BY <1>1, <1>3 DEF VerifiedIsVouched, MailsToAccounts, ClerksKnow, Exists, AccountTypeOK, Off
<1>6. TrialUnlessCut'
  BY <1>1, <1>3 DEF TrialUnlessCut, Exists
<1> QED
  BY <1>4, <1>5, <1>6

\* Each account gets its trial unless its request is cut off before, and no address is
\* verified whose owner was not seen, however many requests for it there are at once,
\* whichever way they come and wherever they stop (AuthService).
THEOREM AccountsAreSafe == AccountsSpec => []AccountsSafe
<1>1. AccountInit => AccountsInv
  BY AccountsInvInit
<1>2. AccountsInv /\ [AccountNext]_accountVars => AccountsInv'
  <2> SUFFICES ASSUME AccountsInv, [AccountNext]_accountVars PROVE AccountsInv'
    OBVIOUS
  <2>1. CASE AccountNext
    BY <2>1, ReceivesPreserve, CreatesPreserve, ChangesPreserve, TrialsPreserve, StopPreserves,
       PurgePreserves DEF AccountNext
  <2>2. CASE UNCHANGED accountVars
    BY <2>2 DEF accountVars, AccountsInv, AccountsSafe, AccountTypeOK, TrialUnlessCut,
                VerifiedIsVouched, MailsToAccounts, ClerksKnow, Exists
  <2> QED
    BY <2>1, <2>2
<1>3. AccountsInv => AccountsSafe
  BY DEF AccountsInv
<1> QED
  BY <1>1, <1>2, <1>3, PTL DEF AccountsSpec

-----------------------------------------------------------------------------
(* Keys at rest *)

KeysSpec == KeyInit /\ [][KeyNext]_keyVars

\* What opens a text, and what a factor, follows from the keys and labels of today
\* alone, whatever they were before.
LEMMA KeysOpen == KeyTypeOK => KeysSafe
<1> SUFFICES ASSUME KeyTypeOK PROVE KeysSafe
  OBVIOUS
<1>1. /\ env.key \in EncKeys \cup {"none"} /\ env.prev \in EncKeys \cup {"none"}
      /\ env.factor \in EncKeys \cup {"none"} /\ "none" \notin EncKeys \cup Labels
      /\ env.label \in Labels
  BY KeyAssumption DEF KeyTypeOK, Environments, OrNone
<1>2. \A c \in sealed : c.key \in EncKeys /\ c.label \in Labels \cup {"none"}
  BY DEF KeyTypeOK, Ciphertexts, OrNone
<1>3. \A c \in sealed : /\ PickKey(c) \in {env.key, env.prev}
                        /\ PickKey(c) = "none" =>
                             env.key = "none" /\ (env.prev = "none" \/ c.label = env.label)
  BY <1>1, <1>2 DEF PickKey
<1>4. \A c \in sealed : Tried(c) = {env.key, env.prev}
  BY <1>3 DEF Tried
<1>5. OpensWithEitherKey /\ TextOnlyWhenOff
  BY <1>1, <1>2, <1>3, <1>4 DEF OpensWithEitherKey, TextOnlyWhenOff, OpenText
<1>6. FactorsOutliveRotation
  <2>1. \A f \in factors : f.key \in EncKeys \cup {"jwt"}
    BY DEF KeyTypeOK
  <2> QED
    BY <1>1, <2>1 DEF FactorsOutliveRotation, OpenFactor, FactorKey
<1> QED
  BY <1>5, <1>6 DEF KeysSafe

\* What was sealed under the current or the previous key opens, whatever sequence of
\* deployments set the keys and labels, and is taken for plain text only while
\* encryption is off; a second factor outlives a new payload key (PayloadCrypto,
\* TwoFactorService).
THEOREM KeysAreSafe == KeysSpec => []KeysSafe
<1>1. KeyInit => KeyTypeOK
  BY DEF KeyInit, KeyTypeOK, Ciphertexts, OrNone
<1>2. KeyTypeOK /\ [KeyNext]_keyVars => KeyTypeOK'
  <2> SUFFICES ASSUME KeyTypeOK, [KeyNext]_keyVars PROVE KeyTypeOK'
    OBVIOUS
  <2>1. env \in Environments /\ env.key \in OrNone(EncKeys) /\ env.label \in Labels
        /\ env.factor \in OrNone(EncKeys)
    BY DEF KeyTypeOK, Environments
  <2>2. env.key # "none" => TodaysCipher \in Ciphertexts
    BY <2>1 DEF TodaysCipher, Ciphertexts, OrNone
  <2>3. CASE \E n \in DOMAIN env, v \in OrNone(EncKeys) \cup Labels : Deploy(n, v)
    BY <2>3 DEF KeyTypeOK, Deploy
  <2>4. CASE Seal
    BY <2>2, <2>4 DEF KeyTypeOK, Seal
  <2>5. CASE SealFactor
    <3>1. FactorKey \in EncKeys \cup {"jwt"}
      BY <2>1 DEF FactorKey, OrNone
    <3>2. [key |-> FactorKey, own |-> env.factor # "none"]
            \in [key : EncKeys \cup {"jwt"}, own : BOOLEAN]
      BY <3>1, Zenon
    <3>3. factors' = factors \cup {[key |-> FactorKey, own |-> env.factor # "none"]}
      BY <2>5 DEF SealFactor
    <3>4. factors' \subseteq [key : EncKeys \cup {"jwt"}, own : BOOLEAN]
      BY <3>2, <3>3, Zenon DEF KeyTypeOK
    <3> QED
      BY <2>5, <3>4 DEF KeyTypeOK, SealFactor
  <2>6. ASSUME NEW c \in sealed \cup {Plain}, SaveSecret(c)
        PROVE  KeyTypeOK'
    BY <2>2, <2>6 DEF KeyTypeOK, SaveSecret, EncryptIfNeeded
  <2>7. CASE UNCHANGED keyVars
    BY <2>7 DEF KeyTypeOK, keyVars
  <2> QED
    BY <2>3, <2>4, <2>5, <2>6, <2>7 DEF KeyNext
<1> QED
  BY <1>1, <1>2, KeysOpen, PTL DEF KeysSpec

-----------------------------------------------------------------------------
(* The secret as text: a base32 written by hand *)

Base32Spec == Base32Init /\ [][Base32Next]_base32Vars

\* The bytes, and after them zeros; a character takes five bits of two of them.
ByteOf(bytes, k) == IF k \in 1..Len(bytes) THEN bytes[k] ELSE 0
Pair(p, b, from) == (p * 256 + b) \div 2^from
Bits5(p, b, from) == Pair(p, b, from) % 32
TextShows ==
  \A c \in 1..Len(text), k \in Nat, o \in 0..7 :
    5 * (c - 1) = 8 * k + o => text[c] = Bits5(ByteOf(secret, k + 1), ByteOf(secret, k + 2), 11 - o)

\* While the text grows the word ends with the last byte, of which bits are left.
Encoding ==
  /\ bits \in 0..4 /\ 5 * Len(text) + bits = 8 * Len(secret)
  /\ word % 256 = ByteOf(secret, Len(secret)) /\ read = 0 /\ back = <<>>

\* The decoder's word ends with the first bits of a byte.
EndsWith(w, p, n) == w % 2^n = p \div 2^(8 - n)
\* Here it is the byte that comes out next.
Decoding ==
  /\ 8 * Len(secret) <= 5 * Len(text) /\ 5 * Len(text) < 8 * Len(secret) + 5
  /\ 5 * read = 8 * Len(back) + bits /\ Len(back) <= Len(secret)
  /\ \A k \in 1..Len(back) : back[k] = secret[k]
  /\ EndsWith(word, ByteOf(secret, Len(back) + 1), bits)

Base32Inv ==
  /\ Base32TypeOK /\ TextShows /\ (IF ended THEN Decoding ELSE Encoding)

LEMMA Powers ==
  /\ 2^0 = 1 /\ 2^1 = 2 /\ 2^2 = 4 /\ 2^3 = 8 /\ 2^4 = 16 /\ 2^5 = 32 /\ 2^6 = 64
  /\ 2^7 = 128 /\ 2^8 = 256 /\ 2^9 = 512 /\ 2^10 = 1024 /\ 2^11 = 2048
BY SMT

LEMMA Sizes == Bytes \subseteq 0..255 /\ MaxBytes \in Nat /\ Words \in Nat \ {0}
BY Base32Assumption

\* What is cut off a word does not show in its last twelve bits.
Agree(v, u) == v % 4096 = u % 4096

LEMMA WordKeeps ==
  ASSUME NEW n \in Nat
  PROVE  n % Words \in 0..(Words - 1) /\ Agree(n % Words, n)
<1> DEFINE k == Words \div 4096
           d == n \div Words
           r == n % Words
           j == k * d
<1>1. Words = 4096 * k /\ k \in Nat /\ Words \in Nat /\ Words > 0
  <2>1. \A w \in Nat : w % 4096 = 0 => w = 4096 * (w \div 4096) /\ w \div 4096 \in Nat
    BY SMT
  <2> QED BY <2>1, Base32Assumption
<1>2. r = n - Words * d /\ d \in Nat /\ r \in 0..(Words - 1)
  <2>1. n % Words \in 0..(Words - 1)
    BY <1>1, SMT
  <2>2. n \div Words \in Nat
    BY <1>1, SMT
  <2>3. n % Words = n - Words * (n \div Words)
    BY <1>1, SMT
  <2> QED BY <2>1, <2>2, <2>3
<1> HIDE DEF k, d, r
<1>3. Words * d = 4096 * j /\ j \in Nat
  BY <1>1, <1>2, SMT
<1> HIDE DEF j
<1>4. n = 4096 * j + r /\ r \in Nat
  <2>1. r \in Nat
    BY <1>1, <1>2
  <2> QED BY <1>2, <1>3, <2>1
<1>5. r % 4096 = n % 4096
  BY <1>3, <1>4, SMT
<1> QED BY <1>2, <1>5 DEF r, Agree

\* Five bits of a byte do not depend on the byte that follows.
LEMMA Upper ==
  ASSUME NEW p \in 0..255, NEW b \in 0..255, NEW o \in 0..3
  PROVE  Bits5(p, b, 11 - o) = (p \div 2^(3 - o)) % 32
<1>1. /\ (p * 256 + b) \div 256 = p /\ (p * 256 + b) \div 512 = p \div 2
      /\ (p * 256 + b) \div 1024 = p \div 4 /\ (p * 256 + b) \div 2048 = p \div 8
      /\ p \div 1 = p
  BY SMT
<1>2. CASE o = 0
  <2>1. 2^(11 - o) = 2048 /\ 2^(3 - o) = 8
    BY <1>2, Powers
  <2> QED BY <1>1, <2>1 DEF Bits5, Pair
<1>3. CASE o = 1
  <2>1. 2^(11 - o) = 1024 /\ 2^(3 - o) = 4
    BY <1>3, Powers
  <2> QED BY <1>1, <2>1 DEF Bits5, Pair
<1>4. CASE o = 2
  <2>1. 2^(11 - o) = 512 /\ 2^(3 - o) = 2
    BY <1>4, Powers
  <2> QED BY <1>1, <2>1 DEF Bits5, Pair
<1>5. CASE o = 3
  <2>1. 2^(11 - o) = 256 /\ 2^(3 - o) = 1
    BY <1>5, Powers
  <2> QED BY <1>1, <2>1 DEF Bits5, Pair
<1> QED BY <1>2, <1>3, <1>4, <1>5

LEMMA Lower ==
  ASSUME NEW p \in 0..255, NEW b \in 0..255, NEW w \in Nat, NEW e \in 0..7,
         Agree(w, p * 256 + b)
  PROVE  /\ Low(w, e, 5) = Bits5(p, b, e)
         /\ e <= 3 => Low(w, e, 5) = Bits5(b, 0, e + 8)
<1>1. CASE e = 0 BY <1>1, Powers DEF Bits5, Pair, Low, Agree
<1>2. CASE e = 1 BY <1>2, Powers DEF Bits5, Pair, Low, Agree
<1>3. CASE e = 2 BY <1>3, Powers DEF Bits5, Pair, Low, Agree
<1>4. CASE e = 3 BY <1>4, Powers DEF Bits5, Pair, Low, Agree
<1>5. CASE e = 4
  <2>1. (w \div 16) % 32 = ((p * 256 + b) \div 16) % 32
    BY SMT DEF Agree
  <2>2. 2^e = 16 /\ 2^5 = 32 /\ ~(e <= 3)
    BY <1>5, Powers
  <2> QED BY <2>1, <2>2 DEF Bits5, Pair, Low
<1>6. CASE e = 5
  <2>1. (w \div 32) % 32 = ((p * 256 + b) \div 32) % 32
    BY SMT DEF Agree
  <2>2. 2^e = 32 /\ 2^5 = 32 /\ ~(e <= 3)
    BY <1>6, Powers
  <2> QED BY <2>1, <2>2 DEF Bits5, Pair, Low
<1>7. CASE e = 6
  <2>1. (w \div 64) % 32 = ((p * 256 + b) \div 64) % 32
    BY SMT DEF Agree
  <2>2. 2^e = 64 /\ 2^5 = 32 /\ ~(e <= 3)
    BY <1>7, Powers
  <2> QED BY <2>1, <2>2 DEF Bits5, Pair, Low
<1>8. CASE e = 7 BY <1>8, Powers DEF Bits5, Pair, Low, Agree
<1> QED BY <1>1, <1>2, <1>3, <1>4, <1>5, <1>6, <1>7, <1>8

\* It ends with these, and those of one more character.
Extended(w, p, b, n) ==
  \E z \in Nat : w * 32 + Bits5(p, b, 11 - n) = 2^(n + 5) * z + Pair(p, b, 11 - n)

LEMMA PowerShift ==
  ASSUME NEW o \in 0..7
  PROVE  2^o \in Nat \ {0} /\ 2^(o + 5) = 32 * 2^o
<1>1. CASE o = 0 BY <1>1, Powers
<1>2. CASE o = 1 BY <1>2, Powers
<1>3. CASE o = 2 BY <1>3, Powers
<1>4. CASE o = 3 BY <1>4, Powers
<1>5. CASE o = 4 BY <1>5, Powers
<1>6. CASE o = 5 BY <1>6, Powers
<1>7. CASE o = 6 BY <1>7, Powers
<1>8. CASE o = 7 BY <1>8, Powers
<1> QED BY <1>1, <1>2, <1>3, <1>4, <1>5, <1>6, <1>7, <1>8

LEMMA PairShift ==
  ASSUME NEW p \in 0..255, NEW b \in 0..255, NEW o \in 0..7
  PROVE  /\ Pair(p, b, 11 - o) \in Nat
         /\ Pair(p, b, 11 - o) \div 32 = p \div 2^(8 - o)
<1>1. CASE o = 0 BY <1>1, Powers DEF Pair
<1>2. CASE o = 1 BY <1>2, Powers DEF Pair
<1>3. CASE o = 2 BY <1>3, Powers DEF Pair
<1>4. CASE o = 3 BY <1>4, Powers DEF Pair
<1>5. CASE o = 4 BY <1>5, Powers DEF Pair
<1>6. CASE o = 5 BY <1>6, Powers DEF Pair
<1>7. CASE o = 6 BY <1>7, Powers DEF Pair
<1>8. CASE o = 7 BY <1>8, Powers DEF Pair
<1> QED BY <1>1, <1>2, <1>3, <1>4, <1>5, <1>6, <1>7, <1>8

\* What the decoder's word ends with after a character: all bits of the pair
\* that have been read.
LEMMA Joined ==
  ASSUME NEW p \in 0..255, NEW b \in 0..255, NEW w \in Nat, NEW o \in 0..7,
         EndsWith(w, p, o)
  PROVE  Extended(w, p, b, o)
<1> DEFINE a == 2^o
           z == w \div a
           u == Pair(p, b, 11 - o)
           y == u \div 32
           x == Bits5(p, b, 11 - o)
           az == a * z
<1>1. a \in Nat \ {0} /\ 2^(o + 5) = 32 * a /\ u \in Nat /\ y = p \div 2^(8 - o)
  <2>1. 2^o \in Nat \ {0} /\ 2^(o + 5) = 32 * 2^o
    BY PowerShift
  <2>2. /\ Pair(p, b, 11 - o) \in Nat
        /\ Pair(p, b, 11 - o) \div 32 = p \div 2^(8 - o)
    BY PairShift
  <2> QED BY <2>1, <2>2, Zenon
<1>2. x = u % 32
  BY DEF Bits5
<1>3. w % a = y
  BY <1>1 DEF EndsWith
<1> HIDE DEF a, u, x
<1>4. z \in Nat /\ az \in Nat /\ w = az + y
  <2>1. z \in Nat
    BY <1>1, SMT
  <2>2. w % a = w - a * z
    BY <1>1, SMT
  <2>3. a * z \in Nat
    BY <1>1, <2>1, SMT
  <2>4. y \in Nat
    BY <1>1, SMT
  <2> HIDE DEF z, y
  <2> QED BY <1>3, <2>1, <2>2, <2>3, <2>4
<1>5. x = u - 32 * y /\ y \in Nat
  BY <1>1, <1>2, SMT
<1> HIDE DEF y, az
<1>6. w * 32 + x = 32 * az + u
  BY <1>1, <1>4, <1>5
<1>7. 2^(o + 5) * z = 32 * az
  <2> HIDE DEF z
  <2>1. (32 * a) * z = 32 * (a * z)
    BY <1>1, <1>4, SMT
  <2> QED BY <1>1, <2>1 DEF az
<1> HIDE DEF z
<1>8. w * 32 + x = 2^(o + 5) * z + u
  BY <1>6, <1>7
<1> QED BY <1>4, <1>8 DEF Extended, x, u

Divisors == {1, 2, 4, 8, 16}

LEMMA AgreeParts ==
  ASSUME NEW v \in Nat, NEW u \in Nat, Agree(v, u), NEW a \in Divisors
  PROVE  v % a = u % a /\ (v \div a) % 256 = (u \div a) % 256
<1>1. v % 4096 = u % 4096
  BY DEF Agree
<1>2. CASE a = 1 BY <1>1, <1>2, SMT
<1>3. CASE a = 2 BY <1>1, <1>3, SMT
<1>4. CASE a = 4 BY <1>1, <1>4, SMT
<1>5. CASE a = 8 BY <1>1, <1>5, SMT
<1>6. CASE a = 16 BY <1>1, <1>6, SMT
<1> QED BY <1>2, <1>3, <1>4, <1>5, <1>6 DEF Divisors

\* Decoding a character: the byte grows by five bits or is complete.
LEMMA ShortByte ==
  ASSUME NEW p \in 0..255, NEW b \in 0..255, NEW w \in Nat, NEW v \in Nat, NEW o \in 0..2,
         EndsWith(w, p, o),
         Agree(v, w * 32 + Bits5(p, b, 11 - o))
  PROVE  EndsWith(v, p, o + 5)
<1>1. o \in 0..7
  OBVIOUS
<1>2. Extended(w, p, b, o)
  BY <1>1, Joined
<1>3. PICK z \in Nat :
        w * 32 + Bits5(p, b, 11 - o) = 2^(o + 5) * z + Pair(p, b, 11 - o)
  BY <1>2 DEF Extended
<1>4. CASE o = 0
  <2>1. 2^(11 - o) = 2048 /\ 2^(o + 5) = 32 /\ 2^(8 - (o + 5)) = 8
    BY <1>4, Powers
  <2>2. (p * 256 + b) \div 2048 = p \div 8 /\ p \div 8 \in 0..31
    BY SMT
  <2>3. v % 4096 = (32 * z + p \div 8) % 4096
    BY <1>3, <2>1, <2>2 DEF Agree, Pair
  <2>4. v % 32 = (32 * z + p \div 8) % 32
    BY <2>2, <2>3, SMT
  <2>5. (32 * z + p \div 8) % 32 = p \div 8
    BY <2>2, SMT
  <2> QED BY <2>1, <2>4, <2>5 DEF EndsWith
<1>5. CASE o = 1
  <2>1. 2^(11 - o) = 1024 /\ 2^(o + 5) = 64 /\ 2^(8 - (o + 5)) = 4
    BY <1>5, Powers
  <2>2. (p * 256 + b) \div 1024 = p \div 4 /\ p \div 4 \in 0..63
    BY SMT
  <2>3. v % 4096 = (64 * z + p \div 4) % 4096
    BY <1>3, <2>1, <2>2 DEF Agree, Pair
  <2>4. v % 64 = (64 * z + p \div 4) % 64
    BY <2>2, <2>3, SMT
  <2>5. (64 * z + p \div 4) % 64 = p \div 4
    BY <2>2, SMT
  <2> QED BY <2>1, <2>4, <2>5 DEF EndsWith
<1>6. CASE o = 2
  <2>1. 2^(11 - o) = 512 /\ 2^(o + 5) = 128 /\ 2^(8 - (o + 5)) = 2
    BY <1>6, Powers
  <2>2. (p * 256 + b) \div 512 = p \div 2 /\ p \div 2 \in 0..127
    BY SMT
  <2>3. v % 4096 = (128 * z + p \div 2) % 4096
    BY <1>3, <2>1, <2>2 DEF Agree, Pair
  <2>4. v % 128 = (128 * z + p \div 2) % 128
    BY <2>2, <2>3, SMT
  <2>5. (128 * z + p \div 2) % 128 = p \div 2
    BY <2>2, SMT
  <2> QED BY <2>1, <2>4, <2>5 DEF EndsWith
<1> QED BY <1>4, <1>5, <1>6

LEMMA FullByte ==
  ASSUME NEW p \in 0..255, NEW b \in 0..255, NEW w \in Nat, NEW v \in Nat, NEW o \in 3..7,
         EndsWith(w, p, o),
         Agree(v, w * 32 + Bits5(p, b, 11 - o))
  PROVE  Low(v, o - 3, 8) = p /\ EndsWith(v, b, o - 3)
<1>1. o \in 0..7
  OBVIOUS
<1>2. Extended(w, p, b, o)
  BY <1>1, Joined
<1>3. PICK z \in Nat :
        w * 32 + Bits5(p, b, 11 - o) = 2^(o + 5) * z + Pair(p, b, 11 - o)
  BY <1>2 DEF Extended
<1> DEFINE u == 2^(o + 5) * z + Pair(p, b, 11 - o)
           a == 2^(o - 3)
<1>4. /\ a \in Divisors /\ u \in Nat
      /\ u % a = b \div 2^(8 - (o - 3)) /\ u \div a = 256 * z + p
  <2>1. CASE o = 3
    <3>1. 2^(11 - o) = 256 /\ 2^(o + 5) = 256 /\ a = 1 /\ 2^(8 - (o - 3)) = 256
      BY <2>1, Powers
    <3>2. (p * 256 + b) \div 256 = p + b \div 256 /\ b \div 256 \in 0..0
      BY SMT
    <3>3. u = 256 * z + p + b \div 256
      BY <3>1, <3>2 DEF Pair
    <3>4. u \in Nat
      BY <3>2, <3>3
    <3>5. /\ (256 * z + p + b \div 256) % 1 = b \div 256
          /\ (256 * z + p + b \div 256) \div 1 = 256 * z + p
      BY <3>2, SMT
    <3>6. a \in Divisors
      BY <3>1 DEF Divisors
    <3> HIDE DEF u, a
    <3> QED BY <3>1, <3>3, <3>4, <3>5, <3>6
  <2>2. CASE o = 4
    <3>1. 2^(11 - o) = 128 /\ 2^(o + 5) = 512 /\ a = 2 /\ 2^(8 - (o - 3)) = 128
      BY <2>2, Powers
    <3>2. (p * 256 + b) \div 128 = 2 * p + b \div 128 /\ b \div 128 \in 0..1
      BY SMT
    <3>3. u = 512 * z + 2 * p + b \div 128
      BY <3>1, <3>2 DEF Pair
    <3>4. u \in Nat
      BY <3>2, <3>3
    <3>5. /\ (512 * z + 2 * p + b \div 128) % 2 = b \div 128
          /\ (512 * z + 2 * p + b \div 128) \div 2 = 256 * z + p
      BY <3>2, SMT
    <3>6. a \in Divisors
      BY <3>1 DEF Divisors
    <3> HIDE DEF u, a
    <3> QED BY <3>1, <3>3, <3>4, <3>5, <3>6
  <2>3. CASE o = 5
    <3>1. 2^(11 - o) = 64 /\ 2^(o + 5) = 1024 /\ a = 4 /\ 2^(8 - (o - 3)) = 64
      BY <2>3, Powers
    <3>2. (p * 256 + b) \div 64 = 4 * p + b \div 64 /\ b \div 64 \in 0..3
      BY SMT
    <3>3. u = 1024 * z + 4 * p + b \div 64
      BY <3>1, <3>2 DEF Pair
    <3>4. u \in Nat
      BY <3>2, <3>3
    <3>5. /\ (1024 * z + 4 * p + b \div 64) % 4 = b \div 64
          /\ (1024 * z + 4 * p + b \div 64) \div 4 = 256 * z + p
      BY <3>2, SMT
    <3>6. a \in Divisors
      BY <3>1 DEF Divisors
    <3> HIDE DEF u, a
    <3> QED BY <3>1, <3>3, <3>4, <3>5, <3>6
  <2>4. CASE o = 6
    <3>1. 2^(11 - o) = 32 /\ 2^(o + 5) = 2048 /\ a = 8 /\ 2^(8 - (o - 3)) = 32
      BY <2>4, Powers
    <3>2. (p * 256 + b) \div 32 = 8 * p + b \div 32 /\ b \div 32 \in 0..7
      BY SMT
    <3>3. u = 2048 * z + 8 * p + b \div 32
      BY <3>1, <3>2 DEF Pair
    <3>4. u \in Nat
      BY <3>2, <3>3
    <3>5. /\ (2048 * z + 8 * p + b \div 32) % 8 = b \div 32
          /\ (2048 * z + 8 * p + b \div 32) \div 8 = 256 * z + p
      BY <3>2, SMT
    <3>6. a \in Divisors
      BY <3>1 DEF Divisors
    <3> HIDE DEF u, a
    <3> QED BY <3>1, <3>3, <3>4, <3>5, <3>6
  <2>5. CASE o = 7
    <3>1. 2^(11 - o) = 16 /\ 2^(o + 5) = 4096 /\ a = 16 /\ 2^(8 - (o - 3)) = 16
      BY <2>5, Powers
    <3>2. (p * 256 + b) \div 16 = 16 * p + b \div 16 /\ b \div 16 \in 0..15
      BY SMT
    <3>3. u = 4096 * z + 16 * p + b \div 16
      BY <3>1, <3>2 DEF Pair
    <3>4. u \in Nat
      BY <3>2, <3>3
    <3>5. /\ (4096 * z + 16 * p + b \div 16) % 16 = b \div 16
          /\ (4096 * z + 16 * p + b \div 16) \div 16 = 256 * z + p
      BY <3>2, SMT
    <3>6. a \in Divisors
      BY <3>1 DEF Divisors
    <3> HIDE DEF u, a
    <3> QED BY <3>1, <3>3, <3>4, <3>5, <3>6
  <2> QED BY <2>1, <2>2, <2>3, <2>4, <2>5
<1>5. Agree(v, u)
  BY <1>3
<1> HIDE DEF u, a
<1>6. v % a = u % a /\ (v \div a) % 256 = (u \div a) % 256
  <2>1. a \in Divisors /\ u \in Nat
    BY <1>4
  <2> QED BY <1>5, <2>1, AgreeParts
<1>7. (256 * z + p) % 256 = p
  BY SMT
<1>8. (v \div a) % 256 = p /\ v % a = b \div 2^(8 - (o - 3))
  BY <1>4, <1>6, <1>7
<1>9. 2^8 = 256
  BY Powers
<1> QED BY <1>8, <1>9 DEF Low, EndsWith, a

\* The bits that are left, padded with zeros.
Padded(w, r) == (w * 2^(5 - r)) % 32

LEMMA Padding ==
  ASSUME NEW p \in 0..255, NEW w \in Nat, NEW r \in 1..4, w % 256 = p
  PROVE  Padded(w, r) = Bits5(p, 0, 3 + r) /\ Padded(w, r) \in 0..31
<1>1. CASE r = 1
  <2>1. 2^(5 - r) = 16 /\ 2^(3 + r) = 16
    BY <1>1, Powers
  <2>2. (w * 16) % 32 = ((p * 256 + 0) \div 16) % 32 /\ (w * 16) % 32 \in 0..31
    BY SMT
  <2> QED BY <2>1, <2>2 DEF Bits5, Pair, Padded
<1>2. CASE r = 2
  <2>1. 2^(5 - r) = 8 /\ 2^(3 + r) = 32
    BY <1>2, Powers
  <2>2. (w * 8) % 32 = ((p * 256 + 0) \div 32) % 32 /\ (w * 8) % 32 \in 0..31
    BY SMT
  <2> QED BY <2>1, <2>2 DEF Bits5, Pair, Padded
<1>3. CASE r = 3
  <2>1. 2^(5 - r) = 4 /\ 2^(3 + r) = 64
    BY <1>3, Powers
  <2>2. (w * 4) % 32 = ((p * 256 + 0) \div 64) % 32 /\ (w * 4) % 32 \in 0..31
    BY SMT
  <2> QED BY <2>1, <2>2 DEF Bits5, Pair, Padded
<1>4. CASE r = 4
  <2>1. 2^(5 - r) = 2 /\ 2^(3 + r) = 128
    BY <1>4, Powers
  <2>2. (w * 2) % 32 = ((p * 256 + 0) \div 128) % 32 /\ (w * 2) % 32 \in 0..31
    BY SMT
  <2> QED BY <2>1, <2>2 DEF Bits5, Pair, Padded
<1> QED BY <1>1, <1>2, <1>3, <1>4

\* A character is one of thirty-two.
LEMMA Character ==
  ASSUME NEW w \in Nat, NEW e \in 0..7
  PROVE  Low(w, e, 5) \in 0..31
<1>1. CASE e = 0 BY <1>1, Powers DEF Low
<1>2. CASE e = 1 BY <1>2, Powers DEF Low
<1>3. CASE e = 2 BY <1>3, Powers DEF Low
<1>4. CASE e = 3 BY <1>4, Powers DEF Low
<1>5. CASE e = 4 BY <1>5, Powers DEF Low
<1>6. CASE e = 5 BY <1>6, Powers DEF Low
<1>7. CASE e = 6 BY <1>7, Powers DEF Low
<1>8. CASE e = 7 BY <1>8, Powers DEF Low
<1> QED BY <1>1, <1>2, <1>3, <1>4, <1>5, <1>6, <1>7, <1>8

\* A byte is shifted in: the word ends with it and the one before.
LEMMA TwoBytes ==
  ASSUME NEW p \in 0..255, NEW b \in 0..255, NEW w \in Nat, w % 256 = p
  PROVE  Agree(w * 256 + b, p * 256 + b)
<1>1. w = 256 * (w \div 256) + p /\ w \div 256 \in Nat
  BY SMT
<1> DEFINE q == w \div 256
<1>2. w * 256 + b = 65536 * q + (p * 256 + b) /\ q \in Nat
  BY <1>1
<1> HIDE DEF q
<1>3. (65536 * q + (p * 256 + b)) % 4096 = (p * 256 + b) % 4096
  BY <1>2, SMT
<1> QED BY <1>2, <1>3 DEF Agree

LEMMA LastByte ==
  ASSUME NEW p \in 0..255, NEW b \in 0..255, NEW w \in Nat, Agree(w, p * 256 + b)
  PROVE  w % 256 = b
BY SMT DEF Agree

LEMMA ByteOfByte ==
  ASSUME Base32TypeOK
  PROVE  \A k \in Nat : ByteOf(secret, k) \in 0..255
<1>1. \A k \in 1..Len(secret) : secret[k] \in Bytes
  BY ElementOfSeq DEF Base32TypeOK
<1>2. \A k \in 1..Len(secret) : secret[k] \in 0..255
  BY <1>1, Sizes
<1> QED BY <1>2 DEF ByteOf

LEMMA Base32InvInit == Base32Init => Base32Inv
<1> SUFFICES ASSUME Base32Init PROVE Base32Inv
  OBVIOUS
<1>1. Base32TypeOK
  <2>1. 0 \in 0..(Words - 1)
    BY Sizes
  <2>2. <<>> \in Seq(Bytes) /\ <<>> \in Seq(0..31) /\ <<>> \in Seq(0..255) /\ Len(<<>>) = 0
    BY EmptySeq
  <2>3. MaxBytes \in Nat
    BY Sizes
  <2>4. secret \in Seq(Bytes) /\ Len(secret) <= MaxBytes /\ text \in Seq(0..31) /\ Len(text) = 0
    BY <2>2, <2>3 DEF Base32Init
  <2>5. read \in 0..Len(text) /\ back \in Seq(0..255) /\ word \in 0..(Words - 1) /\ bits \in 0..7
    BY <2>1, <2>2, <2>4 DEF Base32Init
  <2> QED BY <2>4, <2>5 DEF Base32Init, Base32TypeOK
<1>2. TextShows /\ Encoding /\ ~ended
  BY DEF Base32Init, TextShows, Encoding, ByteOf
<1> QED BY <1>1, <1>2 DEF Base32Inv

LEMMA EncodePreserves ==
  ASSUME Base32Inv, NEW b \in Bytes, EncodeByte(b)
  PROVE  Base32Inv'
<1> DEFINE m == Len(secret)
           t == Len(text)
           p == ByteOf(secret, m)
           n == (bits + 8) \div 5
           e(j) == bits + 8 - 5 * j
           new == [k \in 1..n |-> Low(word', bits + 8 - 5 * k, 5)]
<1> HIDE DEF p
<1>1. /\ Base32TypeOK /\ TextShows /\ Encoding /\ ~ended
      /\ b \in 0..255 /\ m \in Nat /\ t \in Nat /\ p \in 0..255 /\ word \in Nat
  BY ByteOfByte, Sizes DEF Base32Inv, Base32TypeOK, EncodeByte, p
<1>2. bits \in 0..4 /\ 5 * t + bits = 8 * m
  BY <1>1 DEF Encoding
<1>3. n \in 1..2 /\ bits' = bits + 8 - 5 * n /\ bits' \in 0..4
  BY <1>2, SMT DEF EncodeByte
<1>4. word' \in 0..(Words - 1) /\ word' \in Nat /\ Agree(word', p * 256 + b) /\ word' % 256 = b
  <2>1. word * 256 + b \in Nat /\ word' = (word * 256 + b) % Words
    BY <1>1, Powers DEF EncodeByte, ShiftIn
  <2>2. word' \in 0..(Words - 1) /\ Agree(word', word * 256 + b)
    BY <2>1, WordKeeps
  <2>3. word % 256 = p
    BY <1>1 DEF Encoding, p
  <2>4. Agree(word * 256 + b, p * 256 + b)
    BY <1>1, <2>3, TwoBytes
  <2>5. word' \in Nat
    BY <2>2, Sizes
  <2>6. Agree(word', p * 256 + b)
    BY <2>2, <2>4 DEF Agree
  <2>7. word' % 256 = b
    BY <1>1, <2>5, <2>6, LastByte
  <2> QED BY <2>2, <2>5, <2>6, <2>7
<1>5. /\ secret' \in Seq(Bytes) /\ Len(secret') = m + 1 /\ m + 1 <= MaxBytes
      /\ \A k \in 1..m : secret'[k] = secret[k]
      /\ secret'[m + 1] = b
  BY <1>1, Sizes DEF EncodeByte, Base32TypeOK
<1>6. /\ \A k \in 1..m : ByteOf(secret', k) = ByteOf(secret, k)
      /\ ByteOf(secret', m + 1) = b /\ ByteOf(secret', m + 2) = 0
  <2>1. m + 1 \in 1..Len(secret') /\ m + 2 \notin 1..Len(secret')
    BY <1>1, <1>5
  <2>2. \A k \in 1..m : k \in 1..Len(secret')
    BY <1>1, <1>5
  <2>3. \A k \in 1..m : ByteOf(secret', k) = ByteOf(secret, k)
    BY <1>5, <2>2 DEF ByteOf
  <2>4. ByteOf(secret', m + 1) = b /\ ByteOf(secret', m + 2) = 0
    BY <1>5, <2>1 DEF ByteOf
  <2> QED BY <2>3, <2>4
<1>7. \A j \in 1..n : e(j) \in 0..7 /\ new[j] = Low(word', e(j), 5)
  BY <1>2, <1>3
<1>8. \A j \in 1..n : new[j] \in 0..31
  BY <1>4, <1>7, Character
<1>9. new \in Seq(0..31) /\ Len(new) = n
  <2>1. new \in [1..n -> 0..31]
    BY <1>8
  <2> HIDE DEF new
  <2>2. n \in Nat
    BY <1>3
  <2>3. new \in Seq(0..31)
    BY <2>1, <2>2, SeqDef
  <2>4. DOMAIN new = 1..n
    BY <2>1
  <2> QED BY <2>2, <2>3, <2>4, LenProperties
<1>10. /\ text' \in Seq(0..31) /\ Len(text') = t + n
       /\ \A c \in 1..t : text'[c] = text[c]
       /\ \A j \in 1..n : text'[t + j] = new[j]
  <2> HIDE DEF new, n
  <2>1. text' = text \o new
    BY DEF EncodeByte, new, n
  <2>2. text \in Seq(0..31)
    BY <1>1 DEF Base32TypeOK
  <2>3. /\ text \o new \in Seq(0..31) /\ Len(text \o new) = t + n
        /\ \A c \in 1..(t + n) : (text \o new)[c] = IF c <= t THEN text[c] ELSE new[c - t]
    BY <1>9, <2>2, ConcatProperties
  <2>4. \A c \in 1..t : text'[c] = text[c]
    BY <1>1, <1>3, <2>1, <2>3
  <2>5. \A j \in 1..n : text'[t + j] = new[j]
    <3> TAKE j \in 1..n
    <3>1. t + j \in 1..(t + n) /\ ~(t + j <= t) /\ (t + j) - t = j
      BY <1>1, <1>3
    <3> QED BY <2>1, <2>3, <3>1
  <2> QED BY <2>1, <2>3, <2>4, <2>5
<1> HIDE DEF new, n
<1>11. TextShows'
  <2> SUFFICES ASSUME NEW c \in 1..(t + n), NEW k \in Nat, NEW o \in 0..7,
                      5 * (c - 1) = 8 * k + o
               PROVE  text'[c] = Bits5(ByteOf(secret', k + 1), ByteOf(secret', k + 2), 11 - o)
    BY <1>10 DEF TextShows
  <2>1. CASE c <= t
    <3>1. text'[c] = Bits5(ByteOf(secret, k + 1), ByteOf(secret, k + 2), 11 - o)
      <4>1. c \in 1..t
        BY <1>1, <2>1
      <4>2. text[c] = Bits5(ByteOf(secret, k + 1), ByteOf(secret, k + 2), 11 - o)
        BY <1>1, <4>1 DEF TextShows
      <4> QED BY <1>10, <4>1, <4>2
    <3>2. 8 * k + o + 5 <= 8 * m
      BY <1>1, <1>2, <2>1
    <3>3. k + 1 \in 1..m /\ ByteOf(secret', k + 1) = ByteOf(secret, k + 1)
      BY <1>1, <1>6, <3>2
    <3>4. CASE k + 2 <= m
      BY <1>6, <3>1, <3>3, <3>4
    <3>5. CASE k + 1 = m
      <4>1. o \in 0..3
        BY <3>2, <3>5
      <4>2. k + 2 = m + 1 /\ ByteOf(secret', k + 2) \in 0..255 /\ ByteOf(secret, k + 2) \in 0..255
             /\ ByteOf(secret, k + 1) \in 0..255
        <5>1. k + 2 = m + 1 /\ k + 1 \in Nat /\ k + 2 \in Nat
          BY <1>1, <3>5
        <5>2. ByteOf(secret, k + 1) \in 0..255 /\ ByteOf(secret, k + 2) \in 0..255
          BY <1>1, <5>1, ByteOfByte
        <5>3. ByteOf(secret', k + 2) = b
          BY <1>6, <5>1
        <5> QED BY <1>1, <5>1, <5>2, <5>3
      <4>3. /\ Bits5(ByteOf(secret, k + 1), ByteOf(secret, k + 2), 11 - o) = (ByteOf(secret, k + 1) \div 2^(3 - o)) % 32
            /\ Bits5(ByteOf(secret, k + 1), ByteOf(secret', k + 2), 11 - o) = (ByteOf(secret, k + 1) \div 2^(3 - o)) % 32
        BY <4>1, <4>2, Upper
      <4> QED BY <3>1, <3>3, <4>3
    <3> QED BY <1>1, <3>3, <3>4, <3>5
  <2>2. CASE c > t
    <3> DEFINE j == c - t
               d == e(j)
    <3>1. j \in 1..n /\ c = t + j
      BY <1>1, <1>3, <2>2
    <3>2. text'[c] = Low(word', d, 5) /\ d \in 0..7
      BY <1>7, <1>10, <3>1
    <3>3. d = 8 * (m - k) + 3 - o
      BY <1>1, <1>2, <1>3, <3>1
    <3> HIDE DEF d
    <3>4. (k = m /\ o = 3 - d /\ d <= 3) \/ (k + 1 = m /\ o = 11 - d)
      <4>1. m \in Nat /\ d \in 0..7 /\ 8 * (m - k) = d + o - 3
        BY <1>1, <3>2, <3>3
      <4>2. m - k = 0 \/ m - k = 1
        BY <4>1
      <4> QED BY <4>1, <4>2
    <3>5. Low(word', d, 5) = Bits5(p, b, d) /\ (d <= 3 => Low(word', d, 5) = Bits5(b, 0, d + 8))
      <4>1. p \in 0..255 /\ b \in 0..255 /\ word' \in Nat /\ d \in 0..7 /\ Agree(word', p * 256 + b)
        BY <1>1, <1>4, <3>2
      <4> HIDE DEF p
      <4> QED BY <4>1, Lower, Zenon
    <3>6. CASE k = m /\ o = 3 - d /\ d <= 3
      <4>1. k + 1 = m + 1 /\ k + 2 = m + 2 /\ 11 - o = d + 8
        BY <1>1, <3>2, <3>6
      <4>2. ByteOf(secret', k + 1) = b /\ ByteOf(secret', k + 2) = 0
        BY <1>6, <4>1
      <4> QED BY <3>2, <3>5, <3>6, <4>1, <4>2
    <3>7. CASE k + 1 = m /\ o = 11 - d
      <4>1. k + 1 = m /\ k + 2 = m + 1 /\ 11 - o = d /\ m \in 1..m
        BY <1>1, <3>2, <3>7
      <4>2. ByteOf(secret', k + 1) = p /\ ByteOf(secret', k + 2) = b
        BY <1>6, <4>1 DEF p
      <4> QED BY <3>2, <3>5, <4>1, <4>2
    <3> QED BY <3>4, <3>6, <3>7
  <2> QED BY <1>1, <1>3, <2>1, <2>2
<1>12. Encoding' /\ ~ended'
  <2>1. 5 * (t + n) + bits' = 8 * (m + 1)
    BY <1>1, <1>2, <1>3
  <2>2. read' = 0 /\ back' = <<>> /\ ~ended'
    BY <1>1 DEF EncodeByte, Encoding
  <2>3. word' % 256 = ByteOf(secret', m + 1)
    BY <1>4, <1>6
  <2> QED BY <1>3, <1>5, <1>10, <2>1, <2>2, <2>3 DEF Encoding
<1>13. Base32TypeOK'
  <2>1. ended' \in BOOLEAN /\ bits' \in 0..7 /\ read' = 0 /\ back' = <<>>
    BY <1>1, <1>3 DEF Base32TypeOK, EncodeByte, Encoding
  <2>2. read' \in 0..Len(text')
    BY <1>1, <1>3, <1>10, <2>1
  <2>3. back' \in Seq(0..255) /\ Len(secret') <= MaxBytes
    BY <1>5, <2>1
  <2> QED BY <1>4, <1>5, <1>10, <2>1, <2>2, <2>3 DEF Base32TypeOK
<1> QED BY <1>11, <1>12, <1>13 DEF Base32Inv

LEMMA EndPreserves ==
  ASSUME Base32Inv, EndText
  PROVE  Base32Inv'
<1> DEFINE m == Len(secret)
           t == Len(text)
           p == ByteOf(secret, m)
           x == Padded(word, bits)
<1>1. /\ Base32TypeOK /\ TextShows /\ Encoding /\ ~ended /\ secret' = secret
      /\ m \in Nat /\ t \in Nat /\ p \in 0..255 /\ word \in Nat
      /\ secret \in Seq(Bytes) /\ text \in Seq(0..31)
  BY ByteOfByte, Sizes DEF Base32Inv, Base32TypeOK, EndText
<1>2. bits \in 0..4 /\ 5 * t + bits = 8 * m
  BY <1>1 DEF Encoding
<1>3. word % 256 = p
  BY <1>1 DEF Encoding
<1>4. bits > 0 => x = Bits5(p, 0, 3 + bits) /\ x \in 0..31
  <2> SUFFICES ASSUME bits > 0 PROVE x = Bits5(p, 0, 3 + bits) /\ x \in 0..31
    OBVIOUS
  <2>1. bits \in 1..4
    BY <1>2
  <2>2. p \in 0..255 /\ word \in Nat /\ word % 256 = p
    BY <1>1, <1>3
  <2> HIDE DEF p
  <2> QED BY <2>1, <2>2, Padding
<1> HIDE DEF x
<1>5. /\ text' \in Seq(0..31) /\ Len(text') = IF bits > 0 THEN t + 1 ELSE t
      /\ \A c \in 1..t : text'[c] = text[c]
      /\ bits > 0 => text'[t + 1] = x
  BY <1>1, <1>4 DEF EndText, x, Padded
<1>6. TextShows'
  <2> SUFFICES ASSUME NEW c \in 1..Len(text'), NEW k \in Nat, NEW o \in 0..7,
                      5 * (c - 1) = 8 * k + o
               PROVE  text'[c] = Bits5(ByteOf(secret, k + 1), ByteOf(secret, k + 2), 11 - o)
    BY <1>1 DEF TextShows
  <2>1. CASE c <= t
    BY <1>1, <1>5, <2>1 DEF TextShows
  <2>2. CASE c > t
    <3>1. bits > 0 /\ c = t + 1
      BY <1>1, <1>5, <2>2
    <3>2. k + 1 = m /\ k + 2 = m + 1 /\ 11 - o = 3 + bits
      <4>1. t \in Nat /\ m \in Nat /\ bits \in 1..4
        BY <1>1, <1>2, <3>1
      <4>2. 8 * k + o + bits = 8 * m
        BY <1>2, <3>1, <4>1
      <4>3. k + 1 = m
        BY <4>1, <4>2
      <4> QED BY <4>1, <4>2, <4>3
    <3>3. ByteOf(secret, m + 1) = 0
      BY <1>1 DEF ByteOf
    <3> QED BY <1>4, <1>5, <3>1, <3>2, <3>3
  <2> QED BY <1>1, <1>5, <2>1, <2>2
<1>7. ended' /\ word' = 0 /\ bits' = 0 /\ read' = 0 /\ back' = <<>>
  BY <1>1 DEF EndText, Encoding
<1>8. Decoding'
  <2>1. 8 * m <= 5 * Len(text') /\ 5 * Len(text') < 8 * m + 5
    BY <1>1, <1>2, <1>5
  <2>2. EndsWith(0, ByteOf(secret, 1), 0)
    <3>1. \A u \in 0..255 : u \div 256 = 0
      BY SMT
    <3>2. 2^0 = 1 /\ 2^(8 - 0) = 256 /\ 0 % 1 = 0
      BY Powers, SMT
    <3>3. ByteOf(secret, 1) \in 0..255
      BY <1>1, ByteOfByte
    <3> QED BY <3>1, <3>2, <3>3 DEF EndsWith
  <2>3. Len(back') = 0 /\ Len(back') + 1 = 1 /\ \A k \in 1..Len(back') : back'[k] = secret[k]
    BY <1>7
  <2>4. EndsWith(word', ByteOf(secret', Len(back') + 1), bits')
    BY <1>1, <1>7, <2>2, <2>3
  <2> QED BY <1>1, <1>7, <2>1, <2>3, <2>4 DEF Decoding
<1>9. Base32TypeOK'
  <2>1. 0 \in 0..(Words - 1) /\ back \in Seq(0..255) /\ Len(secret) <= MaxBytes
    BY <1>1, Sizes DEF Base32TypeOK
  <2>2. read' \in 0..Len(text') /\ back' \in Seq(0..255)
    BY <1>1, <1>5, <1>7, <2>1 DEF EndText
  <2> QED BY <1>1, <1>5, <1>7, <2>1, <2>2 DEF Base32TypeOK
<1> QED BY <1>6, <1>7, <1>8, <1>9 DEF Base32Inv

LEMMA DecodePreserves ==
  ASSUME Base32Inv, DecodeChar
  PROVE  Base32Inv'
<1> DEFINE m == Len(secret)
           t == Len(text)
           l == Len(back)
           p == ByteOf(secret, l + 1)
           b == ByteOf(secret, l + 2)
           x == text[read + 1]
<1>1. /\ Base32TypeOK /\ TextShows /\ Decoding /\ ended
      /\ secret' = secret /\ text' = text /\ ended' = ended
      /\ m \in Nat /\ t \in Nat /\ l \in Nat
      /\ word \in Nat /\ bits \in 0..7 /\ read \in Nat /\ read < t /\ read' = read + 1
      /\ back \in Seq(0..255)
  BY Sizes DEF Base32Inv, Base32TypeOK, DecodeChar
<1>2. p \in 0..255 /\ b \in 0..255
  <2>1. l + 1 \in Nat /\ l + 2 \in Nat
    BY <1>1
  <2> QED BY <1>1, <2>1, ByteOfByte
<1>3. /\ 8 * m <= 5 * t /\ 5 * t < 8 * m + 5 /\ 5 * read = 8 * l + bits /\ l <= m
      /\ \A k \in 1..l : back[k] = secret[k]
      /\ EndsWith(word, p, bits)
  BY <1>1 DEF Decoding
<1>4. x = Bits5(p, b, 11 - bits) /\ x \in 0..31
  <2>1. read + 1 \in 1..t /\ 5 * ((read + 1) - 1) = 8 * l + bits
    BY <1>1, <1>3
  <2>2. \A o \in 0..7 : 5 * ((read + 1) - 1) = 8 * l + o => x = Bits5(p, b, 11 - o)
    BY <1>1, <2>1 DEF TextShows
  <2>3. text \in Seq(0..31)
    BY <1>1 DEF Base32TypeOK
  <2> QED BY <1>1, <2>1, <2>2, <2>3, ElementOfSeq
<1> HIDE DEF x, p, b
<1>5. word' \in 0..(Words - 1) /\ word' \in Nat /\ Agree(word', word * 32 + Bits5(p, b, 11 - bits))
  <2>1. word * 32 + x \in Nat /\ word' = (word * 32 + x) % Words
    <3>1. word' = (word * 32 + x) % Words
      BY Powers DEF DecodeChar, ShiftIn, x
    <3>2. x \in Nat
      BY <1>4
    <3> QED BY <1>1, <3>1, <3>2
  <2>2. word' \in 0..(Words - 1) /\ Agree(word', word * 32 + x)
    BY <2>1, WordKeeps
  <2> QED BY <1>4, <2>2, Sizes
<1>6. TextShows'
  BY <1>1 DEF TextShows
<1>7. read' \in 0..Len(text') /\ 5 * read' = 5 * read + 5 /\ 5 * read' <= 5 * t
  BY <1>1
<1>8. CASE bits + 5 < 8
  <2>1. bits' = bits + 5 /\ back' = back /\ bits \in 0..2 /\ bits' \in 0..7
    BY <1>1, <1>8 DEF DecodeChar
  <2>2. EndsWith(word', p, bits + 5)
    BY <1>1, <1>2, <1>3, <1>5, <2>1, ShortByte
  <2>3. EndsWith(word', ByteOf(secret', Len(back') + 1), bits')
    BY <1>1, <2>1, <2>2 DEF p
  <2>4. 5 * read' = 8 * l + bits'
    BY <1>1, <1>3, <1>7, <2>1
  <2>5. Decoding'
    BY <1>1, <1>3, <2>1, <2>3, <2>4 DEF Decoding
  <2>6. Base32TypeOK'
    BY <1>1, <1>5, <1>7, <2>1 DEF Base32TypeOK
  <2> QED BY <1>1, <1>6, <2>5, <2>6 DEF Base32Inv
<1>9. CASE ~(bits + 5 < 8)
  <2>1. /\ bits' = bits - 3 /\ back' = Append(back, Low(word', bits - 3, 8))
        /\ bits \in 3..7 /\ bits' \in 0..7
    BY <1>1, <1>9 DEF DecodeChar
  <2>2. Low(word', bits - 3, 8) = p /\ EndsWith(word', b, bits - 3)
    BY <1>1, <1>2, <1>3, <1>5, <2>1, FullByte
  <2>3. /\ back' = Append(back, p) /\ back' \in Seq(0..255) /\ Len(back') = l + 1
        /\ back'[l + 1] = p /\ \A k \in 1..l : back'[k] = back[k]
    <3>1. back' = Append(back, p)
      BY <2>1, <2>2
    <3> QED BY <1>1, <1>2, <3>1
  <2>4. 5 * read' = 8 * (l + 1) + bits'
    BY <1>1, <1>3, <1>7, <2>1
  <2>5. l + 1 <= m
    <3>1. m \in Nat /\ l \in Nat /\ bits' \in 0..7
      BY <1>1, <2>1
    <3>2. 8 * (l + 1) + bits' < 8 * m + 5
      BY <1>1, <1>3, <1>7, <2>4
    <3>3. 8 * (l + 1) < 8 * m + 5
      BY <3>1, <3>2
    <3> QED BY <3>1, <3>3
  <2>6. p = secret[l + 1]
    BY <1>1, <2>5 DEF ByteOf, p
  <2>7. \A k \in 1..(l + 1) : back'[k] = secret[k]
    BY <1>1, <1>3, <2>3, <2>6
  <2>8. EndsWith(word', ByteOf(secret', Len(back') + 1), bits')
    <3>1. Len(back') + 1 = l + 2
      BY <1>1, <2>3
    <3> QED BY <1>1, <2>1, <2>2, <3>1 DEF b
  <2>9. Decoding'
    BY <1>1, <1>3, <2>3, <2>4, <2>5, <2>7, <2>8 DEF Decoding
  <2>10. Base32TypeOK'
    BY <1>1, <1>5, <1>7, <2>1, <2>3 DEF Base32TypeOK
  <2> QED BY <1>1, <1>6, <2>9, <2>10 DEF Base32Inv
<1> QED BY <1>8, <1>9

LEMMA Base32InvStep == Base32Inv /\ [Base32Next]_base32Vars => Base32Inv'
<1> SUFFICES ASSUME Base32Inv, [Base32Next]_base32Vars PROVE Base32Inv'
  OBVIOUS
<1>1. ASSUME NEW b \in Bytes, EncodeByte(b) PROVE Base32Inv'
  BY <1>1, EncodePreserves
<1>2. CASE EndText
  BY <1>2, EndPreserves
<1>3. CASE DecodeChar
  BY <1>3, DecodePreserves
<1>4. CASE UNCHANGED base32Vars
  BY <1>4 DEF Base32Inv, Base32TypeOK, TextShows, Encoding, Decoding, base32Vars
<1> QED BY <1>1, <1>2, <1>3, <1>4 DEF Base32Next

\* What has come out when the text is read agrees with the secret, and its length
\* differs by less than a byte.
LEMMA Base32InvSafe == Base32Inv => Base32Safe
<1> SUFFICES ASSUME Base32Inv PROVE SecretComesBack
  BY DEF Base32Inv, Base32Safe
<1>1. /\ Base32TypeOK /\ (IF ended THEN Decoding ELSE Encoding) /\ ended \in BOOLEAN
      /\ back \in Seq(0..255) /\ secret \in Seq(Bytes) /\ bits \in 0..7
      /\ Len(secret) \in Nat /\ Len(back) \in Nat
      /\ Len(text) \in Nat /\ read \in Nat
  BY DEF Base32Inv, Base32TypeOK
<1>2. Len(back) <= Len(secret) /\ \A k \in DOMAIN back : back[k] = secret[k]
  <2>1. CASE ended
    BY <1>1, <2>1, LenProperties DEF Decoding
  <2>2. CASE ~ended
    BY <1>1, <2>2 DEF Encoding
  <2> QED BY <2>1, <2>2
<1>3. ASSUME ended, read = Len(text) PROVE back = secret
  <2>1. Len(back) = Len(secret)
    BY <1>1, <1>3 DEF Decoding
  <2>2. \A k \in 1..Len(back) : back[k] = secret[k]
    BY <1>1, <1>2, LenProperties
  <2>3. back \in [1..Len(back) -> 0..255] /\ secret \in [1..Len(secret) -> Bytes]
    BY <1>1, LenProperties
  <2> QED BY <2>1, <2>2, <2>3
<1> QED BY <1>2, <1>3 DEF SecretComesBack

\* A secret of any length comes back as it was, byte for byte, though the word its
\* bits go through is never masked (base32Encode, base32Decode).
THEOREM SecretsComeBack == Base32Spec => []Base32Safe
BY Base32InvInit, Base32InvStep, Base32InvSafe, PTL DEF Base32Spec
=============================================================================
