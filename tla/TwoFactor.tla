----------------------------- MODULE TwoFactor -----------------------------
(***************************************************************************)
(* The second factor of one user (TwoFactorService): a secret, whether it  *)
(* is asked for, and recovery codes.  Secrets and lots of recovery codes   *)
(* are numbered as they are drawn; every request reads the user first and  *)
(* writes without looking again.                                           *)
(***************************************************************************)
EXTENDS Naturals, FiniteSets

CONSTANTS
  Desks,    \* requests served at a time
  PerLot,   \* RECOVERY_CODE_COUNT
  MaxLots   \* bound: secrets and lots drawn

ASSUME TwoFactorAssumption == PerLot \in Nat /\ MaxLots \in Nat

VARIABLES
  twoFactorEnabled, twoFactorSecret, recoveryCodes,  \* of the user document
  desk,     \* per request: what it does, and the secret or code it has
  lots,     \* secrets and lots drawn
  proven,   \* history: the secret a code was last shown for
  crossed,  \* history: have two requests that change the secret overlapped?
  spent     \* history: per code, logins it has served

factorDoc == <<twoFactorEnabled, twoFactorSecret, recoveryCodes>>
factorVars == <<factorDoc, desk, lots, proven, crossed, spent>>

Codes == (1..MaxLots) \X (1..PerLot)
Lot(n) == {c \in Codes : c[1] = n}
FreeDesk == [job |-> "none"]
NoCode == <<0, 0>>
Jobs == {"setup", "enable", "disable", "renew", "recover"}

FactorTypeOK ==
  /\ twoFactorEnabled \in BOOLEAN /\ twoFactorSecret \in 0..MaxLots
  /\ recoveryCodes \subseteq Codes
  /\ desk \in [Desks -> [job : Jobs, secret : 0..MaxLots, code : Codes \cup {NoCode}]
                        \cup {FreeDesk}]
  /\ lots \in 0..MaxLots /\ proven \in 0..MaxLots /\ crossed \in BOOLEAN
  /\ spent \in [Codes -> Nat]

FactorInit ==
  /\ twoFactorEnabled = FALSE /\ twoFactorSecret = 0 /\ recoveryCodes = {}
  /\ desk = [d \in Desks |-> FreeDesk] /\ lots = 0
  /\ proven = 0 /\ crossed = FALSE /\ spent = [c \in Codes |-> 0]

On(d, job) == desk[d].job = job
Rise(d) == desk' = [desk EXCEPT ![d] = FreeDesk]

\* A request has read the user.  history crossed: see above.
Changing == {d \in Desks : desk[d].job \in {"setup", "enable", "disable"}}
Seat(d, job, code) ==
  /\ On(d, "none")
  /\ desk' = [desk EXCEPT ![d] = [job |-> job, secret |-> twoFactorSecret, code |-> code]]
  /\ crossed' = (crossed \/ (job \in {"setup", "enable", "disable"} /\ Changing # {}))
  /\ UNCHANGED <<factorDoc, lots, proven, spent>>

\* generateSetup: a secret and its recovery codes, unless it is enabled.
ReadForSetup(d) == ~twoFactorEnabled /\ Seat(d, "setup", NoCode)
StoreSecret(d) ==
  /\ On(d, "setup") /\ lots < MaxLots /\ lots' = lots + 1
  /\ twoFactorSecret' = lots + 1 /\ recoveryCodes' = Lot(lots + 1)
  /\ Rise(d)
  /\ UNCHANGED <<twoFactorEnabled, proven, crossed, spent>>

\* Mutant: the secret need not be there, nor a code be shown for it.
EnableUnseen(d) == ~twoFactorEnabled /\ Seat(d, "enable", NoCode)

\* verifyAndEnable: the user shows a code of the secret that was read.
CheckCode(d) ==
  ~twoFactorEnabled /\ twoFactorSecret # 0 /\ Seat(d, "enable", NoCode)
Enable(d) ==
  /\ On(d, "enable")
  /\ twoFactorEnabled' = TRUE /\ proven' = desk[d].secret
  /\ Rise(d)
  /\ UNCHANGED <<twoFactorSecret, recoveryCodes, lots, crossed, spent>>

\* disable; without a secret the decryption throws.
CheckToDisable(d) ==
  twoFactorEnabled /\ twoFactorSecret # 0 /\ Seat(d, "disable", NoCode)

\* Mutant: only the secret and the codes are cleared.
DisableHalf(d) ==
  /\ On(d, "disable") /\ UNCHANGED twoFactorEnabled
  /\ twoFactorSecret' = 0 /\ recoveryCodes' = {}
  /\ Rise(d)
  /\ UNCHANGED <<lots, proven, crossed, spent>>
Disable(d) ==
  /\ On(d, "disable")
  /\ twoFactorEnabled' = FALSE /\ twoFactorSecret' = 0 /\ recoveryCodes' = {}
  /\ Rise(d)
  /\ UNCHANGED <<lots, proven, crossed, spent>>

\* regenerateRecoveryCodes.
CheckToRenew(d) == twoFactorEnabled /\ twoFactorSecret # 0 /\ Seat(d, "renew", NoCode)
StoreCodes(d) ==
  /\ On(d, "renew") /\ lots < MaxLots /\ lots' = lots + 1
  /\ recoveryCodes' = Lot(lots + 1)
  /\ Rise(d)
  /\ UNCHANGED <<twoFactorEnabled, twoFactorSecret, proven, crossed, spent>>

\* validateLoginCode with a code that is no TOTP code: any code ever drawn.
ReadForLogin(d, c) ==
  /\ twoFactorEnabled /\ twoFactorSecret # 0 /\ c[1] <= lots
  /\ Seat(d, "recover", c)

\* Mutant: the code is looked up when the user is read, and pulled later.
SpendUnchecked(d) ==
  /\ On(d, "recover")
  /\ recoveryCodes' = recoveryCodes \ {desk[d].code}
  /\ spent' = [spent EXCEPT ![desk[d].code] = @ + 1]
  /\ Rise(d)
  /\ UNCHANGED <<twoFactorEnabled, twoFactorSecret, lots, proven, crossed>>

\* The code is found and pulled in one update.
SpendCode(d) ==
  /\ On(d, "recover")
  /\ recoveryCodes' = recoveryCodes \ {desk[d].code}
  /\ spent' = IF desk[d].code \in recoveryCodes
              THEN [spent EXCEPT ![desk[d].code] = @ + 1] ELSE spent
  /\ Rise(d)
  /\ UNCHANGED <<twoFactorEnabled, twoFactorSecret, lots, proven, crossed>>

FactorNext ==
  \E d \in Desks :
    \/ ReadForSetup(d) \/ StoreSecret(d) \/ CheckCode(d) \/ Enable(d)
    \/ CheckToDisable(d) \/ Disable(d) \/ CheckToRenew(d) \/ StoreCodes(d)
    \/ \E c \in Codes : ReadForLogin(d, c)
    \/ SpendCode(d)

-----------------------------------------------------------------------------
(* Properties *)

\* A second factor that is asked for is one the user has shown a code for,
\* unless requests that set it up, enable or disable it have overlapped: then
\* the user may be asked for a secret he never saw work, or that is gone.
EnabledIsProven ==
  twoFactorEnabled => crossed \/ (twoFactorSecret # 0 /\ twoFactorSecret = proven)

\* A recovery code lets its user in once.
CodeSpentOnce == \A c \in Codes : spent[c] <= 1

\* What a second factor and its recovery codes are worth (TwoFactorService).
FactorSafe ==
  /\ FactorTypeOK /\ EnabledIsProven /\ CodeSpentOnce
=============================================================================
