------------------------------ MODULE Sessions ------------------------------
(***************************************************************************)
(* Logins, refresh tokens and password resets of one user (AuthService).   *)
(*                                                                         *)
(* A worker serves a request that reads first and writes later; a request  *)
(* that is one write is one step.  A refresh token is signed over the user *)
(* and the second it is issued in, so it is that second: two tokens of one *)
(* second are the same.  An epoch is the time between two requests that    *)
(* end all sessions.                                                       *)
(***************************************************************************)
EXTENDS Naturals, FiniteSets

CONSTANTS
  Workers,                       \* requests served at a time
  MaxSecond, MaxRows, MaxLinks, MaxEpochs  \* bounds: time, tokens, links, epochs

ASSUME SessionAssumption ==
  MaxSecond \in Nat /\ MaxRows \in Nat /\ MaxLinks \in Nat /\ MaxEpochs \in Nat
  /\ IsFiniteSet(Workers)

VARIABLES
  sessions,  \* rows: a number, the token, the epoch its login was checked in
  second,    \* the clock tokens are stamped with
  resetLink, \* the reset token in the user document, 0 for none
  work,      \* per worker
  epoch, issued, mailed, logins,    \* counters
  suspended, \* the status of the account
  lateRefresh, linkUses, linkShared \* history, see the properties

authVars == <<sessions, second, resetLink, work, suspended, epoch, issued, mailed,
              logins, lateRefresh, linkUses, linkShared>>
authHistory == <<lateRefresh, linkUses, linkShared>>

SessionRows == [no : 1..MaxRows, token : 0..MaxSecond, epoch : 0..MaxEpochs, late : BOOLEAN]
Resting == [op |-> "none"]
Works == [op : {"issue", "challenge", "pull", "reset", "change", "mail"}, token : 0..MaxSecond,
          epoch : 0..MaxEpochs, late : BOOLEAN, link : 0..MaxLinks]

SessionTypeOK ==
  /\ sessions \subseteq SessionRows /\ second \in 0..MaxSecond
  /\ \A s, t \in sessions : s.no = t.no => s = t
  /\ resetLink \in 0..MaxLinks /\ work \in [Workers -> Works \cup {Resting}]
  /\ suspended \in BOOLEAN /\ epoch \in 0..MaxEpochs /\ issued \in 0..MaxRows /\ mailed \in 0..MaxLinks
  /\ logins \in 0..MaxRows /\ lateRefresh \in Nat
  /\ linkUses \in [1..MaxLinks -> Nat] /\ linkShared \subseteq 1..MaxLinks

SessionInit ==
  /\ sessions = {} /\ second = 0 /\ resetLink = 0
  /\ work = [w \in Workers |-> Resting]
  /\ suspended = FALSE /\ epoch = 0 /\ issued = 0 /\ mailed = 0 /\ logins = 0
  /\ lateRefresh = 0 /\ linkUses = [l \in 1..MaxLinks |-> 0] /\ linkShared = {}

Doing(w, op) == work[w].op = op
Assign(w, op, token, e, late, link) ==
  /\ Doing(w, "none")
  /\ work' = [work EXCEPT ![w] = [op |-> op, token |-> token, epoch |-> e,
                                  late |-> late, link |-> link]]
Rest(w) == work' = [work EXCEPT ![w] = Resting]
WithToken(t) == {s \in sessions : s.token = t}

-----------------------------------------------------------------------------
(* Tokens *)

\* Mutant: the status is not looked at.
LoginAnyway(w) ==
  /\ logins < MaxRows /\ logins' = logins + 1
  /\ Assign(w, "issue", 0, epoch, FALSE, 0)
  /\ UNCHANGED <<sessions, second, resetLink, suspended, epoch, issued, mailed, authHistory>>

\* login, loginWithGoogle: the status and the credentials are checked, then the
\* token is issued, or a two-factor challenge is handed out.
Login(w) ==
  /\ ~suspended
  /\ \/ logins < MaxRows /\ logins' = logins + 1 /\ Assign(w, "issue", 0, epoch, FALSE, 0)
     \/ UNCHANGED logins /\ Assign(w, "challenge", 0, epoch, FALSE, 0)
  /\ UNCHANGED <<sessions, second, resetLink, suspended, epoch, issued, mailed, authHistory>>

\* verify2faLogin: a good challenge and a good code; the status and the
\* password are not checked again.
Verify2faLogin(w) ==
  /\ Doing(w, "challenge") /\ logins < MaxRows /\ logins' = logins + 1
  /\ work' = [work EXCEPT ![w].op = "issue"]
  /\ UNCHANGED <<sessions, second, resetLink, suspended, epoch, issued, mailed, authHistory>>
\* The challenge runs out.
ChallengeExpires(w) ==
  /\ Doing(w, "challenge") /\ Rest(w)
  /\ UNCHANGED <<sessions, second, resetLink, suspended, epoch, issued, mailed, logins, authHistory>>

\* issueTokens: a token of this second is pushed.
IssueTokens(w) ==
  /\ Doing(w, "issue") /\ issued < MaxRows /\ issued' = issued + 1
  /\ sessions' = sessions \cup
       {[no |-> issued + 1, token |-> second, epoch |-> work[w].epoch, late |-> work[w].late]}
  /\ Rest(w)
  /\ UNCHANGED <<second, resetLink, suspended, epoch, mailed, logins, authHistory>>

\* refresh finds the session, pulls its token and issues a new one, whatever the
\* status of the account.
FindSession(w, s) ==
  /\ Assign(w, "pull", s.token, s.epoch, s.late, 0)
  /\ UNCHANGED <<sessions, second, resetLink, suspended, epoch, issued, mailed, logins, authHistory>>

\* Mutant: the old token stays.
KeepToken(w) ==
  /\ Doing(w, "pull") /\ UNCHANGED <<sessions, lateRefresh>>
  /\ work' = [work EXCEPT ![w].op = "issue"]
  /\ UNCHANGED <<second, resetLink, suspended, epoch, issued, mailed, logins, linkUses, linkShared>>

\* history lateRefresh: refreshes that found nothing left to pull.
PullToken(w) ==
  /\ Doing(w, "pull")
  /\ sessions' = sessions \ WithToken(work[w].token)
  /\ lateRefresh' = lateRefresh + (IF WithToken(work[w].token) = {} THEN 1 ELSE 0)
  /\ work' = [work EXCEPT ![w].op = "issue"]
  /\ UNCHANGED <<second, resetLink, suspended, epoch, issued, mailed, logins, linkUses, linkShared>>

\* The guard of the route reads the status before: a suspension may fall between.
Logout(t) ==
  /\ WithToken(t) # {} /\ sessions' = sessions \ WithToken(t)
  /\ UNCHANGED <<second, resetLink, work, suspended, epoch, issued, mailed, logins, authHistory>>

\* purgeStaleSessions: rows are never touched again, so any grows stale.
PurgeStaleSession(s) ==
  /\ sessions' = sessions \ {s}
  /\ UNCHANGED <<second, resetLink, work, suspended, epoch, issued, mailed, logins, authHistory>>

-----------------------------------------------------------------------------
(* Passwords *)

\* All sessions end.  late marks the logins and refreshes this overtakes.
EndSessions ==
  /\ epoch < MaxEpochs /\ epoch' = epoch + 1
  /\ sessions' = {}
Overtaken(f) ==
  [v \in Workers |-> IF f[v].op \in {"issue", "challenge", "pull"} THEN [f[v] EXCEPT !.late = TRUE] ELSE f[v]]
Overtake(w) == work' = Overtaken([work EXCEPT ![w] = Resting])

LogoutAll ==
  /\ EndSessions /\ work' = Overtaken(work)
  /\ UNCHANGED <<second, resetLink, suspended, issued, mailed, logins, authHistory>>

\* changePassword: the old password is compared, the new one is written.  The
\* guard of the route lets no suspended user in.
CheckOldPassword(w) ==
  /\ ~suspended
  /\ Assign(w, "change", 0, epoch, FALSE, 0)
  /\ UNCHANGED <<sessions, second, resetLink, suspended, epoch, issued, mailed, logins, authHistory>>

\* Mutant: the sessions stay.
KeepSessions(w) ==
  /\ Doing(w, "change") /\ UNCHANGED sessions
  /\ epoch < MaxEpochs /\ epoch' = epoch + 1 /\ Overtake(w)
  /\ UNCHANGED <<second, resetLink, suspended, issued, mailed, logins, authHistory>>

ChangePassword(w) ==
  /\ Doing(w, "change") /\ EndSessions /\ Overtake(w)
  /\ UNCHANGED <<second, resetLink, suspended, issued, mailed, logins, authHistory>>

\* suspendUser, by an administrator, and activateUser.
SuspendUser ==
  /\ EndSessions /\ suspended' = TRUE
  /\ work' = Overtaken(work)
  /\ UNCHANGED <<second, resetLink, issued, mailed, logins, authHistory>>
ActivateUser ==
  /\ suspended /\ suspended' = FALSE
  /\ UNCHANGED <<sessions, second, resetLink, work, epoch, issued, mailed, logins, authHistory>>
SuspensionNext == SuspendUser \/ ActivateUser

\* requestPasswordReset: the user is found, then a new token replaces the old.
AskForLink(w) ==
  /\ mailed < MaxLinks
  /\ Assign(w, "mail", 0, epoch, FALSE, 0)
  /\ UNCHANGED <<sessions, second, resetLink, suspended, epoch, issued, mailed, logins, authHistory>>
MailLink(w) ==
  /\ Doing(w, "mail") /\ mailed < MaxLinks /\ mailed' = mailed + 1
  /\ resetLink' = mailed + 1
  /\ Rest(w)
  /\ UNCHANGED <<sessions, second, suspended, epoch, issued, logins, authHistory>>

\* resetPassword.  history linkShared: links two requests had found at once.
FindLink(w) ==
  /\ resetLink # 0
  /\ Assign(w, "reset", 0, epoch, FALSE, resetLink)
  /\ linkShared' = linkShared \cup
       {work[v].link : v \in {v \in Workers : Doing(v, "reset") /\ work[v].link = resetLink}}
  /\ UNCHANGED <<sessions, second, resetLink, suspended, epoch, issued, mailed, logins,
                 lateRefresh, linkUses>>

\* Mutant: the link stays good.
ResetKeepingLink(w) ==
  /\ Doing(w, "reset") /\ EndSessions /\ Overtake(w) /\ UNCHANGED resetLink
  /\ linkUses' = [linkUses EXCEPT ![work[w].link] = @ + 1]
  /\ UNCHANGED <<second, suspended, issued, mailed, logins, lateRefresh, linkShared>>

\* Whatever link the user has by now is cleared.
ResetPassword(w) ==
  /\ Doing(w, "reset") /\ EndSessions /\ Overtake(w) /\ resetLink' = 0
  /\ linkUses' = [linkUses EXCEPT ![work[w].link] = @ + 1]
  /\ UNCHANGED <<second, suspended, issued, mailed, logins, lateRefresh, linkShared>>

\* A link is good for an hour; purgeExpiredPasswordResetTokens clears it later.
ExpireLink ==
  /\ resetLink # 0 /\ resetLink' = 0
  /\ UNCHANGED <<sessions, second, work, suspended, epoch, issued, mailed, logins, authHistory>>

-----------------------------------------------------------------------------

NextSecond ==
  /\ second < MaxSecond /\ second' = second + 1
  /\ UNCHANGED <<sessions, resetLink, work, suspended, epoch, issued, mailed, logins, authHistory>>

SessionNext ==
  \/ \E w \in Workers :
       \/ Login(w) \/ Verify2faLogin(w) \/ ChallengeExpires(w) \/ IssueTokens(w) \/ \E s \in sessions : FindSession(w, s)
       \/ PullToken(w) \/ CheckOldPassword(w) \/ ChangePassword(w)
       \/ AskForLink(w) \/ MailLink(w) \/ FindLink(w) \/ ResetPassword(w)
  \/ \E t \in 0..second : Logout(t)
  \/ \E s \in sessions : PurgeStaleSession(s)
  \/ LogoutAll \/ SuspensionNext \/ ExpireLink \/ NextSecond

-----------------------------------------------------------------------------
(* Properties *)

\* After a new password, or a logout everywhere, no older session is alive,
\* except those of logins and refreshes that were under way, and their refreshes.
EpochEnds == \A s \in sessions : s.epoch = epoch \/ s.late

\* There are no more sessions than logins, but for refreshes that had lost
\* their token, to another refresh or to a logout, when they came to pull it.
NoExtraSessions ==
  Cardinality(sessions) + Cardinality({w \in Workers : Doing(w, "issue")})
    <= logins + lateRefresh

\* A reset link sets one password, unless two requests had found it at once.
LinkUsedOnce == \A l \in 1..MaxLinks : l \notin linkShared => linkUses[l] <= 1

\* A suspended user has no session but those of logins (one waiting for its
\* second factor too) and refreshes that were under way when he was suspended, and what they are refreshed to.
SuspendedHasOnlyLate == suspended => \A s \in sessions : s.late

\* Which sessions are alive, and what a reset link is worth (AuthService).
SessionsSafe ==
  /\ SessionTypeOK /\ EpochEnds /\ NoExtraSessions /\ LinkUsedOnce /\ SuspendedHasOnlyLate
=============================================================================
