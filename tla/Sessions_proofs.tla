--------------------------- MODULE Sessions_proofs ---------------------------
(* Which sessions are alive and what a reset link is worth, for any number   *)
(* of requests, tokens, links and seconds.                                   *)
EXTENDS Sessions, FiniteSetTheorems, TLAPS

SessionSpec == SessionInit /\ [][SessionNext]_authVars

\* A login or a refresh that is under way: it will leave a session behind.
UnderWay(r) == r.op \in {"issue", "challenge", "pull"}

\* Rows are numbered as they are issued.
RowsNumbered == \A s \in sessions : s.no <= issued
SessionTypes == SessionTypeOK /\ RowsNumbered

\* A request under way carries the epoch its session will have, and is marked
\* late by whatever ends that epoch.
WorkOfEpoch ==
  \A w \in Workers : UnderWay(work[w]) =>
    /\ work[w].epoch = epoch \/ work[w].late
    /\ suspended => work[w].late
EpochInv == WorkOfEpoch /\ EpochEnds /\ SuspendedHasOnlyLate

-----------------------------------------------------------------------------
(* Types *)

AnyWork == Works \cup {Resting}

LEMMA WorkTyped ==
  ASSUME SessionTypeOK, NEW w \in Workers
  PROVE  /\ work[w] \in AnyWork
         /\ work[w].op # "none" => work[w] \in Works
BY DEF SessionTypeOK, AnyWork, Resting

\* A resting worker is given something to do.
LEMMA AssignTyped ==
  ASSUME SessionTypeOK, NEW w \in Workers,
         NEW op \in {"issue", "challenge", "pull", "reset", "change", "mail"},
         NEW token \in 0..MaxSecond, NEW late \in BOOLEAN, NEW e \in 0..MaxEpochs,
         NEW link \in 0..MaxLinks, Assign(w, op, token, e, late, link)
  PROVE  work' \in [Workers -> AnyWork]
<1>1. [op |-> op, token |-> token, epoch |-> e, late |-> late, link |-> link] \in Works
  BY Zenon DEF Works
<1> QED
  BY <1>1 DEF SessionTypeOK, Assign, AnyWork

LEMMA IssueTyped ==
  ASSUME SessionTypeOK, NEW w \in Workers, work[w].op # "none",
         work' = [work EXCEPT ![w].op = "issue"]
  PROVE  work' \in [Workers -> AnyWork]
<1>1. work[w] \in Works
  BY WorkTyped
<1>2. [work[w] EXCEPT !.op = "issue"] \in Works
  BY <1>1 DEF Works
<1> QED
  BY <1>2 DEF SessionTypeOK, AnyWork

LEMMA RestTyped ==
  ASSUME SessionTypeOK, NEW w \in Workers
  PROVE  [work EXCEPT ![w] = Resting] \in [Workers -> AnyWork]
BY DEF SessionTypeOK, AnyWork

LEMMA OvertakenTyped ==
  ASSUME NEW f \in [Workers -> AnyWork]
  PROVE  Overtaken(f) \in [Workers -> AnyWork]
<1> SUFFICES ASSUME NEW w \in Workers, UnderWay(f[w])
             PROVE  [f[w] EXCEPT !.late = TRUE] \in Works
  BY DEF Overtaken, UnderWay, AnyWork
<1>1. f[w] \in Works
  BY DEF UnderWay, AnyWork, Resting
<1> QED
  BY <1>1 DEF Works

\* The requests that give a worker something to do, and those that let it rest.
Taking(w) ==
  \/ Login(w) \/ CheckOldPassword(w) \/ AskForLink(w) \/ FindLink(w)
  \/ \E s \in sessions : FindSession(w, s)
Ending == LogoutAll \/ SuspendUser \/ \E w \in Workers : ChangePassword(w) \/ ResetPassword(w)
Dropping ==
  (\E t \in 0..second : Logout(t)) \/ (\E s \in sessions : PurgeStaleSession(s))

LEMMA TakingTyped ==
  ASSUME SessionTypes, NEW w \in Workers, Taking(w)
  PROVE  SessionTypes'
<1> USE SessionAssumption DEF SessionTypes
<1>1. 0 \in 0..MaxSecond /\ 0 \in 0..MaxLinks /\ FALSE \in BOOLEAN
  OBVIOUS
<1>2. work' \in [Workers -> AnyWork]
  <2>1. CASE Login(w)
    BY <2>1, <1>1, AssignTyped DEF Login, SessionTypeOK
  <2>2. CASE CheckOldPassword(w) \/ AskForLink(w)
    BY <2>2, <1>1, AssignTyped DEF CheckOldPassword, AskForLink, SessionTypeOK
  <2>3. CASE FindLink(w)
    BY <2>3, <1>1, AssignTyped DEF FindLink, SessionTypeOK
  <2>4. ASSUME NEW s \in sessions, FindSession(w, s) PROVE work' \in [Workers -> AnyWork]
    <3>1. s.token \in 0..MaxSecond /\ s.epoch \in 0..MaxEpochs /\ s.late \in BOOLEAN
      BY DEF SessionTypeOK, SessionRows
    <3> QED
      BY <2>4, <3>1, <1>1, AssignTyped DEF FindSession
  <2> QED
    BY <2>1, <2>2, <2>3, <2>4 DEF Taking
<1>3. /\ UNCHANGED <<sessions, second, resetLink, suspended, epoch, issued, mailed,
                     lateRefresh, linkUses>>
      /\ logins' \in 0..MaxRows
  <2>1. CASE Login(w)
    <3>1. logins' = logins \/ (logins < MaxRows /\ logins' = logins + 1)
      BY <2>1 DEF Login
    <3> QED
      BY <2>1, <3>1 DEF Login, authHistory, SessionTypeOK
  <2>2. CASE CheckOldPassword(w) \/ AskForLink(w) \/ FindLink(w)
    BY <2>2 DEF CheckOldPassword, AskForLink, FindLink, authHistory, SessionTypeOK
  <2>3. CASE \E s \in sessions : FindSession(w, s)
    BY <2>3 DEF FindSession, authHistory, SessionTypeOK
  <2> QED
    BY <2>1, <2>2, <2>3 DEF Taking
<1>4. linkShared' \subseteq 1..MaxLinks
  <2>1. CASE FindLink(w)
    <3>1. \A v \in Workers : Doing(v, "reset") /\ work[v].link = resetLink =>
            work[v].link \in 1..MaxLinks
      BY <2>1 DEF FindLink, SessionTypeOK
    <3> QED
      BY <2>1, <3>1 DEF FindLink, SessionTypeOK
  <2>2. CASE ~FindLink(w)
    BY <2>2 DEF Taking, Login, CheckOldPassword, AskForLink, FindSession, authHistory,
                SessionTypeOK
  <2> QED
    BY <2>1, <2>2
<1> QED
  BY <1>2, <1>3, <1>4 DEF SessionTypeOK, RowsNumbered, AnyWork

LEMMA IssueTypes ==
  ASSUME SessionTypes, NEW w \in Workers,
         Verify2faLogin(w) \/ ChallengeExpires(w) \/ IssueTokens(w) \/ PullToken(w)
  PROVE  SessionTypes'
<1> USE SessionAssumption DEF SessionTypes
<1>1. work' \in [Workers -> AnyWork]
  BY IssueTyped, RestTyped DEF Verify2faLogin, ChallengeExpires, IssueTokens, PullToken, Rest,
     Doing
<1>2. CASE Verify2faLogin(w) \/ ChallengeExpires(w)
  BY <1>1, <1>2
     DEF Verify2faLogin, ChallengeExpires, authHistory, SessionTypeOK, RowsNumbered, AnyWork
<1>3. CASE IssueTokens(w)
  <2>1. work[w] \in Works
    BY <1>3, WorkTyped DEF IssueTokens, Doing
  <2>2. [no |-> issued + 1, token |-> second, epoch |-> work[w].epoch, late |-> work[w].late]
          \in SessionRows
    BY <1>3, <2>1 DEF IssueTokens, SessionRows, SessionTypeOK, Works
  <2> QED
    BY <1>1, <1>3, <2>2
       DEF IssueTokens, authHistory, SessionTypeOK, RowsNumbered, AnyWork, SessionRows
<1>4. CASE PullToken(w)
  BY <1>1, <1>4 DEF PullToken, SessionTypeOK, RowsNumbered, AnyWork
<1> QED
  BY <1>2, <1>3, <1>4

LEMMA EndingTypes == ASSUME SessionTypes, Ending PROVE SessionTypes'
<1> USE SessionAssumption DEF SessionTypes
<1>1. work' \in [Workers -> AnyWork]
  <2>1. work \in [Workers -> AnyWork]
    BY DEF SessionTypeOK, AnyWork
  <2>2. CASE LogoutAll \/ SuspendUser
    BY <2>1, <2>2, OvertakenTyped DEF LogoutAll, SuspendUser
  <2>3. ASSUME NEW w \in Workers, ChangePassword(w) \/ ResetPassword(w)
        PROVE  work' \in [Workers -> AnyWork]
    <3>1. work' = Overtaken([work EXCEPT ![w] = Resting])
      BY <2>3 DEF ChangePassword, ResetPassword, Overtake
    <3> QED
      BY <3>1, OvertakenTyped, RestTyped
  <2> QED
    BY <2>2, <2>3 DEF Ending
<1>2. /\ sessions' = {} /\ epoch' \in 0..MaxEpochs
      /\ UNCHANGED <<second, issued, mailed, logins, lateRefresh, linkShared>>
  BY DEF Ending, LogoutAll, SuspendUser, ChangePassword, ResetPassword, EndSessions,
         authHistory, SessionTypeOK
<1>3. suspended' \in BOOLEAN /\ resetLink' \in 0..MaxLinks
  <2>1. CASE SuspendUser
    <3>1. suspended' \in BOOLEAN
      BY <2>1, Zenon DEF SuspendUser
    <3> QED
      BY <2>1, <3>1 DEF SuspendUser, SessionTypeOK
  <2>2. CASE LogoutAll
    BY <2>2 DEF LogoutAll, SessionTypeOK
  <2>3. ASSUME NEW w \in Workers, ChangePassword(w) \/ ResetPassword(w)
        PROVE  suspended' \in BOOLEAN /\ resetLink' \in 0..MaxLinks
    BY <2>3 DEF ChangePassword, ResetPassword, SessionTypeOK
  <2> QED
    BY <2>1, <2>2, <2>3 DEF Ending
<1>4. linkUses' \in [1..MaxLinks -> Nat]
  <2>1. ASSUME NEW w \in Workers, ResetPassword(w) PROVE linkUses' \in [1..MaxLinks -> Nat]
    <3>1. linkUses \in [1..MaxLinks -> Nat]
      BY DEF SessionTypeOK
    <3>2. PICK k : linkUses' = [linkUses EXCEPT ![k] = linkUses[k] + 1]
      BY <2>1 DEF ResetPassword
    <3>3. CASE k \in 1..MaxLinks
      <4>1. linkUses[k] + 1 \in Nat
        BY <3>1, <3>3
      <4> QED
        BY <3>1, <3>2, <4>1
    <3>4. CASE k \notin 1..MaxLinks
      BY <3>1, <3>2, <3>4
    <3> QED
      BY <3>3, <3>4
  <2>2. CASE UNCHANGED linkUses
    BY <2>2 DEF SessionTypeOK
  <2> QED
    BY <2>1, <2>2 DEF Ending, LogoutAll, SuspendUser, ChangePassword, authHistory
<1> QED
  BY <1>1, <1>2, <1>3, <1>4 DEF SessionTypeOK, RowsNumbered, AnyWork

LEMMA OtherTypes ==
  ASSUME SessionTypes,
         \/ \E w \in Workers : MailLink(w)
         \/ Dropping \/ ActivateUser \/ ExpireLink \/ NextSecond
  PROVE  SessionTypes'
<1> USE SessionAssumption DEF SessionTypes
<1>1. ASSUME NEW w \in Workers, MailLink(w) PROVE SessionTypes'
  BY <1>1, RestTyped DEF MailLink, Rest, authHistory, SessionTypeOK, RowsNumbered, AnyWork
<1>2. CASE Dropping
  BY <1>2 DEF Dropping, Logout, PurgeStaleSession, authHistory, SessionTypeOK, RowsNumbered
<1>3. CASE ActivateUser
  <2>1. suspended' \in BOOLEAN
    BY <1>3, Zenon DEF ActivateUser
  <2> QED
    BY <1>3, <2>1 DEF ActivateUser, authHistory, SessionTypeOK, RowsNumbered
<1>4. CASE ExpireLink
  BY <1>4 DEF ExpireLink, authHistory, SessionTypeOK, RowsNumbered
<1>5. CASE NextSecond
  BY <1>5 DEF NextSecond, authHistory, SessionTypeOK, RowsNumbered
<1> QED
  BY <1>1, <1>2, <1>3, <1>4, <1>5

-----------------------------------------------------------------------------
(* Epochs *)

\* All that an epoch's end leaves under way is marked.
LEMMA OvertakenIsLate ==
  ASSUME NEW f \in [Workers -> AnyWork], NEW w \in Workers, UnderWay(Overtaken(f)[w])
  PROVE  Overtaken(f)[w].late
<1>1. CASE UnderWay(f[w])
  <2>1. f[w] \in Works
    BY <1>1 DEF UnderWay, AnyWork, Resting
  <2> QED
    BY <1>1, <2>1 DEF Overtaken, UnderWay, Works
<1>2. CASE ~UnderWay(f[w])
  BY <1>2 DEF Overtaken, UnderWay
<1> QED
  BY <1>1, <1>2

LEMMA TakingEpochs ==
  ASSUME SessionTypes, EpochInv, NEW w \in Workers, Taking(w)
  PROVE  EpochInv'
<1> USE DEF EpochInv, SessionTypes
<1>1. UNCHANGED <<sessions, epoch, suspended>>
  BY DEF Taking, Login, CheckOldPassword, AskForLink, FindLink, FindSession
<1>2. /\ \A v \in Workers : v # w => work'[v] = work[v]
      /\ UnderWay(work'[w]) =>
           /\ work'[w].epoch = epoch \/ work'[w].late
           /\ suspended => work'[w].late
  <2>1. CASE Login(w)
    BY <2>1 DEF Login, Assign, SessionTypeOK
  <2>2. CASE CheckOldPassword(w) \/ AskForLink(w) \/ FindLink(w)
    BY <2>2 DEF CheckOldPassword, AskForLink, FindLink, Assign, SessionTypeOK, UnderWay
  <2>3. ASSUME NEW s \in sessions, FindSession(w, s)
        PROVE  /\ \A v \in Workers : v # w => work'[v] = work[v]
               /\ work'[w].epoch = epoch \/ work'[w].late
               /\ suspended => work'[w].late
    BY <2>3 DEF FindSession, Assign, SessionTypeOK, EpochEnds, SuspendedHasOnlyLate
  <2> QED
    BY <2>1, <2>2, <2>3 DEF Taking
<1> QED
  BY <1>1, <1>2 DEF WorkOfEpoch, EpochEnds, SuspendedHasOnlyLate

LEMMA IssueEpochs ==
  ASSUME SessionTypes, EpochInv, NEW w \in Workers,
         Verify2faLogin(w) \/ ChallengeExpires(w) \/ IssueTokens(w) \/ PullToken(w)
  PROVE  EpochInv'
<1> USE DEF EpochInv, SessionTypes
<1>1. UNCHANGED <<epoch, suspended>> /\ UnderWay(work[w])
  BY DEF Verify2faLogin, ChallengeExpires, IssueTokens, PullToken, Doing, UnderWay
<1>2. WorkOfEpoch'
  <2>1. CASE Verify2faLogin(w) \/ PullToken(w)
    <3>1. work[w] \in Works /\ work' = [work EXCEPT ![w].op = "issue"]
      BY <2>1, WorkTyped DEF Verify2faLogin, PullToken, Doing
    <3>2. work'[w].epoch = work[w].epoch /\ work'[w].late = work[w].late
      BY <3>1 DEF SessionTypeOK, Works
    <3> QED
      BY <1>1, <3>1, <3>2 DEF WorkOfEpoch, SessionTypeOK
  <2>2. CASE ChallengeExpires(w) \/ IssueTokens(w)
    BY <1>1, <2>2
       DEF ChallengeExpires, IssueTokens, Rest, WorkOfEpoch, SessionTypeOK, UnderWay, Resting
  <2> QED
    BY <2>1, <2>2
<1>3. EpochEnds' /\ SuspendedHasOnlyLate'
  <2>1. CASE IssueTokens(w)
    <3>1. /\ work[w].epoch = epoch \/ work[w].late
          /\ suspended => work[w].late
      BY <1>1 DEF WorkOfEpoch
    <3> QED
      BY <1>1, <2>1, <3>1 DEF IssueTokens, EpochEnds, SuspendedHasOnlyLate
  <2>2. CASE ~IssueTokens(w)
    BY <1>1, <2>2
       DEF Verify2faLogin, ChallengeExpires, PullToken, EpochEnds, SuspendedHasOnlyLate
  <2> QED
    BY <2>1, <2>2
<1> QED
  BY <1>2, <1>3

LEMMA EndingEpochs == ASSUME SessionTypes, EpochInv, Ending PROVE EpochInv'
<1> USE DEF EpochInv, SessionTypes
<1>1. work \in [Workers -> AnyWork]
  BY DEF SessionTypeOK, AnyWork
<1>2. PICK f \in [Workers -> AnyWork] : work' = Overtaken(f)
  <2>1. CASE LogoutAll \/ SuspendUser
    BY <1>1, <2>1 DEF LogoutAll, SuspendUser
  <2>2. ASSUME NEW w \in Workers, ChangePassword(w) \/ ResetPassword(w)
        PROVE  work' = Overtaken([work EXCEPT ![w] = Resting])
    BY <2>2 DEF ChangePassword, ResetPassword, Overtake
  <2> QED
    BY <2>1, <2>2, RestTyped DEF Ending
<1>3. sessions' = {}
  BY DEF Ending, LogoutAll, SuspendUser, ChangePassword, ResetPassword, EndSessions
<1> QED
  BY <1>2, <1>3, OvertakenIsLate DEF WorkOfEpoch, EpochEnds, SuspendedHasOnlyLate

LEMMA OtherEpochs ==
  ASSUME SessionTypes, EpochInv,
         \/ \E w \in Workers : MailLink(w)
         \/ Dropping \/ ActivateUser \/ ExpireLink \/ NextSecond
  PROVE  EpochInv'
<1> USE DEF EpochInv, SessionTypes, WorkOfEpoch, EpochEnds, SuspendedHasOnlyLate
<1>1. ASSUME NEW w \in Workers, MailLink(w) PROVE EpochInv'
  BY <1>1 DEF MailLink, Rest, SessionTypeOK, UnderWay, Resting
<1>2. CASE Dropping
  BY <1>2 DEF Dropping, Logout, PurgeStaleSession
<1>3. CASE ActivateUser
  BY <1>3 DEF ActivateUser
<1>4. CASE ExpireLink \/ NextSecond
  BY <1>4 DEF ExpireLink, NextSecond
<1> QED
  BY <1>1, <1>2, <1>3, <1>4

-----------------------------------------------------------------------------
(* Links *)

Resets(w, l) == Doing(w, "reset") /\ work[w].link = l

\* Links are numbered as they are mailed.
LinksMailed ==
  /\ resetLink <= mailed
  /\ \A w \in Workers : Doing(w, "reset") => work[w].link \in 1..mailed
  /\ \A l \in 1..MaxLinks : l > mailed => linkUses[l] = 0
\* A link that was not shared is with one request at most, and with none once used.
ResetIsAlone ==
  \A l \in 1..MaxLinks : l \notin linkShared =>
    /\ \A v, w \in Workers : Resets(v, l) /\ Resets(w, l) => v = w
    /\ linkUses[l] # 0 => resetLink # l /\ \A w \in Workers : ~Resets(w, l)
LinkInv == LinkUsedOnce /\ LinksMailed /\ ResetIsAlone

\* A step that finds no link, mails none and uses none.
LEMMA LinkQuiet ==
  ASSUME SessionTypes, LinkInv,
         \A w \in Workers : Doing(w, "reset")' => Doing(w, "reset") /\ work'[w].link = work[w].link,
         resetLink' = resetLink \/ resetLink' = 0,
         UNCHANGED <<mailed, linkUses, linkShared>>
  PROVE  LinkInv'
<1> USE DEF LinkInv, SessionTypes
<1>1. LinksMailed' /\ LinkUsedOnce'
  BY DEF LinksMailed, LinkUsedOnce, SessionTypeOK
<1>2. \A w \in Workers, l \in 1..MaxLinks : Resets(w, l)' => Resets(w, l)
  BY DEF Resets
<1>3. ResetIsAlone'
  BY <1>2 DEF ResetIsAlone
<1> QED
  BY <1>1, <1>3

LEMMA TakingLinks ==
  ASSUME SessionTypes, LinkInv, NEW w \in Workers, Taking(w)
  PROVE  LinkInv'
<1> USE DEF LinkInv, SessionTypes
<1>1. CASE Login(w) \/ CheckOldPassword(w) \/ AskForLink(w)
  <2>1. \A v \in Workers : Doing(v, "reset")' => Doing(v, "reset") /\ work'[v].link = work[v].link
    BY <1>1 DEF Login, CheckOldPassword, AskForLink, Assign, Doing, SessionTypeOK
  <2> QED
    BY <1>1, <2>1, LinkQuiet DEF Login, CheckOldPassword, AskForLink, authHistory
<1>2. ASSUME NEW s \in sessions, FindSession(w, s) PROVE LinkInv'
  <2>1. \A v \in Workers : Doing(v, "reset")' => Doing(v, "reset") /\ work'[v].link = work[v].link
    BY <1>2 DEF FindSession, Assign, Doing, SessionTypeOK
  <2> QED
    BY <1>2, <2>1, LinkQuiet DEF FindSession, authHistory
<1>3. CASE FindLink(w)
  <2> DEFINE others == {work[v].link : v \in {v \in Workers : Resets(v, resetLink)}}
  <2>1. /\ linkShared' = linkShared \cup others /\ resetLink # 0
        /\ UNCHANGED <<resetLink, mailed, linkUses>>
    BY <1>3 DEF FindLink, Resets
  <2>2. /\ work'[w].op = "reset" /\ work'[w].link = resetLink /\ work[w].op = "none"
        /\ \A v \in Workers : v # w => work'[v] = work[v]
    BY <1>3 DEF FindLink, Assign, Doing, SessionTypeOK
  <2>3. LinkUsedOnce' /\ LinksMailed'
    BY <2>1, <2>2 DEF LinkUsedOnce, LinksMailed, Doing, SessionTypeOK
  <2>4. ASSUME NEW l \in 1..MaxLinks, l \notin linkShared'
        PROVE  /\ \A u, v \in Workers : Resets(u, l)' /\ Resets(v, l)' => u = v
               /\ linkUses'[l] # 0 => resetLink' # l /\ \A v \in Workers : ~Resets(v, l)'
    <3>1. l \notin linkShared
      BY <2>1, <2>4
    <3>2. CASE l = resetLink
      <4>1. \A v \in Workers : ~Resets(v, l)
        BY <2>1, <2>4, <3>2 DEF Resets
      <4> QED
        BY <2>1, <2>2, <3>1, <3>2, <4>1 DEF ResetIsAlone, Resets, Doing
    <3>3. CASE l # resetLink
      BY <2>1, <2>2, <3>1, <3>3 DEF ResetIsAlone, Resets, Doing
    <3> QED
      BY <3>2, <3>3
  <2> QED
    BY <2>3, <2>4 DEF ResetIsAlone
<1> QED
  BY <1>1, <1>2, <1>3 DEF Taking

LEMMA IssueLinks ==
  ASSUME SessionTypes, LinkInv, NEW w \in Workers,
         Verify2faLogin(w) \/ ChallengeExpires(w) \/ IssueTokens(w) \/ PullToken(w)
  PROVE  LinkInv'
<1>1. \A v \in Workers : Doing(v, "reset")' => Doing(v, "reset") /\ work'[v].link = work[v].link
  <2>1. CASE Verify2faLogin(w) \/ PullToken(w)
    <3>1. work[w] \in Works /\ work' = [work EXCEPT ![w].op = "issue"]
      BY <2>1, WorkTyped DEF Verify2faLogin, PullToken, Doing, SessionTypes
    <3>2. work'[w].op = "issue"
      BY <3>1 DEF SessionTypes, SessionTypeOK, Works
    <3> QED
      BY <3>1, <3>2 DEF Doing, SessionTypes, SessionTypeOK
  <2>2. CASE ChallengeExpires(w) \/ IssueTokens(w)
    BY <2>2 DEF ChallengeExpires, IssueTokens, Rest, Resting, Doing, SessionTypes, SessionTypeOK
  <2> QED
    BY <2>1, <2>2
<1> QED
  BY <1>1, LinkQuiet DEF Verify2faLogin, ChallengeExpires, IssueTokens, PullToken, authHistory

\* The end of an epoch changes no reset that is under way.
LEMMA OvertakenResets ==
  ASSUME NEW f \in [Workers -> AnyWork], NEW w \in Workers, Overtaken(f)[w].op = "reset"
  PROVE  f[w].op = "reset" /\ Overtaken(f)[w].link = f[w].link
<1>1. CASE UnderWay(f[w])
  <2>1. f[w] \in Works
    BY <1>1 DEF UnderWay, AnyWork, Resting
  <2> QED
    BY <1>1, <2>1 DEF Overtaken, UnderWay, Works
<1>2. CASE ~UnderWay(f[w])
  BY <1>2 DEF Overtaken, UnderWay
<1> QED
  BY <1>1, <1>2

LEMMA EndingLinks == ASSUME SessionTypes, LinkInv, Ending PROVE LinkInv'
<1> USE DEF LinkInv, SessionTypes
<1>1. work \in [Workers -> AnyWork]
  BY DEF SessionTypeOK, AnyWork
<1>2. CASE LogoutAll \/ SuspendUser
  <2>1. \A v \in Workers : Doing(v, "reset")' => Doing(v, "reset") /\ work'[v].link = work[v].link
    BY <1>1, <1>2, OvertakenResets DEF LogoutAll, SuspendUser, Doing
  <2> QED
    BY <1>2, <2>1, LinkQuiet DEF LogoutAll, SuspendUser, authHistory
<1>3. ASSUME NEW w \in Workers, ChangePassword(w) \/ ResetPassword(w) PROVE LinkInv'
  <2> DEFINE f == [work EXCEPT ![w] = Resting]
  <2>1. work' = Overtaken(f) /\ f \in [Workers -> AnyWork]
    BY <1>3, RestTyped DEF ChangePassword, ResetPassword, Overtake
  <2>2. \A v \in Workers : Doing(v, "reset")' =>
          v # w /\ Doing(v, "reset") /\ work'[v].link = work[v].link
    <3> SUFFICES ASSUME NEW v \in Workers, Overtaken(f)[v].op = "reset"
                 PROVE  v # w /\ work[v].op = "reset" /\ Overtaken(f)[v].link = work[v].link
      BY <2>1 DEF Doing
    <3>1. f[v].op = "reset" /\ Overtaken(f)[v].link = f[v].link
      BY <2>1, OvertakenResets
    <3>2. v # w
      BY <3>1, <1>1 DEF Resting
    <3> QED
      BY <3>1, <3>2, <1>1
  <2>3. CASE ChangePassword(w)
    BY <2>2, <2>3, LinkQuiet DEF ChangePassword, authHistory
  <2>4. CASE ResetPassword(w)
    <3>1. PICK k \in 1..MaxLinks :
            /\ resetLink' = 0 /\ Resets(w, k) /\ k <= mailed
            /\ linkUses' = [linkUses EXCEPT ![k] = @ + 1]
            /\ UNCHANGED <<mailed, linkShared>>
      <4>1. Doing(w, "reset") /\ work[w].link \in 1..mailed /\ mailed \in 0..MaxLinks
        BY <2>4 DEF ResetPassword, LinksMailed, SessionTypeOK
      <4>2. work[w].link \in 1..MaxLinks
        BY <4>1, SessionAssumption
      <4>3. /\ resetLink' = 0 /\ UNCHANGED <<mailed, linkShared>>
            /\ linkUses' = [linkUses EXCEPT ![work[w].link] = linkUses[work[w].link] + 1]
        BY <2>4 DEF ResetPassword
      <4>4. Resets(w, work[w].link) /\ work[w].link <= mailed
        BY <4>1 DEF Resets
      <4> QED
        BY <4>2, <4>3, <4>4, Zenon
    <3>2. \A l \in 1..MaxLinks : linkUses'[l] = IF l = k THEN linkUses[l] + 1 ELSE linkUses[l]
      BY <3>1 DEF SessionTypeOK
    <3>3. LinksMailed'
      BY <2>2, <3>1, <3>2 DEF LinksMailed, Doing, SessionTypeOK
    <3>4. k \notin linkShared => linkUses[k] = 0 /\ \A v \in Workers : ~Resets(v, k)'
      <4> SUFFICES ASSUME k \notin linkShared
                   PROVE  linkUses[k] = 0 /\ \A v \in Workers : ~Resets(v, k)'
        OBVIOUS
      <4>1. linkUses[k] = 0 /\ \A v \in Workers : Resets(v, k) => v = w
        BY <3>1 DEF ResetIsAlone
      <4> QED
        BY <2>2, <4>1, Zenon DEF Resets
    <3>5. LinkUsedOnce'
      BY <3>1, <3>4, <3>2 DEF LinkUsedOnce, SessionTypeOK
    <3>6. \A l \in 1..MaxLinks, v \in Workers : Resets(v, l)' => Resets(v, l)
      BY <2>2 DEF Resets
    <3>7. ResetIsAlone'
      <4> SUFFICES ASSUME NEW l \in 1..MaxLinks, l \notin linkShared
                   PROVE  /\ \A u, v \in Workers : Resets(u, l)' /\ Resets(v, l)' => u = v
                          /\ linkUses'[l] # 0 => \A v \in Workers : ~Resets(v, l)'
        BY <3>1 DEF ResetIsAlone
      <4>1. CASE l = k
        BY <4>1, <3>4
      <4>2. CASE l # k
        <5>1. linkUses'[l] = linkUses[l]
          BY <4>2, <3>2
        <5> QED
          BY <5>1, <3>6, Zenon DEF ResetIsAlone
      <4> QED
        BY <4>1, <4>2
    <3> QED
      BY <3>3, <3>5, <3>7
  <2> QED
    BY <1>3, <2>3, <2>4
<1> QED
  BY <1>2, <1>3 DEF Ending

LEMMA OtherLinks ==
  ASSUME SessionTypes, LinkInv,
         \/ \E w \in Workers : MailLink(w)
         \/ Dropping \/ ActivateUser \/ ExpireLink \/ NextSecond
  PROVE  LinkInv'
<1>1. ASSUME NEW w \in Workers, MailLink(w) PROVE LinkInv'
  <2>1. /\ mailed' = mailed + 1 /\ resetLink' = mailed + 1
        /\ UNCHANGED <<linkUses, linkShared>>
    BY <1>1 DEF MailLink, authHistory
  <2>2. \A v \in Workers : Doing(v, "reset")' => Doing(v, "reset") /\ work'[v] = work[v]
    BY <1>1 DEF MailLink, Rest, Resting, Doing, SessionTypes, SessionTypeOK
  <2>3. LinkUsedOnce' /\ LinksMailed'
    BY <2>1, <2>2 DEF LinkInv, LinkUsedOnce, LinksMailed, SessionTypes, SessionTypeOK
  <2>4. \A v \in Workers, l \in 1..MaxLinks : Resets(v, l)' => Resets(v, l)
    BY <2>2 DEF Resets
  <2>5. ResetIsAlone'
    BY <2>1, <2>4 DEF LinkInv, LinksMailed, ResetIsAlone, SessionTypes, SessionTypeOK
  <2> QED
    BY <2>3, <2>5 DEF LinkInv
<1>2. CASE Dropping \/ ActivateUser \/ ExpireLink \/ NextSecond
  BY <1>2, LinkQuiet
     DEF Dropping, Logout, PurgeStaleSession, ActivateUser, ExpireLink, NextSecond, authHistory,
         Doing
<1> QED
  BY <1>1, <1>2

-----------------------------------------------------------------------------
(* Numbers of sessions *)

\* Requests that have checked a login or pulled a token and will push a session.
Issuing == {w \in Workers : Doing(w, "issue")}
CountInv == IsFiniteSet(sessions) /\ NoExtraSessions

LEMMA Finite ==
  ASSUME CountInv
  PROVE  /\ IsFiniteSet(Issuing) /\ Cardinality(Issuing) \in Nat
         /\ IsFiniteSet(sessions) /\ Cardinality(sessions) \in Nat
         /\ Cardinality(sessions) + Cardinality(Issuing) <= logins + lateRefresh
BY SessionAssumption, FS_Subset, FS_CardinalityType DEF CountInv, Issuing, NoExtraSessions

LEMMA Counters == SessionTypeOK => logins \in Nat /\ lateRefresh \in Nat
BY SessionAssumption DEF SessionTypeOK
LEMMA CountersNext == SessionTypeOK' => logins' \in Nat /\ lateRefresh' \in Nat
BY SessionAssumption DEF SessionTypeOK

\* A finite set grows by one element at most.
LEMMA OneMore ==
  ASSUME NEW S, IsFiniteSet(S), NEW x
  PROVE  /\ IsFiniteSet(S \cup {x}) /\ Cardinality(S \cup {x}) \in Nat
         /\ Cardinality(S \cup {x}) <= Cardinality(S) + 1
<1>1. Cardinality(S) \in Nat
  BY FS_CardinalityType
<1>2. /\ IsFiniteSet(S \cup {x})
      /\ Cardinality(S \cup {x}) = IF x \in S THEN Cardinality(S) ELSE Cardinality(S) + 1
  BY FS_AddElement
<1> QED
  BY <1>1, <1>2

\* A step that adds no session and nobody who will push one.
LEMMA CountQuiet ==
  ASSUME CountInv, sessions' \subseteq sessions, Issuing' \subseteq Issuing,
         SessionTypeOK, logins' = logins, lateRefresh' = lateRefresh
  PROVE  CountInv'
<1>1. /\ IsFiniteSet(sessions') /\ Cardinality(sessions') <= Cardinality(sessions)
      /\ Cardinality(sessions') \in Nat
  BY Finite, FS_Subset, FS_CardinalityType
<1>2. Cardinality(Issuing') <= Cardinality(Issuing) /\ Cardinality(Issuing') \in Nat
  BY Finite, FS_Subset, FS_CardinalityType
<1>3. Cardinality(sessions') + Cardinality(Issuing') <= logins' + lateRefresh'
  BY <1>1, <1>2, Finite DEF SessionTypeOK
<1> QED
  BY <1>1, <1>3 DEF CountInv, NoExtraSessions, Issuing

\* One more request will push a session, and a login or a late refresh pays for
\* it, or a session that is gone.
LEMMA CountIssue ==
  ASSUME CountInv, SessionTypeOK, NEW w \in Workers, Issuing' = Issuing \cup {w},
         IsFiniteSet(sessions'), SessionTypeOK',
         Cardinality(sessions') + 1 + logins + lateRefresh
           <= Cardinality(sessions) + logins' + lateRefresh'
  PROVE  CountInv'
<1>1. Cardinality(Issuing') <= Cardinality(Issuing) + 1 /\ Cardinality(Issuing') \in Nat
  BY Finite, OneMore
<1>2. Cardinality(sessions') \in Nat
  BY FS_CardinalityType
<1>3. Cardinality(sessions') + Cardinality(Issuing') <= logins' + lateRefresh'
  BY <1>1, <1>2, Finite, Counters, CountersNext
<1> QED
  BY <1>3 DEF CountInv, NoExtraSessions, Issuing

LEMMA TakingCounts ==
  ASSUME SessionTypes, SessionTypes', CountInv, NEW w \in Workers, Taking(w)
  PROVE  CountInv'
<1> USE DEF SessionTypes
<1>1. CASE Login(w) /\ logins' = logins + 1
  <2>1. Issuing' = Issuing \cup {w} \/ Issuing' = Issuing
    BY <1>1 DEF Login, Assign, Issuing, Doing, SessionTypeOK
  <2>2. sessions' = sessions /\ lateRefresh' = lateRefresh
    BY <1>1 DEF Login, authHistory
  <2>3. CASE Issuing' = Issuing \cup {w}
    <3>1. Cardinality(sessions') + 1 + logins + lateRefresh
            <= Cardinality(sessions) + logins' + lateRefresh'
      BY <1>1, <2>2, Finite, Counters
    <3> QED
      BY <2>2, <2>3, <3>1, CountIssue, Finite
  <2>4. CASE Issuing' = Issuing
    <3>1. Cardinality(sessions') + Cardinality(Issuing') <= logins' + lateRefresh'
      BY <1>1, <2>2, <2>4, Finite, Counters
    <3> QED
      BY <2>2, <3>1, Finite DEF CountInv, NoExtraSessions, Issuing
  <2> QED
    BY <2>1, <2>3, <2>4
<1>2. CASE ~(Login(w) /\ logins' = logins + 1)
  <2>1. Issuing' \subseteq Issuing
    <3>1. CASE Login(w)
      <4>1. Assign(w, "challenge", 0, epoch, FALSE, 0)
        BY <1>2, <3>1 DEF Login
      <4> QED
        BY <4>1 DEF Assign, Issuing, Doing, SessionTypeOK
    <3>2. CASE CheckOldPassword(w) \/ AskForLink(w) \/ FindLink(w)
      <4>1. CASE CheckOldPassword(w)
        BY <4>1 DEF CheckOldPassword, Assign, Issuing, Doing, SessionTypeOK
      <4>2. CASE AskForLink(w)
        BY <4>2 DEF AskForLink, Assign, Issuing, Doing, SessionTypeOK
      <4>3. CASE FindLink(w)
        BY <4>3 DEF FindLink, Assign, Issuing, Doing, SessionTypeOK
      <4> QED
        BY <3>2, <4>1, <4>2, <4>3
    <3>3. ASSUME NEW s \in sessions, FindSession(w, s) PROVE Issuing' \subseteq Issuing
      BY <3>3 DEF FindSession, Assign, Issuing, Doing, SessionTypeOK
    <3> QED
      BY <3>1, <3>2, <3>3 DEF Taking
  <2>2. UNCHANGED <<sessions, logins, lateRefresh>>
    BY <1>2 DEF Taking, Login, CheckOldPassword, AskForLink, FindLink, FindSession, authHistory
  <2> QED
    BY <2>1, <2>2, CountQuiet
<1> QED
  BY <1>1, <1>2

LEMMA IssueCounts ==
  ASSUME SessionTypes, SessionTypes', CountInv, NEW w \in Workers,
         Verify2faLogin(w) \/ ChallengeExpires(w) \/ IssueTokens(w) \/ PullToken(w)
  PROVE  CountInv'
<1> USE DEF SessionTypes
<1>1. ASSUME work[w].op # "none", work' = [work EXCEPT ![w].op = "issue"]
      PROVE  Issuing' = Issuing \cup {w}
  <2>1. work[w] \in Works
    BY <1>1, WorkTyped
  <2>2. work'[w].op = "issue" /\ \A v \in Workers : v # w => work'[v] = work[v]
    BY <1>1, <2>1 DEF SessionTypeOK, Works
  <2> QED
    BY <2>2 DEF Issuing, Doing
<1>2. CASE Verify2faLogin(w)
  <2>1. Issuing' = Issuing \cup {w} /\ sessions' = sessions
    BY <1>1, <1>2 DEF Verify2faLogin, Doing
  <2>2. Cardinality(sessions') + 1 + logins + lateRefresh
          <= Cardinality(sessions) + logins' + lateRefresh'
    BY <1>2, <2>1, Finite DEF Verify2faLogin, authHistory, SessionTypeOK
  <2> QED
    BY <2>1, <2>2, CountIssue, Finite
<1>3. CASE ChallengeExpires(w)
  <2>1. Issuing' \subseteq Issuing
    BY <1>3 DEF ChallengeExpires, Rest, Resting, Issuing, Doing, SessionTypeOK
  <2> QED
    BY <1>3, <2>1, CountQuiet DEF ChallengeExpires, authHistory
<1>4. CASE IssueTokens(w)
  <2>1. Issuing' = Issuing \ {w} /\ w \in Issuing
    BY <1>4 DEF IssueTokens, Rest, Resting, Issuing, Doing, SessionTypeOK
  <2>2. PICK r : sessions' = sessions \cup {r}
    BY <1>4 DEF IssueTokens
  <2>3. /\ IsFiniteSet(sessions') /\ Cardinality(sessions') <= Cardinality(sessions) + 1
        /\ Cardinality(sessions') \in Nat
    BY <2>2, Finite, OneMore
  <2>4. Cardinality(Issuing') = Cardinality(Issuing) - 1
    BY <2>1, Finite, FS_RemoveElement
  <2>5. Cardinality(sessions') + Cardinality(Issuing') <= logins' + lateRefresh'
    BY <1>4, <2>3, <2>4, Finite DEF IssueTokens, authHistory, SessionTypeOK
  <2> QED
    BY <2>3, <2>5 DEF CountInv, NoExtraSessions, Issuing
<1>5. CASE PullToken(w)
  <2> DEFINE gone == WithToken(work[w].token)
  <2>1. Issuing' = Issuing \cup {w} /\ logins' = logins
    BY <1>1, <1>5 DEF PullToken, Doing
  <2>2. /\ sessions' = sessions \ gone /\ gone \subseteq sessions
        /\ lateRefresh' = lateRefresh + (IF gone = {} THEN 1 ELSE 0)
    BY <1>5 DEF PullToken, WithToken
  <2> HIDE DEF gone
  <2>3. /\ IsFiniteSet(sessions') /\ Cardinality(sessions') \in Nat
        /\ Cardinality(sessions') <= Cardinality(sessions)
        /\ gone # {} => Cardinality(sessions') # Cardinality(sessions)
    BY <2>2, Finite, FS_Subset, FS_CardinalityType
  <2>4. Cardinality(sessions') + 1 + logins + lateRefresh
          <= Cardinality(sessions) + logins' + lateRefresh'
    BY <2>1, <2>2, <2>3, Finite, Counters
  <2> QED
    BY <2>1, <2>3, <2>4, CountIssue
<1> QED
  BY <1>2, <1>3, <1>4, <1>5

LEMMA OtherCounts ==
  ASSUME SessionTypes, CountInv,
         \/ Ending \/ \E w \in Workers : MailLink(w)
         \/ Dropping \/ ActivateUser \/ ExpireLink \/ NextSecond
  PROVE  CountInv'
<1> USE DEF SessionTypes
<1>1. work \in [Workers -> AnyWork]
  BY DEF SessionTypeOK, AnyWork
<1>2. sessions' \subseteq sessions /\ UNCHANGED <<logins, lateRefresh>>
  BY DEF Ending, LogoutAll, SuspendUser, ChangePassword, ResetPassword, EndSessions, MailLink,
         Dropping, Logout, PurgeStaleSession, ActivateUser, ExpireLink, NextSecond, authHistory
<1>3. Issuing' \subseteq Issuing
  <2>1. ASSUME NEW f \in [Workers -> AnyWork], NEW v \in Workers, Overtaken(f)[v].op = "issue"
        PROVE  f[v].op = "issue"
    <3>1. CASE UnderWay(f[v])
      <4>1. f[v] \in Works
        BY <3>1 DEF UnderWay, AnyWork, Resting
      <4> QED
        BY <2>1, <3>1, <4>1 DEF Overtaken, UnderWay, Works
    <3>2. CASE ~UnderWay(f[v])
      BY <2>1, <3>2 DEF Overtaken, UnderWay
    <3> QED
      BY <3>1, <3>2
  <2>2. CASE LogoutAll \/ SuspendUser
    BY <1>1, <2>1, <2>2 DEF LogoutAll, SuspendUser, Issuing, Doing
  <2>3. ASSUME NEW w \in Workers, ChangePassword(w) \/ ResetPassword(w)
        PROVE  Issuing' \subseteq Issuing
    <3>1. work' = Overtaken([work EXCEPT ![w] = Resting])
      BY <2>3 DEF ChangePassword, ResetPassword, Overtake
    <3>2. \A v \in Workers : [work EXCEPT ![w] = Resting][v].op = "issue" => work[v].op = "issue"
      BY <1>1 DEF Resting
    <3> QED
      BY <2>1, <3>1, <3>2, RestTyped DEF Issuing, Doing
  <2>4. ASSUME NEW w \in Workers, MailLink(w) PROVE Issuing' \subseteq Issuing
    BY <1>1, <2>4 DEF MailLink, Rest, Resting, Issuing, Doing
  <2>5. CASE Dropping \/ ActivateUser \/ ExpireLink \/ NextSecond
    BY <2>5 DEF Dropping, Logout, PurgeStaleSession, ActivateUser, ExpireLink, NextSecond,
                Issuing, Doing
  <2> QED
    BY <2>2, <2>3, <2>4, <2>5 DEF Ending
<1> QED
  BY <1>2, <1>3, CountQuiet

-----------------------------------------------------------------------------

SessionInv == SessionTypes /\ EpochInv /\ LinkInv /\ CountInv

LEMMA SessionInvInit == SessionInit => SessionInv
<1> SUFFICES ASSUME SessionInit PROVE SessionInv
  OBVIOUS
<1>1. suspended \in BOOLEAN /\ work \in [Workers -> Works \cup {Resting}]
  BY Zenon DEF SessionInit
<1>2. SessionTypes
  BY <1>1, SessionAssumption DEF SessionInit, SessionTypes, SessionTypeOK, RowsNumbered
<1>3. EpochInv
  BY DEF SessionInit, EpochInv, WorkOfEpoch, EpochEnds, SuspendedHasOnlyLate, UnderWay, Resting
<1>4. LinkInv
  BY DEF SessionInit, LinkInv, LinkUsedOnce, LinksMailed, ResetIsAlone, Resets, Doing, Resting
<1>5. CountInv
  <2>1. {w \in Workers : Doing(w, "issue")} = {} /\ sessions = {}
    BY DEF SessionInit, Doing, Resting
  <2> QED
    <3>1. IsFiniteSet(sessions) /\ Cardinality(sessions) = 0
      BY <2>1, FS_EmptySet
    <3>2. Cardinality({w \in Workers : Doing(w, "issue")}) = 0
      BY <2>1, FS_EmptySet
    <3>3. logins = 0 /\ lateRefresh = 0
      BY DEF SessionInit
    <3> QED
      BY <3>1, <3>2, <3>3 DEF CountInv, NoExtraSessions
<1> QED
  BY <1>2, <1>3, <1>4, <1>5 DEF SessionInv

\* Logins, refreshes, second factors, new passwords, resets and suspensions of
\* one user, in any interleaving: an ended epoch leaves only the sessions of
\* requests that were under way, none is made up, and a link sets one password
\* unless it was found twice (AuthService).
THEOREM SessionsAreSafe == SessionSpec => []SessionsSafe
<1>1. SessionInit => SessionInv
  BY SessionInvInit
<1>2. SessionInv /\ [SessionNext]_authVars => SessionInv'
  <2> SUFFICES ASSUME SessionInv, [SessionNext]_authVars PROVE SessionInv'
    OBVIOUS
  <2> USE DEF SessionInv
  <2>1. ASSUME NEW w \in Workers, Taking(w) PROVE SessionInv'
    BY <2>1, TakingTyped, TakingEpochs, TakingLinks, TakingCounts
  <2>2. ASSUME NEW w \in Workers,
               Verify2faLogin(w) \/ ChallengeExpires(w) \/ IssueTokens(w) \/ PullToken(w)
        PROVE  SessionInv'
    BY <2>2, IssueTypes, IssueEpochs, IssueLinks, IssueCounts
  <2>3. CASE Ending
    BY <2>3, EndingTypes, EndingEpochs, EndingLinks, OtherCounts
  <2>4. CASE \/ \E w \in Workers : MailLink(w)
             \/ Dropping \/ ActivateUser \/ ExpireLink \/ NextSecond
    BY <2>4, OtherTypes, OtherEpochs, OtherLinks, OtherCounts
  <2>5. CASE UNCHANGED authVars
    BY <2>5 DEF authVars, SessionTypes, SessionTypeOK, RowsNumbered, EpochInv, WorkOfEpoch,
                EpochEnds, SuspendedHasOnlyLate, LinkInv, LinkUsedOnce, LinksMailed,
                ResetIsAlone, Resets, CountInv, NoExtraSessions, Doing, UnderWay
  <2> QED
    BY <2>1, <2>2, <2>3, <2>4, <2>5 DEF SessionNext, SuspensionNext, Taking, Ending, Dropping
<1>3. SessionInv => SessionsSafe
  BY DEF SessionInv, SessionTypes, EpochInv, LinkInv, CountInv, SessionsSafe
<1> QED
  BY <1>1, <1>2, <1>3, PTL DEF SessionSpec
=============================================================================
