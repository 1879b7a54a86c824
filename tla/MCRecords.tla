----------------------------- MODULE MCRecords -----------------------------
(* The records of the database that requests read first and write later, one *)
(* collection at a time, and what a process keeps in memory - answers made   *)
(* of them, breakers: these share no state, so one run picks one of them in  *)
(* its initial state and lets that one move.                                 *)
EXTENDS Careers, Newsletter, KeyRotation, Listing, DeadLetters, Endpoints, Buckets,
  ResponseCache, TrialMails, LocalBreakers, MCBilling

VARIABLE kept

PathTypes == {<<"pay">>, <<"pay", "ok">>, <<"user", "new">>}

\* The event whose payload is encrypted dies once, the other one twice.
Deaths == [e \in Letters |-> IF e \in Encrypted THEN 1 ELSE 2]

KeptParts == {"careers", "newsletter", "keys", "list", "letters", "endpoints", "buckets",
              "answers", "trials", "breakers", "billing"}
Rest3 == <<careersVars, newsVars, keyVars>>
Rest4 == <<listVars, letterVars>>
Rest5 == <<endpointVars, bucketVars, responseVars>>
Rest6 == <<trialVars, localVars, menuVars>>
vars == <<kept, Rest3, Rest4, Rest5, Rest6>>

\* The collections that do not move have one initial state.
Init ==
  /\ kept \in KeptParts
  /\ CareersInit /\ NewsletterInit /\ EndpointsInit /\ BucketsInit /\ ResponseInit /\ LocalInit
  /\ MenuInit /\ (kept # "billing" => menu = Money)
  /\ KeyInit
  /\ kept # "keys" =>
       /\ env = [key |-> "none", label |-> "v0", prev |-> "none", prevLabel |-> "v0",
                 factor |-> "none"]
       /\ sealed = {}
  /\ ListInit
  /\ kept # "list" => client.reads = "cursor" /\ stamp = [e \in Items |-> 1]
  /\ LettersInit
  /\ kept # "letters" => letter = [e \in Letters |-> "dead"]
  /\ TrialInit
  /\ kept # "trials" => trial = [u \in Trials |-> [status |-> "trial", end |-> 0]]

Next ==
  /\ UNCHANGED kept
  /\ \/ /\ kept = "careers" /\ CareersNext
        /\ UNCHANGED <<newsVars, keyVars, Rest4, Rest5, Rest6>>
     \/ /\ kept = "newsletter" /\ NewsletterNext
        /\ UNCHANGED <<careersVars, keyVars, Rest4, Rest5, Rest6>>
     \/ /\ kept = "keys" /\ KeyNext
        /\ UNCHANGED <<careersVars, newsVars, Rest4, Rest5, Rest6>>
     \/ kept = "list" /\ ListNext /\ UNCHANGED <<Rest3, letterVars, Rest5, Rest6>>
     \/ kept = "letters" /\ LettersNext /\ UNCHANGED <<Rest3, listVars, Rest5, Rest6>>
     \/ /\ kept = "endpoints" /\ EndpointsNext
        /\ UNCHANGED <<Rest3, Rest4, bucketVars, responseVars, Rest6>>
     \/ /\ kept = "buckets" /\ BucketsNext
        /\ UNCHANGED <<Rest3, Rest4, endpointVars, responseVars, Rest6>>
     \/ /\ kept = "answers" /\ ResponseNext
        /\ UNCHANGED <<Rest3, Rest4, endpointVars, bucketVars, Rest6>>
     \/ kept = "trials" /\ TrialNext /\ UNCHANGED <<Rest3, Rest4, Rest5, localVars, menuVars>>
     \/ kept = "breakers" /\ LocalNext /\ UNCHANGED <<Rest3, Rest4, Rest5, trialVars, menuVars>>
     \/ kept = "billing" /\ MenuNext /\ UNCHANGED <<Rest3, Rest4, Rest5, trialVars, localVars>>
Spec == Init /\ [][Next]_vars

=============================================================================
