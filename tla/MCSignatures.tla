---------------------------- MODULE MCSignatures ----------------------------
(***************************************************************************)
(* What the clients sign and verify: repository key grants, identity       *)
(* successions, registration and login challenges, device and revocation   *)
(* certificates, and the framing of canonical bytes under them.  They      *)
(* share no state, so a behaviour exercises one and leaves the others at   *)
(* rest.  Parties and fingerprints, repositories, accounts, nonces and     *)
(* verifiers, and keys, times and masters are drawn from the same sets of  *)
(* interchangeable values.                                                 *)
(***************************************************************************)
EXTENDS RepoKeyGrant, IdentitySuccession, AuthChallenge, DeviceTrust, CanonicalEncoding, TLC

CONSTANTS k1, k2, d1, d2, z1, z2, m1, m2

VARIABLE part

-----------------------------------------------------------------------------
\* A v4 and a v6 key whose fingerprints start alike.
MCFingerprint(k) == [head |-> "0011223344556677", tail |-> IF k = k1 THEN "8899" ELSE "aabb",
                     width |-> IF k = k1 THEN 40 ELSE 64, letters |-> "upper"]
Gcm == [parts |-> <<"gcm">>, length |-> 3, alphanumeric |-> TRUE]

\* Two accounts of one person, registered with one phrase.
MCMasterOf(a) == m1

\* The clocks drift apart and run on; one key is enough for that.
Clocks == INSTANCE AuthChallenge WITH Keys <- {k1}, Grants <- {}, MaxTime <- 5, MaxAhead <- 2

\* Two phrases of two masters, and a mistyped one.
MCPhraseMaster == [p \in Phrase |-> CASE p = "phrase" -> z1
                                     [] p = "other phrase" -> z2
                                     [] OTHER -> NoMaster]

\* A length in decimal.
MCDecimal(n) ==
    LET Digit == <<"0", "1", "2", "3", "4", "5", "6", "7", "8", "9">>
        d[k \in 0 .. n] == IF k < 10 THEN <<Digit[k + 1]>>
                           ELSE Append(d[k \div 10], Digit[(k % 10) + 1])
    IN  d[n]

-----------------------------------------------------------------------------
MCInit ==
    /\ part \in {"grant", "succession", "auth", "clocks", "trust", "encoding"}
    /\ GrantInit /\ AuthInit /\ TrustInit /\ EncodingInit
    /\ IF part = "succession" THEN SuccessionInit
       ELSE /\ cloud = [a \in Accounts |-> [fp |-> NoKey, version |-> 1]]
            /\ signed = {} /\ consented = {} /\ applied = [a \in Accounts |-> {}]

GrantStep == /\ part = "grant" /\ GrantNext
             /\ UNCHANGED <<part, successionVars, authVars, trustVars, encodingVars>>
SuccessionStep == /\ part = "succession" /\ SuccessionNext
                  /\ UNCHANGED <<part, grantVars, authVars, trustVars, encodingVars>>
AuthStep == /\ part = "auth" /\ AuthNext
            /\ UNCHANGED <<part, grantVars, successionVars, trustVars, encodingVars>>
ClockStep == /\ part = "clocks" /\ Clocks!AuthNext
             /\ UNCHANGED <<part, grantVars, successionVars, trustVars, encodingVars>>
TrustStep == /\ part = "trust" /\ TrustNext
             /\ UNCHANGED <<part, grantVars, successionVars, authVars, encodingVars>>
EncodingStep == /\ part = "encoding" /\ EncodingNext
                /\ UNCHANGED <<part, grantVars, successionVars, authVars, trustVars>>

MCNext == GrantStep \/ SuccessionStep \/ AuthStep \/ ClockStep \/ TrustStep \/ EncodingStep

MCSpec == MCInit /\ [][MCNext]_<<part, grantVars, successionVars, authVars, trustVars, encodingVars>>

Symmetry == Permutations(Party) \cup Permutations(Repo) \cup Permutations(RepoKey)
=============================================================================
