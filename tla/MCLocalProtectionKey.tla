----------------------- MODULE MCLocalProtectionKey -----------------------
(***************************************************************************)
(* Small instances of LocalProtectionKey.                                  *)
(***************************************************************************)
EXTENDS LocalProtectionKey, TLC

CONSTANTS p1, p2, t1, t2

\* Two processes, one thread each: Desktop and Service on one machine.
TwoProcesses == t1 :> p1 @@ t2 :> p2
\* One process with two threads.
OneProcess == t1 :> p1 @@ t2 :> p1

NoHeadless == [p \in Process |-> "unset"]
\* The Service carries a headless secret file, the Desktop nothing.
ServiceHeadless == p1 :> "unset" @@ p2 :> "file"

\* A host with an OS keyring, one whose Service also has a headless secret
\* file, and one without a persistent keyring.
ThreeHosts == {<<TRUE, NoHeadless>>, <<TRUE, ServiceHeadless>>,
               <<FALSE, ServiceHeadless>>}
KeyringHost == {<<TRUE, NoHeadless>>}
FallbackHost == {<<TRUE, p1 :> "file">>}

KeySymmetry == Permutations(Key)

\* Nobody wipes the keyring, re-mints or restarts: the fresh first launch.
FirstLaunchNext ==
    /\ \E t \in Thread :
         \/ \E f \in File : Call(t, "wrap", f)
         \/ Acquire(t)
         \/ Step(t)
    /\ UNCHANGED host

FirstLaunch == Init /\ [][FirstLaunchNext]_vars
=============================================================================
