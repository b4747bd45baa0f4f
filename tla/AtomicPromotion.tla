--------------------------- MODULE AtomicPromotion ---------------------------
(***************************************************************************)
(* What promotion promises, with the checkout, the index and the registry  *)
(* left out: a promote lands all of its plan at once or none of it, and    *)
(* apart from that a committed manifest moves alone, with no promote       *)
(* landing.                                                                *)
(***************************************************************************)
CONSTANTS Calls, Services, Digests, AutoEnv, ManualEnvs, InitialDigest

VARIABLES
    desired,   \* the committed digest of every manifest
    intent     \* the moves each call still means to land

Files == ({AutoEnv} \cup ManualEnvs) \X Services

\* The moves of one plan: one environment, at most one digest per service.
Moves == {m \in SUBSET ((ManualEnvs \X Services) \X Digests) :
             \A a, b \in m : /\ a[1][1] = b[1][1]
                             /\ a[1] = b[1] => a[2] = b[2]}

Init ==
    /\ desired = [f \in Files |-> InitialDigest]
    /\ intent = [c \in Calls |-> {}]

Begin(c) ==
    /\ intent[c] = {}
    /\ intent' \in [Calls -> Moves]
    /\ \A d \in Calls \ {c} : intent'[d] = intent[d]
    /\ UNCHANGED desired

Land(c) ==
    /\ intent[c] # {}
    /\ desired' = [f \in Files |->
          IF \E d \in Digests : <<f, d>> \in intent[c]
          THEN CHOOSE d \in Digests : <<f, d>> \in intent[c]
          ELSE desired[f]]
    /\ intent' = [intent EXCEPT ![c] = {}]

GiveUp(c) ==
    /\ intent' = [intent EXCEPT ![c] = {}]
    /\ UNCHANGED desired

\* A build reaches the auto environment, or somebody sets one manifest by hand:
\* what a call means to land, it still has to.
Deliver(e, s, d) ==
    /\ desired' = [desired EXCEPT ![<<e, s>>] = d]
    /\ UNCHANGED intent

Next ==
    \/ \E c \in Calls : Begin(c) \/ Land(c) \/ GiveUp(c)
    \/ \E e \in {AutoEnv} \cup ManualEnvs, s \in Services, d \in Digests :
          Deliver(e, s, d)

Spec == Init /\ [][Next]_<<desired, intent>>
=============================================================================
