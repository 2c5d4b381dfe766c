------------------------------ MODULE MCProgress -----------------------------
(* What must go on: the two sides of a partition find together, and every   *)
(* witness gets its turns.  Each behaviour is of one of the two parts.      *)
EXTENDS MCChain, WitnessSchedule

VARIABLE part

progressVars == <<vars, svars, part>>

Peers(A) == part = "peers" /\ A /\ UNCHANGED <<svars, part>>
Rounds(A) == part = "rounds" /\ A /\ UNCHANGED <<vars, part>>

ProgressInit == part \in {"peers", "rounds"} /\ Init /\ ScheduleInit

ProgressNext == Peers(Next) \/ Rounds(ScheduleNext)

(* The fairness of PeerSpec and of ScheduleSpec. *)
ProgressSpec ==
    /\ ProgressInit
    /\ [][ProgressNext]_progressVars
    /\ WF_progressVars(Peers(PushStep))
    /\ \A b \in Blocks : SF_progressVars(Peers(Deliver(b)))
    /\ WF_progressVars(Rounds(ScheduleRound))

(* Converges, of the part with peers. *)
PartitionConverges == part = "peers" => Converges
==============================================================================
